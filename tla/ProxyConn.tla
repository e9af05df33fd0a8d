------------------------------ MODULE ProxyConn ------------------------------
(***************************************************************************)
(* The descriptors of the proxy: main accepts connections and hands each   *)
(* one to a detached thread through a heap cell; a thread that misses      *)
(* opens a second descriptor with open_clientfd of csapp.c.  The threads   *)
(* share one descriptor table, in which the kernel reuses the lowest free  *)
(* place.  What is cached and what is relayed is left to ProxyCache and    *)
(* Relay: here a request is a hit, a miss or an error.                     *)
(***************************************************************************)
EXTENDS Integers, FiniteSets

CONSTANTS Threads,   \* places for threads
          MaxConn,   \* bound: connections that clients make
          OpenMax,   \* descriptors are 0 .. OpenMax - 1
          Inherited, \* of them open when the proxy starts: 3, for stdio
          Cells,     \* where Malloc(sizeof(int)) may put a cell
          Addrs      \* the lengths of the lists that getaddrinfo returns

ASSUME ConnAssumption == /\ MaxConn \in Nat /\ {OpenMax, Inherited} \subseteq Nat
                         /\ Addrs \subseteq Nat /\ Cells \subseteq Nat \ {0}

Fds == 0 .. OpenMax - 1
Conns == 1 .. MaxConn
NoFd == -1
NoCell == 0    \* NULL

\* What a descriptor stands for.
Closed == <<"closed", 0>>
Std == <<"std", 0>>
Listener == <<"listen", 0>>
Client(n) == <<"client", n>>
Server(n) == <<"server", n>>
File == {Closed, Std, Listener} \cup {Client(n) : n \in Conns} \cup {Server(n) : n \in Conns}

\* The locals of a thread: where it is, the cell it was given, its descriptors,
\* the addresses open_clientfd has not tried; conn, the connection main made it
\* for, is history.
Labels == {"none", "start", "request", "unset", "socket", "connect", "relay", "close", "last"}
Locals == [pc : Labels, vargp : Cells \cup {NoCell}, clientfd : Fds \cup {NoFd},
           serverfd : Fds \cup {NoFd}, left : Nat, conn : 0 .. MaxConn]
NoThread == [pc |-> "none", vargp |-> NoCell, clientfd |-> NoFd, serverfd |-> NoFd,
             left |-> 0, conn |-> 0]

VARIABLES
  proxy,      \* "running" or "exited"
  file,       \* the descriptor table
  cell,       \* what the allocated cells hold
  allocated,  \* cells that are allocated
  mpc, listen_fd, connfd, untried, \* main; untried are addresses of open_listenfd
  accepted,   \* connections so far
  thread,     \* the threads' locals
  replied,    \* connections that clienterror has answered (history)
  stray       \* a hit has closed the descriptor its stack happened to hold (history)

heapVars == <<cell, allocated>>
mainVars == <<mpc, listen_fd, connfd, untried, accepted>>
history == <<replied, stray>>
vars == <<proxy, file, heapVars, mainVars, thread, history>>

Init ==
  /\ proxy = "running"
  /\ file = [d \in Fds |-> IF d < Inherited THEN Std ELSE Closed]
  /\ cell = [c \in Cells |-> NoFd] /\ allocated = {}
  /\ mpc = "getaddrinfo" /\ listen_fd = NoFd /\ connfd = NoCell /\ untried = 0
  /\ accepted = 0
  /\ thread = [t \in Threads |-> NoThread]
  /\ replied = {} /\ stray = FALSE

-----------------------------------------------------------------------------
(* The table.                                                              *)

Free == {d \in Fds : file[d] = Closed}

\* The kernel opens the lowest free descriptor.
Opens(d, what) ==
  /\ d \in Free /\ \A o \in Free : d <= o
  /\ file' = [file EXCEPT ![d] = what]

\* Close of a descriptor that is open.
Closes(d) == d \in Fds \ Free /\ file' = [file EXCEPT ![d] = Closed]

\* unix_error, posix_error, dns_error: the process ends with all its threads and
\* the kernel closes its descriptors.
Exit ==
  /\ proxy' = "exited"
  /\ file' = [d \in Fds |-> Closed]
  /\ cell' = [c \in Cells |-> NoFd] /\ allocated' = {}
  /\ mpc' = "exited" /\ listen_fd' = NoFd /\ connfd' = NoCell /\ untried' = 0
  /\ thread' = [t \in Threads |-> NoThread]
  /\ accepted' = 0 /\ replied' = {} /\ stray' = FALSE

MainGoto(from, to) == mpc = from /\ mpc' = to

-----------------------------------------------------------------------------
(* open_listenfd.                                                          *)

ListenAddrs ==
  /\ MainGoto("getaddrinfo", "socket")
  /\ untried' \in Addrs
  /\ UNCHANGED <<proxy, file, heapVars, listen_fd, connfd, accepted, thread, history>>

\* Socket failed, try the next.
ListenSocketFails ==
  /\ MainGoto("socket", "socket") /\ untried > 0
  /\ untried' = untried - 1
  /\ UNCHANGED <<proxy, file, heapVars, listen_fd, connfd, accepted, thread, history>>

ListenSocket ==
  /\ MainGoto("socket", "bind") /\ untried > 0
  /\ \E d \in Fds : Opens(d, Listener) /\ listen_fd' = d
  /\ UNCHANGED <<proxy, heapVars, connfd, untried, accepted, thread, history>>

\* bind fails, and the next address is tried.
BindFails ==
  /\ MainGoto("bind", "socket")
  /\ Closes(listen_fd) /\ untried' = untried - 1
  /\ UNCHANGED <<proxy, heapVars, listen_fd, connfd, accepted, thread, history>>

\* bind and listen.
Listen ==
  /\ MainGoto("bind", "malloc")
  /\ UNCHANGED <<proxy, file, heapVars, listen_fd, connfd, untried, accepted, thread, history>>

-----------------------------------------------------------------------------
(* main.                                                                   *)

\* Seeded bug: one cell for all connections.
OneCell(c) == connfd \in {c, NoCell}

\* A cell of its own for each connection, "for thread safe".
NewCell(c) == c \notin allocated

MallocCell ==
  /\ MainGoto("malloc", "accept")
  /\ \E c \in Cells : NewCell(c) /\ connfd' = c /\ allocated' = allocated \cup {c}
  /\ UNCHANGED <<proxy, file, cell, listen_fd, untried, accepted, thread, history>>

Accept ==
  /\ MainGoto("accept", "create")
  /\ accepted < MaxConn /\ accepted' = accepted + 1
  /\ \E d \in Fds : Opens(d, Client(accepted')) /\ cell' = [cell EXCEPT ![connfd] = d]
  /\ UNCHANGED <<proxy, allocated, listen_fd, connfd, untried, thread, history>>

\* Gethostbyaddr has found a name; a thread gets the cell.
Create(t) ==
  /\ MainGoto("create", "malloc")
  /\ thread[t].pc = "none"
  /\ thread' = [thread EXCEPT ![t] = [NoThread EXCEPT !.pc = "start", !.vargp = connfd,
                                                      !.conn = accepted]]
  /\ UNCHANGED <<proxy, file, heapVars, listen_fd, connfd, untried, accepted, history>>

\* A call of main fails: no address left, no memory, no name for the client's
\* address, no thread; accept when the table is full.
MainExits ==
  /\ \/ mpc \in {"getaddrinfo", "bind", "malloc", "create"}
     \/ mpc = "socket" /\ untried = 0
     \/ mpc = "accept" /\ accepted < MaxConn
  /\ Exit

-----------------------------------------------------------------------------
(* do_proxy.                                                               *)

At(t, label) == thread[t].pc = label
Goto(t, to) == thread' = [thread EXCEPT ![t].pc = to]
Ends(t) == thread' = [thread EXCEPT ![t] = NoThread]
Usable(d) == d \in Fds \ Free

\* The thread takes its descriptor out of the cell and frees the cell.
Start(t) ==
  LET c == thread[t].vargp
  IN  /\ At(t, "start")
      /\ thread' = [thread EXCEPT ![t].pc = "request", ![t].clientfd = cell[c], ![t].vargp = NoCell]
      /\ allocated' = allocated \ {c} /\ cell' = [cell EXCEPT ![c] = NoFd]
      /\ UNCHANGED <<proxy, file, mainVars, history>>

\* Not a GET, or not an http URI: clienterror, and clientfd is left open.
ErrorReply(t) ==
  /\ At(t, "request") /\ Usable(thread[t].clientfd) /\ Ends(t)
  /\ replied' = replied \cup {thread[t].conn}
  /\ UNCHANGED <<proxy, file, heapVars, mainVars, stray>>

Hit(t) ==
  /\ At(t, "request") /\ Usable(thread[t].clientfd) /\ Goto(t, "unset")
  /\ UNCHANGED <<proxy, file, heapVars, mainVars, history>>

\* Open_clientfd: getaddrinfo has found some addresses.
Miss(t) ==
  /\ At(t, "request") /\ Usable(thread[t].clientfd)
  /\ \E n \in Addrs : thread' = [thread EXCEPT ![t].pc = "socket", ![t].left = n]
  /\ UNCHANGED <<proxy, file, heapVars, mainVars, history>>

\* Seeded bug: the address that failed is tried again.
SameAddr(t) == Goto(t, "socket")

\* p = p->ai_next
NextAddr(t) == thread' = [thread EXCEPT ![t].pc = "socket", ![t].left = @ - 1]

\* Socket failed, try the next.
SocketFails(t) ==
  /\ At(t, "socket") /\ thread[t].left > 0 /\ NextAddr(t)
  /\ UNCHANGED <<proxy, file, heapVars, mainVars, history>>

Socket(t) ==
  /\ At(t, "socket") /\ thread[t].left > 0
  /\ \E d \in Fds :
        /\ Opens(d, Server(thread[t].conn))
        /\ thread' = [thread EXCEPT ![t].pc = "connect", ![t].serverfd = d]
  /\ UNCHANGED <<proxy, heapVars, mainVars, history>>

\* Seeded bug: the socket is not closed before the next address is tried.
ConnectFailsOpen(t) ==
  /\ At(t, "connect") /\ NextAddr(t)
  /\ UNCHANGED <<proxy, file, heapVars, mainVars, history>>

ConnectFails(t) ==
  /\ At(t, "connect") /\ Closes(thread[t].serverfd) /\ NextAddr(t)
  /\ UNCHANGED <<proxy, heapVars, mainVars, history>>

Connect(t) ==
  /\ At(t, "connect") /\ Goto(t, "relay")
  /\ UNCHANGED <<proxy, file, heapVars, mainVars, history>>

\* All reads and writes of a miss.
RelayAll(t) ==
  /\ At(t, "relay") /\ Usable(thread[t].clientfd) /\ Usable(thread[t].serverfd)
  /\ Goto(t, "close")
  /\ UNCHANGED <<proxy, file, heapVars, mainVars, history>>

CloseServer(t) ==
  /\ At(t, "close") /\ Closes(thread[t].serverfd) /\ Goto(t, "last")
  /\ UNCHANGED <<proxy, heapVars, mainVars, history>>

\* After a hit serverfd is whatever the stack holds.
CloseUnset(t) ==
  /\ At(t, "unset") /\ (\E d \in Fds : Closes(d)) /\ Goto(t, "last")
  /\ stray' = TRUE
  /\ UNCHANGED <<proxy, heapVars, mainVars, replied>>

CloseClient(t) ==
  /\ At(t, "last") /\ Closes(thread[t].clientfd) /\ Ends(t)
  /\ UNCHANGED <<proxy, heapVars, mainVars, history>>

\* A wrapper ends the process: a read, write or close of a bad descriptor, a
\* peer that resets the connection, no server that answers.
ThreadExits(t) ==
  /\ \/ thread[t].pc \in {"request", "connect", "relay", "unset", "close", "last"}
     \/ At(t, "socket") /\ thread[t].left = 0
  /\ Exit

Thread(t) ==
  /\ proxy = "running"
  /\ \/ Start(t) \/ ErrorReply(t) \/ Hit(t) \/ Miss(t) \/ SocketFails(t) \/ Socket(t)
     \/ ConnectFails(t) \/ Connect(t) \/ RelayAll(t) \/ CloseServer(t) \/ CloseUnset(t)
     \/ CloseClient(t) \/ ThreadExits(t)

MainStep ==
  /\ proxy = "running"
  /\ \/ ListenAddrs \/ ListenSocketFails \/ ListenSocket \/ BindFails \/ Listen
     \/ MallocCell \/ Accept \/ (\E t \in Threads : Create(t)) \/ MainExits

\* The process has ended, or no client connects any more.
Quiet ==
  /\ \/ proxy = "exited"
     \/ accepted = MaxConn /\ mpc = "accept" /\ \A t \in Threads : At(t, "none")
  /\ UNCHANGED vars

Next == MainStep \/ (\E t \in Threads : Thread(t)) \/ Quiet

Spec == Init /\ [][Next]_vars

\* Threads are scheduled, peers and resolvers answer or fail.
FairSpec == Spec /\ \A t \in Threads : WF_vars(Thread(t))

-----------------------------------------------------------------------------
(* Properties.                                                             *)

\* Types of the table, of main and of the threads.
TypeOK ==
  /\ proxy \in {"running", "exited"}
  /\ file \in [Fds -> File]
  /\ cell \in [Cells -> Fds \cup {NoFd}] /\ allocated \subseteq Cells
  /\ mpc \in {"getaddrinfo", "socket", "bind", "malloc", "accept", "create", "exited"}
  /\ listen_fd \in Fds \cup {NoFd} /\ connfd \in Cells \cup {NoCell}
  /\ untried \in Nat /\ accepted \in 0 .. MaxConn
  /\ thread \in [Threads -> Locals]
  /\ replied \subseteq Conns /\ stray \in BOOLEAN

HasClient == {t \in Threads : ~ At(t, "none") /\ ~ At(t, "start")}
HasServer == {t \in Threads : thread[t].pc \in {"connect", "relay", "close"}}

\* As long as no hit has closed a descriptor that was not its own, a thread
\* reads, writes and closes only the connection main made it for and the server
\* it has opened itself, however descriptors and cells are reused meanwhile.
OwnDescriptors == ~ stray =>
  /\ \A t \in HasClient : /\ thread[t].clientfd \in Fds
                          /\ file[thread[t].clientfd] = Client(thread[t].conn)
  /\ \A t \in HasServer : /\ thread[t].serverfd \in Fds
                          /\ file[thread[t].serverfd] = Server(thread[t].conn)

\* ... and an open connection is in the hands of a thread, or of main, or it is
\* one that clienterror has answered: each of those stays open for ever.
NothingElseLeaks == ~ stray => \A d \in Fds, n \in Conns :
  /\ file[d] = Client(n) =>
       \/ n \in replied
       \/ mpc = "create" /\ n = accepted
       \/ \E t \in Threads : ~ At(t, "none") /\ thread[t].conn = n
  /\ file[d] = Server(n) => \E t \in HasServer : thread[t].serverfd = d

\* Every connection that is accepted is done with, or the process ends.
ThreadsEnd ==
  \A t \in Threads : ~ At(t, "none") ~> At(t, "none")

\* False once error replies have filled the table: accept fails and the proxy
\* ends.
NeverFull == Free # {}
=============================================================================
