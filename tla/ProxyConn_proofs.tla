-------------------------- MODULE ProxyConn_proofs --------------------------
(***************************************************************************)
(* Theorems about the descriptors of the proxy (proxy_lab/proxy.c and      *)
(* open_clientfd of csapp.c), for any number of threads, connections,      *)
(* descriptors, cells and addresses.                                       *)
(***************************************************************************)
EXTENDS ProxyConn, TLAPS

\* An address is left while its socket is tried, so that taking the next one
\* does not count below 0 (csapp.c:977-990, 1015-1036); main and a thread that has
\* not started have a cell, and a thread has a connection.
Ready == /\ mpc = "bind" => untried > 0
         /\ mpc \in {"accept", "create"} => connfd \in Cells
         /\ mpc = "create" => accepted \in Conns
         /\ \A t \in Threads : /\ ~ At(t, "none") => thread[t].conn \in Conns
                               /\ At(t, "connect") => thread[t].left > 0
                               /\ At(t, "start") => thread[t].vargp \in Cells

\* A thread that has not started has a cell of its own, and so does main; the
\* cell holds the client of that thread, or of the connection just accepted
\* (proxy.c:39-46, 54-55).
CellOf(t) == thread[t].vargp
OwnCells ==
  /\ \A t \in Threads : At(t, "start") =>
       /\ CellOf(t) \in allocated /\ cell[CellOf(t)] \in Fds
       /\ file[cell[CellOf(t)]] = Client(thread[t].conn)
  /\ \A t, u \in Threads : At(t, "start") /\ At(u, "start") /\ CellOf(t) = CellOf(u) => t = u
  /\ mpc \in {"accept", "create"} =>
       /\ connfd \in allocated
       /\ \A t \in Threads : At(t, "start") => CellOf(t) # connfd
  /\ mpc = "create" =>
       /\ cell[connfd] \in Fds /\ file[cell[connfd]] = Client(accepted)

\* Threads serve different connections, all accepted, and each connection has
\* one descriptor.
OneEach ==
  /\ \A t \in Threads : ~ At(t, "none") => thread[t].conn \in 1 .. accepted
  /\ \A t, u \in Threads : ~ At(t, "none") /\ ~ At(u, "none") /\ thread[t].conn = thread[u].conn
                             => t = u
  /\ mpc = "create" => /\ accepted > 0
                       /\ \A t \in Threads : ~ At(t, "none") => thread[t].conn # accepted
  /\ \A d, o \in Fds, n \in Conns : file[d] = Client(n) /\ file[o] = Client(n) => d = o
  /\ \A d \in Fds, n \in Conns : file[d] = Client(n) => n <= accepted

\* main closes only the socket it has opened itself (csapp.c:1030).
OwnListener == mpc = "bind" => listen_fd \in Fds /\ file[listen_fd] = Listener

Owned == OwnCells /\ OneEach /\ OwnListener /\ OwnDescriptors /\ NothingElseLeaks

ConnInv == TypeOK /\ Ready /\ (~ stray => Owned)
-----------------------------------------------------------------------------
(* Basic facts                                                             *)

LEMMA Constants ==
    /\ MaxConn \in Nat /\ OpenMax \in Nat /\ Addrs \subseteq Nat /\ NoCell \notin Cells
    /\ NoFd \notin Fds /\ Fds \subseteq Nat
BY ConnAssumption DEF NoCell, NoFd, Fds

\* What a descriptor stands for tells its kind and its connection.
LEMMA FileKinds ==
    /\ \A n \in Int : Client(n) \notin {Closed, Std, Listener}
    /\ \A n \in Int : Server(n) \notin {Closed, Std, Listener}
    /\ \A n, m \in Int : /\ Client(n) # Server(m)
                         /\ Client(n) = Client(m) => n = m
                         /\ Server(n) = Server(m) => n = m
    /\ Listener # Closed /\ Std # Closed /\ Std # Listener
    /\ {Closed, Std, Listener} \subseteq File
    /\ \A n \in Conns : Client(n) \in File /\ Server(n) \in File
BY DEF Client, Server, Closed, Std, Listener, File

\* What opening and closing do to the table.
LEMMA OpensFile ==
    ASSUME TypeOK, NEW d \in Fds, NEW what \in File, Opens(d, what)
    PROVE  /\ file' \in [Fds -> File] /\ file[d] = Closed
           /\ \A o \in Fds : file'[o] = IF o = d THEN what ELSE file[o]
BY DEF Opens, Free, TypeOK

LEMMA ClosesFile ==
    ASSUME TypeOK, NEW d, Closes(d)
    PROVE  /\ file' \in [Fds -> File] /\ d \in Fds /\ file[d] # Closed
           /\ \A o \in Fds : file'[o] = IF o = d THEN Closed ELSE file[o]
BY FileKinds DEF Closes, Free, TypeOK

\* A process that has exited has nothing left to own.
LEMMA ExitKeeps ==
    ASSUME Exit
    PROVE  ConnInv'
<1>1. ~ stray' /\ \A d \in Fds : file'[d] = Closed
  BY DEF Exit
<1>2. NoThread \in Locals /\ NoThread.pc = "none"
  BY Constants DEF NoThread, Locals, Labels
<1>3. \A t \in Threads : thread'[t] = NoThread /\ thread'[t].pc = "none"
  BY <1>2 DEF Exit
<1>4. TypeOK'
  <2>1. file' \in [Fds -> File] /\ cell' \in [Cells -> Fds \cup {NoFd}]
    BY FileKinds DEF Exit
  <2>2. thread' \in [Threads -> Locals]
    BY <1>2 DEF Exit
  <2>3. accepted' \in 0 .. MaxConn /\ untried' \in Nat
    BY Constants DEF Exit
  <2> QED BY <2>1, <2>2, <2>3 DEF Exit, TypeOK
<1>5. Ready'
  BY <1>3 DEF Exit, Ready, At
<1>6. Owned'
  <2>1. mpc' = "exited"
    BY DEF Exit
  <2>2. \A d \in Fds, n \in Conns : file'[d] # Client(n) /\ file'[d] # Server(n)
    BY <1>1, FileKinds, Constants DEF Conns
  <2> QED BY <1>3, <2>1, <2>2 DEF Owned, OwnCells, OneEach, OwnListener, OwnDescriptors,
                               NothingElseLeaks, HasClient, HasServer, At, CellOf
<1> QED BY <1>4, <1>5, <1>6 DEF ConnInv
-----------------------------------------------------------------------------
(* Types                                                                   *)

\* What a step of thread t makes of its locals.
LEMMA ThreadType ==
    ASSUME TypeOK, NEW t \in Threads, NEW r \in Locals, thread' = [thread EXCEPT ![t] = r]
    PROVE  /\ thread' \in [Threads -> Locals]
           /\ thread'[t] = r
           /\ \A u \in Threads : u # t => thread'[u] = thread[u]
BY DEF TypeOK

LEMMA MainTypes == TypeOK /\ Ready /\ MainStep /\ ~ MainExits => TypeOK' /\ Ready'
<1> SUFFICES ASSUME TypeOK, Ready, MainStep, ~ MainExits PROVE TypeOK' /\ Ready'
  OBVIOUS
<1> USE Constants
<1>1. CASE ListenAddrs
  BY <1>1 DEF ListenAddrs, MainGoto, TypeOK, Ready, At, heapVars, history
<1>2. CASE ListenSocketFails
  BY <1>2 DEF ListenSocketFails, MainGoto, TypeOK, Ready, At, heapVars, history
<1>3. CASE ListenSocket
  <2>1. PICK d \in Fds : Opens(d, Listener) /\ listen_fd' = d
    BY <1>3 DEF ListenSocket
  <2>2. file' \in [Fds -> File]
    BY <2>1, OpensFile, FileKinds
  <2> QED BY <1>3, <2>1, <2>2 DEF ListenSocket, MainGoto, TypeOK, Ready, At, heapVars, history
<1>4. CASE BindFails
  <2>1. file' \in [Fds -> File]
    BY <1>4, ClosesFile DEF BindFails
  <2> QED BY <1>4, <2>1 DEF BindFails, MainGoto, TypeOK, Ready, At, heapVars, history
<1>5. CASE Listen
  BY <1>5 DEF Listen, MainGoto, TypeOK, Ready, At, heapVars, history
<1>6. CASE MallocCell
  BY <1>6 DEF MallocCell, MainGoto, TypeOK, Ready, At, history
<1>7. CASE Accept
  <2>1. PICK d \in Fds : Opens(d, Client(accepted')) /\ cell' = [cell EXCEPT ![connfd] = d]
    BY <1>7 DEF Accept
  <2>2. accepted' \in Conns
    BY <1>7 DEF Accept, TypeOK, Conns
  <2>3. file' \in [Fds -> File]
    BY <2>1, <2>2, OpensFile, FileKinds
  <2>4. cell' \in [Cells -> Fds \cup {NoFd}]
    BY <2>1 DEF TypeOK
  <2> QED BY <1>7, <2>2, <2>3, <2>4 DEF Accept, MainGoto, TypeOK, Ready, At, history, Conns
<1>8. ASSUME NEW t \in Threads, Create(t) PROVE TypeOK' /\ Ready'
  <2> DEFINE r == [NoThread EXCEPT !.pc = "start", !.vargp = connfd, !.conn = accepted]
  <2>1. r \in Locals /\ r.pc = "start"
    BY DEF TypeOK, NoThread, Locals, Labels
  <2>2. thread' = [thread EXCEPT ![t] = r]
    BY <1>8 DEF Create
  <2>3. /\ thread' \in [Threads -> Locals] /\ thread'[t] = r
        /\ \A u \in Threads : u # t => thread'[u] = thread[u]
    BY <2>1, <2>2, ThreadType
  <2> QED BY <1>8, <2>1, <2>3 DEF Create, MainGoto, TypeOK, Ready, At, heapVars, history
<1> QED BY <1>1, <1>2, <1>3, <1>4, <1>5, <1>6, <1>7, <1>8 DEF MainStep

\* The steps of a thread whose locals become r: which they are, and what is open.
LEMMA ThreadReady ==
    ASSUME TypeOK, Ready, NEW t \in Threads, NEW r \in Locals, thread' = [thread EXCEPT ![t] = r],
           UNCHANGED mainVars, UNCHANGED proxy,
           file' \in [Fds -> File], cell' \in [Cells -> Fds \cup {NoFd}], allocated' \subseteq Cells,
           replied' \subseteq Conns, stray' \in BOOLEAN,
           r.pc # "none" => r.conn \in Conns, r.pc # "start", r.pc = "connect" => r.left > 0
    PROVE  TypeOK' /\ Ready'
<1>1. /\ thread' \in [Threads -> Locals] /\ thread'[t] = r
      /\ \A u \in Threads : u # t => thread'[u] = thread[u]
  BY ThreadType
<1> QED BY <1>1 DEF TypeOK, Ready, At, mainVars

LEMMA ThreadTypes ==
    ASSUME TypeOK, Ready, NEW t \in Threads, Thread(t), ~ ThreadExits(t)
    PROVE  TypeOK' /\ Ready'
<1> USE Constants
<1> DEFINE l == thread[t]
<1>1. l \in Locals
  BY DEF TypeOK
<1> HIDE DEF l
<1>conn. l.pc # "none" => l.conn \in Conns
  BY DEF Ready, At, l
<1>none. NoThread \in Locals /\ NoThread.pc = "none"
  BY DEF NoThread, Locals, Labels
<1>2. CASE Start(t)
  <2> DEFINE r == [l EXCEPT !.pc = "request", !.clientfd = cell[l.vargp], !.vargp = NoCell]
  <2>1. l.vargp \in Cells
    BY <1>2 DEF Start, Ready, At, l
  <2>2. r \in Locals /\ r.pc = "request" /\ r.conn \in Conns
    BY <1>1, <1>2, <1>conn, <2>1 DEF Locals, Labels, TypeOK, Start, At, l
  <2>3. thread' = [thread EXCEPT ![t] = r]
    BY <1>2 DEF Start, l, TypeOK
  <2>4. cell' \in [Cells -> Fds \cup {NoFd}] /\ allocated' \subseteq Cells
    BY <1>2 DEF Start, TypeOK
  <2> QED BY <1>2, <2>2, <2>3, <2>4, ThreadReady DEF Start, history, TypeOK
<1>3. CASE ErrorReply(t)
  <2>1. l.conn \in Conns
    BY <1>3, <1>conn DEF ErrorReply, At, l
  <2>2. replied' \subseteq Conns
    BY <1>3, <2>1 DEF ErrorReply, TypeOK, l
  <2> QED BY <1>3, <1>none, <2>2, ThreadReady DEF ErrorReply, Ends, history, TypeOK, heapVars
<1>4. ASSUME NEW from, NEW to \in Labels \ {"none", "start", "connect"},
             At(t, from), from # "none", Goto(t, to),
             file' \in [Fds -> File], UNCHANGED <<proxy, heapVars, mainVars, replied>>,
             stray' \in BOOLEAN
      PROVE  TypeOK' /\ Ready'
  <2> DEFINE r == [l EXCEPT !.pc = to]
  <2>1. r \in Locals /\ r.pc = to /\ r.conn = l.conn
    BY <1>1 DEF Locals
  <2>2. thread' = [thread EXCEPT ![t] = r]
    BY <1>4 DEF Goto, l, TypeOK
  <2>3. r.conn \in Conns
    BY <1>4, <1>conn, <2>1 DEF At, l
  <2> QED BY <1>4, <2>1, <2>2, <2>3, ThreadReady DEF heapVars, TypeOK
<1>5. CASE Hit(t)
  BY <1>4, <1>5 DEF Hit, history, TypeOK, Labels
<1>6. ASSUME NEW from \in {"request", "socket", "connect"}, At(t, from), NEW n \in Nat,
             thread' = [thread EXCEPT ![t].pc = "socket", ![t].left = n],
             file' \in [Fds -> File], UNCHANGED <<proxy, heapVars, mainVars, history>>
      PROVE  TypeOK' /\ Ready'
  <2> DEFINE r == [l EXCEPT !.pc = "socket", !.left = n]
  <2>1. r \in Locals /\ r.pc = "socket" /\ r.conn = l.conn
    BY <1>1 DEF Locals, Labels
  <2>2. thread' = [thread EXCEPT ![t] = r]
    BY <1>6 DEF l, TypeOK
  <2>3. r.conn \in Conns
    BY <1>6, <1>conn, <2>1 DEF At, l
  <2> QED BY <1>6, <2>1, <2>2, <2>3, ThreadReady DEF heapVars, history, TypeOK
<1>7. CASE Miss(t)
  BY <1>6, <1>7 DEF Miss, TypeOK
<1>8. ASSUME NextAddr(t), l.left > 0
      PROVE  \E n \in Nat : thread' = [thread EXCEPT ![t].pc = "socket", ![t].left = n]
  <2>1. l.left - 1 \in Nat
    BY <1>1, <1>8 DEF Locals
  <2>2. thread' = [thread EXCEPT ![t].pc = "socket", ![t].left = l.left - 1]
    BY <1>8 DEF NextAddr, l
  <2> QED BY <2>1, <2>2
<1>9. CASE SocketFails(t)
  BY <1>6, <1>8, <1>9 DEF SocketFails, TypeOK, l
<1>10. CASE Socket(t)
  <2>1. l.conn \in Conns
    BY <1>10, <1>conn DEF Socket, At, l
  <2>2. PICK d \in Fds : /\ Opens(d, Server(l.conn))
                         /\ thread' = [thread EXCEPT ![t].pc = "connect", ![t].serverfd = d]
    BY <1>10 DEF Socket, l
  <2>3. file' \in [Fds -> File]
    BY <2>1, <2>2, OpensFile, FileKinds
  <2> DEFINE r == [l EXCEPT !.pc = "connect", !.serverfd = d]
  <2>4. r \in Locals /\ r.pc = "connect" /\ r.conn = l.conn /\ r.left > 0
    BY <1>1, <1>10 DEF Locals, Labels, Socket, l
  <2>5. thread' = [thread EXCEPT ![t] = r]
    BY <2>2 DEF l, TypeOK
  <2> QED BY <1>10, <2>1, <2>3, <2>4, <2>5, ThreadReady DEF Socket, heapVars, history, TypeOK
<1>11. CASE ConnectFails(t)
  <2>1. file' \in [Fds -> File]
    BY <1>11, ClosesFile DEF ConnectFails
  <2>2. l.left > 0
    BY <1>11 DEF ConnectFails, Ready, l
  <2> QED BY <1>6, <1>8, <1>11, <2>1, <2>2 DEF ConnectFails, history
<1>12. CASE Connect(t)
  BY <1>4, <1>12 DEF Connect, history, TypeOK, Labels
<1>13. CASE RelayAll(t)
  BY <1>4, <1>13 DEF RelayAll, history, TypeOK, Labels
<1>14. CASE CloseServer(t)
  <2>1. file' \in [Fds -> File]
    BY <1>14, ClosesFile DEF CloseServer
  <2> QED BY <1>4, <1>14, <2>1 DEF CloseServer, history, TypeOK, Labels
<1>15. CASE CloseUnset(t)
  <2>1. file' \in [Fds -> File]
    BY <1>15, ClosesFile DEF CloseUnset
  <2> QED BY <1>4, <1>15, <2>1 DEF CloseUnset, Labels
<1>16. CASE CloseClient(t)
  <2>1. file' \in [Fds -> File]
    BY <1>16, ClosesFile DEF CloseClient
  <2> QED BY <1>none, <1>16, <2>1, ThreadReady DEF CloseClient, Ends, history, TypeOK, heapVars
<1> QED BY <1>2, <1>3, <1>5, <1>7, <1>9, <1>10, <1>11, <1>12, <1>13, <1>14, <1>15, <1>16 DEF Thread

-----------------------------------------------------------------------------
(* Ownership                                                               *)

\* A step that opens or closes no connection and moves no thread keeps the owners.
LEMMA SameConnections ==
    ASSUME Ready, Owned, ~ stray,
           \A d \in Fds, n \in Conns : /\ file'[d] = Client(n) <=> file[d] = Client(n)
                                       /\ file'[d] = Server(n) <=> file[d] = Server(n),
           UNCHANGED <<cell, allocated, connfd, accepted, thread, replied>>,
           mpc # "create", mpc' \notin {"accept", "create"}
    PROVE  OwnCells' /\ OneEach' /\ OwnDescriptors' /\ NothingElseLeaks'
<1> USE DEF Owned, OneEach, NothingElseLeaks, HasClient, HasServer, At, CellOf
<1>1. \A t \in Threads : thread[t].pc # "none" => thread[t].conn \in Conns
  BY DEF Ready
<1>2. ASSUME NEW t \in Threads, thread'[t].pc = "start"
      PROVE  /\ CellOf(t)' \in allocated' /\ cell'[CellOf(t)'] \in Fds
             /\ file'[cell'[CellOf(t)']] = Client(thread'[t].conn)
  <2>1. /\ CellOf(t) \in allocated /\ cell[CellOf(t)] \in Fds
        /\ file[cell[CellOf(t)]] = Client(thread[t].conn)
    BY <1>2 DEF OwnCells
  <2> QED BY <1>1, <1>2, <2>1
<1>3. OwnCells'
  BY <1>2 DEF OwnCells
<1>4. OneEach'
  OBVIOUS
<1>5. NothingElseLeaks'
  OBVIOUS
<1>6. ASSUME NEW t \in HasClient
      PROVE  thread[t].clientfd \in Fds /\ file'[thread[t].clientfd] = Client(thread[t].conn)
  <2>1. thread[t].clientfd \in Fds /\ file[thread[t].clientfd] = Client(thread[t].conn)
    BY <1>6 DEF OwnDescriptors
  <2> QED BY <1>1, <1>6, <2>1
<1>7. ASSUME NEW t \in HasServer
      PROVE  thread[t].serverfd \in Fds /\ file'[thread[t].serverfd] = Server(thread[t].conn)
  <2>1. thread[t].serverfd \in Fds /\ file[thread[t].serverfd] = Server(thread[t].conn)
    BY <1>7 DEF OwnDescriptors
  <2> QED BY <1>1, <1>7, <2>1
<1>8. OwnDescriptors'
  BY <1>6, <1>7 DEF OwnDescriptors
<1> QED BY <1>3, <1>4, <1>5, <1>8

LEMMA MainOwns ==
    ASSUME TypeOK, Ready, Owned, ~ stray, MainStep, ~ MainExits
    PROVE  Owned'
<1> USE Constants
<1>1. CASE ListenAddrs \/ ListenSocketFails \/ Listen
  BY <1>1 DEF ListenAddrs, ListenSocketFails, Listen, MainGoto, heapVars, history,
         Owned, OwnCells, OneEach, OwnListener, OwnDescriptors, NothingElseLeaks,
         HasClient, HasServer, At, CellOf
<1>2. \A n \in Conns : /\ Client(n) # Listener /\ Client(n) # Closed
                       /\ Server(n) # Listener /\ Server(n) # Closed
  BY FileKinds DEF Conns
<1>3. CASE ListenSocket
  <2>1. PICK d \in Fds : Opens(d, Listener) /\ listen_fd' = d
    BY <1>3 DEF ListenSocket
  <2>2. file[d] = Closed /\ \A o \in Fds : file'[o] = IF o = d THEN Listener ELSE file[o]
    BY <2>1, OpensFile, FileKinds
  <2>3. \A o \in Fds, n \in Conns : /\ file'[o] = Client(n) <=> file[o] = Client(n)
                                    /\ file'[o] = Server(n) <=> file[o] = Server(n)
    BY <1>2, <2>2
  <2>4. OwnCells' /\ OneEach' /\ OwnDescriptors' /\ NothingElseLeaks'
    BY <1>3, <2>3, SameConnections DEF ListenSocket, MainGoto, heapVars, history
  <2>5. OwnListener'
    BY <2>1, <2>2 DEF OwnListener
  <2> QED BY <2>4, <2>5 DEF Owned
<1>4. CASE BindFails
  <2>1. file[listen_fd] = Listener
    BY <1>4 DEF BindFails, MainGoto, Owned, OwnListener
  <2>2. \A o \in Fds : file'[o] = IF o = listen_fd THEN Closed ELSE file[o]
    BY <1>4, ClosesFile DEF BindFails
  <2>3. \A o \in Fds, n \in Conns : /\ file'[o] = Client(n) <=> file[o] = Client(n)
                                    /\ file'[o] = Server(n) <=> file[o] = Server(n)
    BY <1>2, <2>1, <2>2
  <2>4. OwnCells' /\ OneEach' /\ OwnDescriptors' /\ NothingElseLeaks'
    BY <1>4, <2>3, SameConnections DEF BindFails, MainGoto, heapVars, history
  <2>5. OwnListener'
    BY <1>4 DEF BindFails, MainGoto, OwnListener
  <2> QED BY <2>4, <2>5 DEF Owned
<1>6. CASE MallocCell
  BY <1>6 DEF MallocCell, MainGoto, NewCell, history,
         Owned, OwnCells, OneEach, OwnListener, OwnDescriptors, NothingElseLeaks,
         HasClient, HasServer, At, CellOf
<1>7. CASE Accept
  <2>1. PICK d \in Fds : Opens(d, Client(accepted')) /\ cell' = [cell EXCEPT ![connfd] = d]
    BY <1>7 DEF Accept
  <2>2. /\ accepted' = accepted + 1 /\ accepted \in Nat /\ accepted' \in Conns
        /\ mpc = "accept" /\ mpc' = "create" /\ connfd \in Cells
        /\ UNCHANGED <<allocated, connfd, thread, replied, stray>>
    BY <1>7 DEF Accept, MainGoto, TypeOK, Conns, Ready, history
  <2>3. /\ file[d] = Closed
        /\ \A o \in Fds : file'[o] = IF o = d THEN Client(accepted') ELSE file[o]
    BY <2>1, <2>2, OpensFile, FileKinds
  <2>4. /\ cell'[connfd] = d
        /\ \A c \in Cells : c # connfd => cell'[c] = cell[c]
    BY <2>1, <2>2 DEF TypeOK
  <2>5. /\ \A n, m \in Conns : /\ Client(n) # Server(m)
                               /\ Client(n) = Client(m) => n = m
        /\ \A t \in Threads : thread[t].pc # "none" => thread[t].conn \in Conns
        /\ \A t \in Threads : thread[t].pc = "start" => thread[t].vargp \in Cells
    BY FileKinds DEF Ready, Conns, At
  <2>6. OwnCells'
    <3>1. ASSUME NEW t \in Threads, thread[t].pc = "start"
          PROVE  /\ thread[t].vargp \in allocated /\ thread[t].vargp # connfd
                 /\ cell'[thread[t].vargp] \in Fds
                 /\ file'[cell'[thread[t].vargp]] = Client(thread[t].conn)
      <4>1. /\ thread[t].vargp \in allocated /\ cell[thread[t].vargp] \in Fds
            /\ file[cell[thread[t].vargp]] = Client(thread[t].conn)
            /\ thread[t].vargp # connfd
        BY <2>2, <3>1 DEF Owned, OwnCells, At, CellOf
      <4>2. cell'[thread[t].vargp] = cell[thread[t].vargp]
        BY <2>4, <2>5, <3>1, <4>1
      <4>3. cell[thread[t].vargp] # d
        BY <1>2, <2>3, <2>5, <3>1, <4>1
      <4> QED BY <2>3, <4>1, <4>2, <4>3
    <3>2. cell'[connfd] \in Fds /\ file'[cell'[connfd]] = Client(accepted')
      BY <2>3, <2>4
    <3>3. connfd \in allocated
      BY <2>2 DEF Owned, OwnCells
    <3>4. \A t, u \in Threads :
            thread[t].pc = "start" /\ thread[u].pc = "start" /\ thread[t].vargp = thread[u].vargp
              => t = u
      BY DEF Owned, OwnCells, At, CellOf
    <3> QED BY <2>2, <3>1, <3>2, <3>3, <3>4 DEF OwnCells, At, CellOf
  <2>7. OneEach'
    <3>1. \A t \in Threads : thread[t].pc # "none" => thread[t].conn \in 1 .. accepted
      BY DEF Owned, OneEach, At
    <3>2. \A o \in Fds, n \in Conns : file[o] = Client(n) => n <= accepted
      BY DEF Owned, OneEach
    <3>3. \A o \in Fds, n \in Conns : file'[o] = Client(n) => n <= accepted'
      BY <2>2, <2>3, <2>5, <3>2 DEF Conns
    <3>4. ASSUME NEW o \in Fds, NEW p \in Fds, NEW n \in Conns,
                 file'[o] = Client(n), file'[p] = Client(n)
          PROVE  o = p
      <4>1. CASE n = accepted'
        <5>1. ~ (n <= accepted)
          BY <2>2, <4>1
        <5>2. \A q \in Fds : file'[q] = Client(n) => q = d
          BY <2>3, <3>2, <5>1
        <5> QED BY <3>4, <5>2
      <4>2. CASE n # accepted'
        BY <1>2, <2>2, <2>3, <2>5, <3>4, <4>2 DEF Owned, OneEach
      <4> QED BY <4>1, <4>2
    <3>5. \A t \in Threads : thread[t].pc # "none" => thread[t].conn \in 1 .. accepted'
                                                    /\ thread[t].conn # accepted'
      BY <2>2, <3>1
    <3>6. \A t, u \in Threads :
            thread[t].pc # "none" /\ thread[u].pc # "none" /\ thread[t].conn = thread[u].conn => t = u
      BY DEF Owned, OneEach, At
    <3> QED BY <2>2, <3>3, <3>4, <3>5, <3>6 DEF OneEach, At
  <2>8. OwnListener'
    BY <2>2 DEF OwnListener
  <2>9. OwnDescriptors'
    BY <1>2, <2>2, <2>3, <2>5 DEF Owned, OwnDescriptors, HasClient, HasServer, At
  <2>10. NothingElseLeaks'
    BY <1>2, <2>2, <2>3, <2>5 DEF Owned, NothingElseLeaks, HasServer, At
  <2> QED BY <2>6, <2>7, <2>8, <2>9, <2>10 DEF Owned
<1>8. ASSUME NEW t \in Threads, Create(t) PROVE Owned'
  <2> DEFINE r == [NoThread EXCEPT !.pc = "start", !.vargp = connfd, !.conn = accepted]
  <2>1. r \in Locals /\ r.pc = "start" /\ r.vargp = connfd /\ r.conn = accepted
    BY DEF TypeOK, NoThread, Locals, Labels
  <2>2. /\ thread'[t] = r
        /\ \A u \in Threads : u # t => thread'[u] = thread[u]
    BY <1>8, <2>1, ThreadType DEF Create
  <2>3. /\ mpc = "create" /\ mpc' = "malloc" /\ thread[t].pc = "none" /\ accepted \in Nat
        /\ UNCHANGED <<file, cell, allocated, connfd, accepted, replied, stray>>
    BY <1>8 DEF Create, MainGoto, At, heapVars, history, TypeOK
  <2> HIDE DEF r
  <2>4. OwnCells'
    BY <2>1, <2>2, <2>3 DEF Owned, OwnCells, At, CellOf
  <2>5. OneEach'
    BY <2>1, <2>2, <2>3 DEF Owned, OneEach, At
  <2>6. OwnListener'
    BY <2>3 DEF OwnListener
  <2>7. OwnDescriptors'
    BY <2>1, <2>2, <2>3 DEF Owned, OwnDescriptors, HasClient, HasServer, At
  <2>8. NothingElseLeaks'
    BY <2>1, <2>2, <2>3 DEF Owned, NothingElseLeaks, HasServer, At
  <2> QED BY <2>4, <2>5, <2>6, <2>7, <2>8 DEF Owned
<1> QED BY <1>1, <1>3, <1>4, <1>6, <1>7, <1>8 DEF MainStep

\* Every step of a thread keeps the owners, unless it closes what it does not own.
LEMMA ThreadOwns ==
    ASSUME TypeOK, Ready, Owned, ~ stray, NEW t \in Threads, Thread(t), ~ ThreadExits(t), ~ stray'
    PROVE  Owned'
<1> USE Constants
<1>1. /\ \A n, m \in Conns : /\ Client(n) # Server(m)
                             /\ Client(n) = Client(m) => n = m
                             /\ Server(n) = Server(m) => n = m
      /\ \A n \in Conns : /\ Client(n) # Closed /\ Server(n) # Closed
                          /\ Client(n) # Listener /\ Server(n) # Listener
  BY FileKinds DEF Conns
<1>2. \A u \in Threads : thread[u].pc # "none" => thread[u].conn \in Conns
  BY DEF Ready, At
<1>3. ASSUME NEW r, thread'[t] = r, r.pc \notin {"none", "start"}, r.conn = thread[t].conn,
             \A u \in Threads : u # t => thread'[u] = thread[u],
             thread[t].pc \notin {"none", "start"}, r.clientfd = thread[t].clientfd,
             r.pc \in {"connect", "relay", "close"} =>
               thread[t].pc \in {"connect", "relay", "close"} /\ r.serverfd = thread[t].serverfd,
             r.pc \notin {"connect", "relay", "close"} => thread[t].pc \notin {"connect", "relay", "close"},
             UNCHANGED <<file, heapVars, mainVars, replied>>
      PROVE  Owned'
  <2> USE <1>3 DEF Owned, heapVars, mainVars, At
  <2>1. OwnCells' BY DEF OwnCells, CellOf
  <2>2. OneEach' BY DEF OneEach
  <2>3. OwnListener' BY DEF OwnListener
  <2>4. OwnDescriptors' BY DEF OwnDescriptors, HasClient, HasServer
  <2>5. NothingElseLeaks' BY DEF NothingElseLeaks, HasServer
  <2> QED BY <2>1, <2>2, <2>3, <2>4, <2>5
<1> DEFINE l == thread[t]
           ClientOwned(n) == \/ n \in replied
                             \/ mpc = "create" /\ n = accepted
                             \/ \E u \in Threads : thread[u].pc # "none" /\ thread[u].conn = n
           ServerOwned(d) == \E u \in Threads : /\ thread[u].pc \in {"connect", "relay", "close"}
                                               /\ thread[u].serverfd = d
<1>leaks. \A d \in Fds, n \in Conns : /\ file[d] = Client(n) => ClientOwned(n)
                                      /\ file[d] = Server(n) => ServerOwned(d)
  BY DEF Owned, NothingElseLeaks, HasServer, At
<1>keep. ASSUME \A d \in Fds, n \in Conns : /\ file'[d] = Client(n) => ClientOwned(n)'
                                            /\ file'[d] = Server(n) => ServerOwned(d)'
         PROVE  NothingElseLeaks'
  BY <1>keep DEF NothingElseLeaks, HasServer, At
<1>4. ASSUME NEW to, Goto(t, to)
      PROVE  /\ thread'[t] = [l EXCEPT !.pc = to]
             /\ \A u \in Threads : u # t => thread'[u] = thread[u]
  BY <1>4 DEF Goto, TypeOK
<1>5. l \in Locals
  BY DEF TypeOK
<1>6. CASE Hit(t) \/ Connect(t) \/ RelayAll(t)
  <2>1. PICK to \in {"unset", "relay", "close"} :
          /\ Goto(t, to) /\ l.pc \in {"request", "connect", "relay"}
          /\ to \in {"relay", "close"} <=> l.pc \in {"connect", "relay"}
    BY <1>6 DEF Hit, Connect, RelayAll, At
  <2> DEFINE r == [l EXCEPT !.pc = to]
  <2>2. r.pc = to /\ r.conn = l.conn /\ r.clientfd = l.clientfd /\ r.serverfd = l.serverfd
    BY <1>5 DEF Locals
  <2>3. UNCHANGED <<file, heapVars, mainVars, replied>>
    BY <1>6 DEF Hit, Connect, RelayAll, history
  <2>4. thread'[t] = r /\ \A u \in Threads : u # t => thread'[u] = thread[u]
    BY <1>4, <2>1
  <2> HIDE DEF r
  <2> QED BY <1>3, <2>1, <2>2, <2>3, <2>4
<1>7. CASE Miss(t) \/ SocketFails(t)
  <2>1. PICK n : thread' = [thread EXCEPT ![t].pc = "socket", ![t].left = n]
    BY <1>7 DEF Miss, SocketFails, NextAddr
  <2> DEFINE r == [l EXCEPT !.pc = "socket", !.left = n]
  <2>2. r.pc = "socket" /\ r.conn = l.conn /\ r.clientfd = l.clientfd
    BY <1>5 DEF Locals
  <2>3. UNCHANGED <<file, heapVars, mainVars, replied>> /\ l.pc \in {"request", "socket"}
    BY <1>7 DEF Miss, SocketFails, history, At
  <2>4. thread'[t] = r /\ \A u \in Threads : u # t => thread'[u] = thread[u]
    BY <2>1 DEF TypeOK
  <2> HIDE DEF r
  <2> QED BY <1>3, <2>2, <2>3, <2>4
<1>8. CASE Start(t)
  <2> DEFINE c == l.vargp
             r == [l EXCEPT !.pc = "request", !.clientfd = cell[c], !.vargp = NoCell]
  <2>1. r.pc = "request" /\ r.conn = l.conn /\ r.clientfd = cell[c]
    BY <1>5 DEF Locals
  <2>2. thread'[t] = r /\ \A u \in Threads : u # t => thread'[u] = thread[u]
    BY <1>8 DEF Start, TypeOK
  <2>3. /\ l.pc = "start" /\ allocated' = allocated \ {c} /\ cell' = [cell EXCEPT ![c] = NoFd]
        /\ UNCHANGED <<file, mainVars, replied>>
    BY <1>8 DEF Start, At, history
  <2>4. c \in allocated /\ cell[c] \in Fds /\ file[cell[c]] = Client(l.conn)
    BY <2>3 DEF Owned, OwnCells, At, CellOf
  <2>5. \A o \in Cells : o # c => cell'[o] = cell[o]
    BY <2>3 DEF TypeOK
  <2> HIDE DEF r, c
  <2>6. OwnCells'
    <3>1. \A u \in Threads : u # t /\ thread[u].pc = "start" => thread[u].vargp # c
      BY <2>3 DEF Owned, OwnCells, At, CellOf, c
    <3>2. mpc \in {"accept", "create"} => connfd # c /\ connfd \in Cells
      BY <2>3 DEF Owned, OwnCells, At, CellOf, Ready, c
    <3>3. \A u \in Threads : thread[u].pc = "start" => thread[u].vargp \in Cells
      BY DEF Ready, At
    <3> QED BY <2>1, <2>2, <2>3, <2>5, <3>1, <3>2, <3>3 DEF Owned, OwnCells, At, CellOf, mainVars
  <2>7. OneEach'
    BY <2>1, <2>2, <2>3 DEF Owned, OneEach, At, mainVars
  <2>8. OwnListener'
    BY <2>3 DEF Owned, OwnListener, mainVars
  <2>9. OwnDescriptors'
    BY <2>1, <2>2, <2>3, <2>4 DEF Owned, OwnDescriptors, HasClient, HasServer, At
  <2>10. NothingElseLeaks'
    <3>1. \A n \in Conns : ClientOwned(n) => ClientOwned(n)'
      BY <2>1, <2>2, <2>3 DEF mainVars
    <3>2. \A d \in Fds : ServerOwned(d) => ServerOwned(d)'
      BY <2>2, <2>3
    <3> QED BY <1>leaks, <1>keep, <2>3, <3>1, <3>2
  <2> QED BY <2>6, <2>7, <2>8, <2>9, <2>10 DEF Owned
<1>9. CASE ErrorReply(t)
  <2>1. NoThread.pc = "none"
    BY DEF NoThread
  <2>2. thread'[t] = NoThread /\ \A u \in Threads : u # t => thread'[u] = thread[u]
    BY <1>9 DEF ErrorReply, Ends, TypeOK
  <2>3. /\ l.pc = "request" /\ replied' = replied \cup {l.conn}
        /\ UNCHANGED <<file, cell, allocated, mainVars>>
    BY <1>9 DEF ErrorReply, At, heapVars
  <2>4. OwnCells'
    BY <2>1, <2>2, <2>3 DEF Owned, OwnCells, At, CellOf, mainVars
  <2>5. OneEach'
    BY <2>1, <2>2, <2>3 DEF Owned, OneEach, At, mainVars
  <2>6. OwnListener'
    BY <2>3 DEF Owned, OwnListener, mainVars
  <2>7. OwnDescriptors'
    BY <2>1, <2>2, <2>3 DEF Owned, OwnDescriptors, HasClient, HasServer, At
  <2>8. NothingElseLeaks'
    <3>1. \A n \in Conns : ClientOwned(n) => ClientOwned(n)'
      BY <2>1, <2>2, <2>3 DEF mainVars
    <3>2. \A d \in Fds : ServerOwned(d) => ServerOwned(d)'
      BY <2>2, <2>3
    <3> QED BY <1>leaks, <1>keep, <2>3, <3>1, <3>2
  <2> QED BY <2>4, <2>5, <2>6, <2>7, <2>8 DEF Owned
<1>10. CASE Socket(t)
  <2>1. PICK d \in Fds : /\ Opens(d, Server(l.conn))
                         /\ thread' = [thread EXCEPT ![t].pc = "connect", ![t].serverfd = d]
    BY <1>10 DEF Socket
  <2> DEFINE r == [l EXCEPT !.pc = "connect", !.serverfd = d]
  <2>2. r.pc = "connect" /\ r.conn = l.conn /\ r.clientfd = l.clientfd /\ r.serverfd = d
    BY <1>5 DEF Locals
  <2>3. /\ l.pc = "socket" /\ l.conn \in Conns
        /\ UNCHANGED <<cell, allocated, mainVars, replied>>
    BY <1>2, <1>10 DEF Socket, At, heapVars, history
  <2>4. thread'[t] = r /\ \A u \in Threads : u # t => thread'[u] = thread[u]
    BY <2>1 DEF TypeOK
  <2>5. /\ file[d] = Closed
        /\ \A o \in Fds : file'[o] = IF o = d THEN Server(l.conn) ELSE file[o]
    BY <2>1, <2>3, OpensFile, FileKinds
  <2> HIDE DEF r
  <2>6. \A o \in Fds, n \in Conns :
          /\ file'[o] = Client(n) <=> file[o] = Client(n)
          /\ file'[o] = Server(n) <=> (file[o] = Server(n) \/ (o = d /\ n = l.conn))
          /\ file'[o] = Listener <=> file[o] = Listener
    BY <1>1, <2>3, <2>5, FileKinds
  <2>7. OwnCells'
    <3>1. ASSUME NEW u \in Threads, thread[u].pc = "start"
          PROVE  /\ thread[u].vargp \in allocated /\ cell[thread[u].vargp] \in Fds
                 /\ file'[cell[thread[u].vargp]] = Client(thread[u].conn)
      BY <1>2, <2>6, <3>1 DEF Owned, OwnCells, At, CellOf
    <3>2. mpc = "create" => cell[connfd] \in Fds /\ file'[cell[connfd]] = Client(accepted)
      BY <2>6 DEF Owned, OwnCells, Ready
    <3> QED BY <2>2, <2>3, <2>4, <3>1, <3>2 DEF Owned, OwnCells, At, CellOf, mainVars
  <2>8. OneEach'
    BY <2>2, <2>3, <2>4, <2>6 DEF Owned, OneEach, At, mainVars
  <2>9. OwnListener'
    BY <2>3, <2>6 DEF Owned, OwnListener, mainVars
  <2>10. OwnDescriptors'
    <3>1. \A u \in HasClient' : thread'[u].clientfd = thread[u].clientfd /\ u \in HasClient
      BY <2>2, <2>3, <2>4 DEF HasClient, At
    <3>2. \A u \in HasServer' : u = t \/ (u \in HasServer /\ thread'[u] = thread[u])
      BY <2>2, <2>3, <2>4 DEF HasServer, At
    <3>3. \A u \in Threads : thread'[u].conn = thread[u].conn
      BY <2>2, <2>4
    <3>4. \A u \in HasClient \cup HasServer : u \in Threads /\ thread[u].conn \in Conns
      BY <1>2 DEF HasClient, HasServer, At
    <3>5. ASSUME NEW u \in HasClient'
          PROVE  thread'[u].clientfd \in Fds /\ file'[thread'[u].clientfd] = Client(thread'[u].conn)
      <4>1. thread[u].clientfd \in Fds /\ file[thread[u].clientfd] = Client(thread[u].conn)
        BY <3>1, <3>5 DEF Owned, OwnDescriptors
      <4>2. thread[u].conn \in Conns
        BY <3>1, <3>4, <3>5
      <4>3. file'[thread[u].clientfd] = Client(thread[u].conn)
        BY <2>6, <4>1, <4>2
      <4> QED BY <3>1, <3>3, <3>4, <3>5, <4>1, <4>3
    <3>6. ASSUME NEW u \in HasServer'
          PROVE  thread'[u].serverfd \in Fds /\ file'[thread'[u].serverfd] = Server(thread'[u].conn)
      <4>1. CASE u = t
        BY <2>2, <2>4, <2>5, <4>1
      <4>2. CASE u # t
        <5>1. thread[u].serverfd \in Fds /\ file[thread[u].serverfd] = Server(thread[u].conn)
          BY <3>2, <3>6, <4>2 DEF Owned, OwnDescriptors
        <5>2. thread[u].conn \in Conns
          BY <3>2, <3>4, <3>6, <4>2
        <5>3. file'[thread[u].serverfd] = Server(thread[u].conn)
          BY <2>6, <5>1, <5>2
        <5> QED BY <3>2, <3>6, <4>2, <5>1, <5>3
      <4> QED BY <4>1, <4>2
    <3> QED BY <3>5, <3>6 DEF OwnDescriptors
  <2>11. NothingElseLeaks'
    <3>1. \A n \in Conns : ClientOwned(n) => ClientOwned(n)'
      BY <2>2, <2>3, <2>4 DEF mainVars
    <3>2. \A o \in Fds : ServerOwned(o) \/ o = d => ServerOwned(o)'
      BY <2>2, <2>3, <2>4
    <3> HIDE DEF ClientOwned, ServerOwned
    <3> QED BY <1>leaks, <1>keep, <2>6, <3>1, <3>2
  <2> QED BY <2>7, <2>8, <2>9, <2>10, <2>11 DEF Owned
<1>11. CASE ConnectFails(t) \/ CloseServer(t)
  <2> DEFINE d == l.serverfd
  <2>1. /\ l.pc \in {"connect", "close"} /\ l.conn \in Conns /\ Closes(d)
        /\ UNCHANGED <<cell, allocated, mainVars, replied>>
    BY <1>2, <1>11 DEF ConnectFails, CloseServer, At, heapVars, history
  <2>2. PICK r : /\ thread'[t] = r /\ r.pc \in {"socket", "last"}
                 /\ r.conn = l.conn /\ r.clientfd = l.clientfd
    <3>1. CASE ConnectFails(t)
      <4>1. thread'[t] = [l EXCEPT !.pc = "socket", !.left = @ - 1]
        BY <3>1 DEF ConnectFails, NextAddr, TypeOK
      <4> QED BY <1>5, <4>1 DEF Locals
    <3>2. CASE CloseServer(t)
      <4>1. thread'[t] = [l EXCEPT !.pc = "last"]
        BY <3>2 DEF CloseServer, Goto, TypeOK
      <4> QED BY <1>5, <4>1 DEF Locals
    <3> QED BY <1>11, <3>1, <3>2
  <2>3. \A u \in Threads : u # t => thread'[u] = thread[u]
    BY <1>11 DEF ConnectFails, CloseServer, NextAddr, Goto, TypeOK
  <2>4. /\ d \in Fds /\ file[d] = Server(l.conn)
        /\ \A o \in Fds : file'[o] = IF o = d THEN Closed ELSE file[o]
    BY <2>1, ClosesFile DEF Owned, OwnDescriptors, HasServer, At
  <2>5. \A o \in Fds, n \in Conns :
          /\ file'[o] = Client(n) <=> file[o] = Client(n)
          /\ file'[o] = Server(n) => file[o] = Server(n) /\ o # d
          /\ file[o] = Server(n) /\ n # l.conn => file'[o] = Server(n)
          /\ file'[o] = Listener <=> file[o] = Listener
    BY <1>1, <2>1, <2>4, FileKinds
  <2> HIDE DEF d
  <2>7. OwnCells'
    <3>1. ASSUME NEW u \in Threads, thread[u].pc = "start"
          PROVE  /\ thread[u].vargp \in allocated /\ cell[thread[u].vargp] \in Fds
                 /\ file'[cell[thread[u].vargp]] = Client(thread[u].conn)
      BY <1>2, <2>5, <3>1 DEF Owned, OwnCells, At, CellOf
    <3>2. mpc = "create" => cell[connfd] \in Fds /\ file'[cell[connfd]] = Client(accepted)
      BY <2>5 DEF Owned, OwnCells, Ready
    <3> QED BY <2>1, <2>2, <2>3, <3>1, <3>2 DEF Owned, OwnCells, At, CellOf, mainVars
  <2>8. OneEach'
    BY <2>1, <2>2, <2>3, <2>5 DEF Owned, OneEach, At, mainVars
  <2>9. OwnListener'
    BY <2>1, <2>5 DEF Owned, OwnListener, mainVars
  <2>10. OwnDescriptors'
    <3>1. \A u \in Threads : u # t /\ thread[u].pc # "none" => thread[u].conn # l.conn
      BY <2>1 DEF Owned, OneEach, At
    <3> QED BY <1>2, <2>1, <2>2, <2>3, <2>5, <3>1 DEF Owned, OwnDescriptors, HasClient, HasServer, At
  <2>11. NothingElseLeaks'
    <3>1. \A n \in Conns : ClientOwned(n) => ClientOwned(n)'
      BY <2>1, <2>2, <2>3 DEF mainVars
    <3>2. \A o \in Fds : ServerOwned(o) /\ o # d => ServerOwned(o)'
      BY <2>1, <2>2, <2>3 DEF d
    <3> HIDE DEF ClientOwned, ServerOwned
    <3> QED BY <1>leaks, <1>keep, <2>5, <3>1, <3>2
  <2> QED BY <2>7, <2>8, <2>9, <2>10, <2>11 DEF Owned
<1>12. CASE CloseClient(t)
  <2> DEFINE d == l.clientfd
  <2>1. /\ l.pc = "last" /\ l.conn \in Conns /\ Closes(d)
        /\ UNCHANGED <<cell, allocated, mainVars, replied>>
    BY <1>2, <1>12 DEF CloseClient, At, heapVars, history
  <2>2. thread'[t].pc = "none" /\ \A u \in Threads : u # t => thread'[u] = thread[u]
    BY <1>12 DEF CloseClient, Ends, NoThread, TypeOK
  <2>3. /\ d \in Fds /\ file[d] = Client(l.conn)
        /\ \A o \in Fds : file'[o] = IF o = d THEN Closed ELSE file[o]
    BY <2>1, ClosesFile DEF Owned, OwnDescriptors, HasClient, At
  <2>4. \A o \in Fds : file[o] = Client(l.conn) => o = d
    BY <2>1, <2>3 DEF Owned, OneEach
  <2>5. \A o \in Fds, n \in Conns :
          /\ file'[o] = Client(n) <=> file[o] = Client(n) /\ n # l.conn
          /\ file'[o] = Server(n) <=> file[o] = Server(n)
          /\ file'[o] = Listener <=> file[o] = Listener
    BY <1>1, <2>1, <2>3, <2>4, FileKinds
  <2> HIDE DEF d
  <2>6. \A u \in Threads : u # t /\ thread[u].pc # "none" => thread[u].conn # l.conn
    BY <2>1 DEF Owned, OneEach, At
  <2>7. OwnCells'
    <3>1. ASSUME NEW u \in Threads, thread[u].pc = "start"
          PROVE  /\ thread[u].vargp \in allocated /\ cell[thread[u].vargp] \in Fds
                 /\ file'[cell[thread[u].vargp]] = Client(thread[u].conn)
      BY <1>2, <2>1, <2>5, <2>6, <3>1 DEF Owned, OwnCells, At, CellOf
    <3>2. mpc = "create" => cell[connfd] \in Fds /\ file'[cell[connfd]] = Client(accepted)
      <4>1. mpc = "create" => accepted # l.conn
        BY <2>1 DEF Owned, OneEach, At
      <4> QED BY <2>5, <4>1 DEF Owned, OwnCells, Ready
    <3> QED BY <2>1, <2>2, <3>1, <3>2 DEF Owned, OwnCells, At, CellOf, mainVars
  <2>8. OneEach'
    BY <2>1, <2>2, <2>5 DEF Owned, OneEach, At, mainVars
  <2>9. OwnListener'
    BY <2>1, <2>5 DEF Owned, OwnListener, mainVars
  <2>10. OwnDescriptors'
    <3>1. \A u \in HasClient' : u \in HasClient /\ u # t /\ thread'[u] = thread[u]
      BY <2>2 DEF HasClient, At
    <3>2. \A u \in HasServer' : u \in HasServer /\ u # t /\ thread'[u] = thread[u]
      BY <2>2 DEF HasServer, At
    <3>3. \A u \in HasClient \cup HasServer : u # t => thread[u].conn \in Conns \ {l.conn}
      BY <1>2, <2>6 DEF HasClient, HasServer, At
    <3>4. ASSUME NEW u \in HasClient'
          PROVE  thread'[u].clientfd \in Fds /\ file'[thread'[u].clientfd] = Client(thread'[u].conn)
      <4>1. thread[u].clientfd \in Fds /\ file[thread[u].clientfd] = Client(thread[u].conn)
        BY <3>1, <3>4 DEF Owned, OwnDescriptors
      <4>2. thread[u].conn \in Conns \ {l.conn}
        BY <3>1, <3>3, <3>4
      <4>3. file'[thread[u].clientfd] = Client(thread[u].conn)
        BY <2>5, <4>1, <4>2
      <4> QED BY <3>1, <3>4, <4>1, <4>3
    <3>5. ASSUME NEW u \in HasServer'
          PROVE  thread'[u].serverfd \in Fds /\ file'[thread'[u].serverfd] = Server(thread'[u].conn)
      <4>1. thread[u].serverfd \in Fds /\ file[thread[u].serverfd] = Server(thread[u].conn)
        BY <3>2, <3>5 DEF Owned, OwnDescriptors
      <4> QED BY <2>5, <3>2, <3>3, <3>5, <4>1
    <3> QED BY <3>4, <3>5 DEF OwnDescriptors
  <2>11. NothingElseLeaks'
    <3>1. \A n \in Conns : ClientOwned(n) /\ n # l.conn => ClientOwned(n)'
      BY <2>1, <2>2 DEF mainVars
    <3>2. \A o \in Fds : ServerOwned(o) => ServerOwned(o)'
      BY <2>1, <2>2
    <3> HIDE DEF ClientOwned, ServerOwned
    <3> QED BY <1>leaks, <1>keep, <2>5, <3>1, <3>2
  <2> QED BY <2>7, <2>8, <2>9, <2>10, <2>11 DEF Owned
<1>13. CASE CloseUnset(t)
  BY <1>13 DEF CloseUnset
<1> QED BY <1>6, <1>7, <1>8, <1>9, <1>10, <1>11, <1>12, <1>13 DEF Thread
-----------------------------------------------------------------------------
(* Theorems                                                                *)

LEMMA NextConn == ConnInv /\ [Next]_vars => ConnInv'
<1> SUFFICES ASSUME ConnInv, [Next]_vars PROVE ConnInv'
  OBVIOUS
<1>1. CASE UNCHANGED vars
  <2>1. TypeOK' /\ Ready'
    BY <1>1 DEF ConnInv, TypeOK, Ready, At, vars, heapVars, mainVars, history
  <2>2. Owned' <=> Owned
    BY <1>1 DEF Owned, OwnCells, OneEach, OwnListener, OwnDescriptors, NothingElseLeaks,
                HasClient, HasServer, At, CellOf, vars, heapVars, mainVars, history
  <2> QED BY <1>1, <2>1, <2>2 DEF ConnInv, vars, history
<1>2. CASE MainExits
  BY <1>2, ExitKeeps DEF MainExits
<1>3. CASE MainStep /\ ~ MainExits
  <2>1. stray' = stray
    BY <1>3 DEF MainStep, ListenAddrs, ListenSocketFails, ListenSocket, BindFails, Listen,
                MallocCell, Accept, Create, history
  <2> QED BY <1>3, <2>1, MainTypes, MainOwns DEF ConnInv
<1>4. ASSUME NEW t \in Threads, ThreadExits(t) PROVE ConnInv'
  BY <1>4, ExitKeeps DEF ThreadExits
<1>5. ASSUME NEW t \in Threads, Thread(t), ~ ThreadExits(t) PROVE ConnInv'
  <2>1. ~ stray' => ~ stray
    BY <1>5 DEF Thread, Start, ErrorReply, Hit, Miss, SocketFails, Socket, ConnectFails, Connect,
                RelayAll, CloseServer, CloseUnset, CloseClient, history
  <2> QED BY <1>5, <2>1, ThreadTypes, ThreadOwns DEF ConnInv
<1> QED BY <1>1, <1>2, <1>3, <1>4, <1>5 DEF Next, Quiet

LEMMA InitConn == Init => ConnInv
<1> SUFFICES ASSUME Init PROVE ConnInv
  OBVIOUS
<1> USE Constants
<1>1. NoThread \in Locals /\ NoThread.pc = "none"
  BY DEF NoThread, Locals, Labels
<1>2. TypeOK /\ Ready
  <2>1. file \in [Fds -> File] /\ cell \in [Cells -> Fds \cup {NoFd}]
    BY FileKinds DEF Init
  <2>2. thread \in [Threads -> Locals] /\ \A t \in Threads : thread[t].pc = "none"
    BY <1>1 DEF Init
  <2>3. untried \in Nat /\ accepted \in 0 .. MaxConn /\ mpc = "getaddrinfo"
    BY DEF Init
  <2> QED BY <2>1, <2>2, <2>3 DEF Init, TypeOK, Ready, At
<1>3. \A d \in Fds, n \in Conns : file[d] # Client(n) /\ file[d] # Server(n)
  BY FileKinds DEF Init, Conns
<1>4. Owned
  BY <1>1, <1>3 DEF Init, Owned, OwnCells, OneEach, OwnListener, OwnDescriptors, NothingElseLeaks,
                    HasClient, HasServer, At, CellOf
<1> QED BY <1>2, <1>4 DEF ConnInv

\* The variables of the proxy have their types, for any number of threads and
\* descriptors (proxy.c, csapp.c:959-1054).
THEOREM ConnTypeCorrect == Spec => []TypeOK
<1>1. ConnInv => TypeOK
  BY DEF ConnInv
<1> QED BY <1>1, InitConn, NextConn, PTL DEF Spec

\* Threads work on their own connections only, however the kernel reuses
\* descriptors and Malloc cells, until a hit closes a descriptor that it has not
\* opened (proxy.c:39-46, 54-55, 115-116; csapp.c:977-990).
THEOREM ThreadsOwnDescriptors == Spec => []OwnDescriptors
<1>1. ConnInv => OwnDescriptors
  BY DEF ConnInv, Owned, OwnDescriptors
<1> QED BY <1>1, InitConn, NextConn, PTL DEF Spec

\* Until then the error replies are the only leak of descriptors (proxy.c:61-70).
THEOREM OnlyErrorRepliesLeak == Spec => []NothingElseLeaks
<1>1. ConnInv => NothingElseLeaks
  BY DEF ConnInv, Owned, NothingElseLeaks
<1> QED BY <1>1, InitConn, NextConn, PTL DEF Spec
-----------------------------------------------------------------------------
(* Threads get on                                                          *)

\* do_proxy has no way back but in open_clientfd, where a thread that goes back from
\* connect to socket has one address less.
Stage(l) == CASE l.pc = "none" -> 0 [] l.pc = "last" -> 1 [] l.pc \in {"unset", "close"} -> 2
              [] l.pc = "relay" -> 3 [] l.pc \in {"socket", "connect"} -> 4
              [] l.pc = "request" -> 5 [] l.pc = "start" -> 6
Tries(l) == IF l.pc = "socket" THEN 2 * l.left + 1 ELSE 2 * l.left
Nearer(m, l) == \/ Stage(m) < Stage(l)
                \/ Stage(m) = Stage(l) /\ Tries(m) \in Nat /\ Tries(m) < Tries(l)

ThreadsGetOn ==
  [][\A t \in Threads :
        /\ Thread(t) => Nearer(thread'[t], thread[t])
        /\ At(t, "none") \/ thread'[t] = thread[t] \/ Nearer(thread'[t], thread[t])]_vars

\* The stages, one by one.
LEMMA Stages ==
    ASSUME NEW l
    PROVE  /\ l.pc = "none" => Stage(l) = 0
           /\ l.pc = "last" => Stage(l) = 1
           /\ l.pc = "unset" => Stage(l) = 2
           /\ l.pc = "close" => Stage(l) = 2
           /\ l.pc = "relay" => Stage(l) = 3
           /\ l.pc = "socket" => Stage(l) = 4
           /\ l.pc = "connect" => Stage(l) = 4
           /\ l.pc = "request" => Stage(l) = 5
           /\ l.pc = "start" => Stage(l) = 6
BY DEF Stage

\* The process ends with all its threads.
LEMMA ExitIsEnd ==
    ASSUME TypeOK, Exit, NEW t \in Threads, ~ At(t, "none")
    PROVE  Nearer(thread'[t], thread[t])
<1>1. thread'[t] = NoThread /\ NoThread.pc = "none"
  BY DEF Exit, NoThread
<1>2. thread[t].pc \in Labels \ {"none"}
  BY DEF TypeOK, Locals, At
<1>3. Stage(thread'[t]) = 0
  BY <1>1, Stages
<1>4. Stage(thread[t]) \in {1, 2, 3, 4, 5, 6}
  BY <1>2, Stages DEF Labels
<1> QED BY <1>3, <1>4 DEF Nearer

LEMMA OwnStep ==
    ASSUME TypeOK, Ready, NEW t \in Threads, Thread(t)
    PROVE  /\ Nearer(thread'[t], thread[t])
           /\ ThreadExits(t) \/ \A s \in Threads : s # t => thread'[s] = thread[s]
<1> USE DEF At
<1> DEFINE l == thread[t]
           m == thread'[t]
<1>1. l \in Locals /\ l.left \in Nat
  BY DEF TypeOK, Locals
<1>2. CASE ThreadExits(t)
  BY <1>2, ExitIsEnd DEF ThreadExits
<1>3. ASSUME NEW from, l.pc = from, NEW to, m.pc = to,
             \/ from = "start" /\ to = "request"
             \/ from = "request" /\ to \in {"none", "unset", "socket"}
             \/ from = "connect" /\ to = "relay"
             \/ from = "relay" /\ to = "close"
             \/ from \in {"unset", "close"} /\ to = "last"
             \/ from = "last" /\ to = "none"
      PROVE  Nearer(m, l)
  <2> HIDE DEF l, m
  <2> QED BY <1>3, Stages DEF Nearer
<1>4. ASSUME NEW from \in {"socket", "connect"}, l.pc = from, m.pc = "socket",
             l.left > 0, m.left = l.left - 1
      PROVE  Nearer(m, l)
  <2> HIDE DEF l, m
  <2>1. Stage(m) = Stage(l)
    BY <1>4, Stages
  <2>2. Tries(m) = 2 * (l.left - 1) + 1 /\ Tries(l) \in {2 * l.left, 2 * l.left + 1}
    BY <1>4 DEF Tries
  <2>3. Tries(m) \in Nat /\ Tries(m) < Tries(l)
    BY <1>1, <1>4, <2>2
  <2> QED BY <2>1, <2>3 DEF Nearer
<1>5. ASSUME l.pc = "socket", m.pc = "connect", m.left = l.left
      PROVE  Nearer(m, l)
  <2> HIDE DEF l, m
  <2>1. Stage(m) = Stage(l)
    BY <1>5, Stages
  <2>2. Tries(m) = 2 * l.left /\ Tries(l) = 2 * l.left + 1
    BY <1>5 DEF Tries
  <2>3. Tries(m) \in Nat /\ Tries(m) < Tries(l)
    BY <1>1, <2>2
  <2> QED BY <2>1, <2>3 DEF Nearer
<1>6. CASE Start(t)
  BY <1>3, <1>6 DEF Start, TypeOK, Locals
<1>7. CASE ErrorReply(t) \/ CloseClient(t)
  BY <1>3, <1>7 DEF ErrorReply, CloseClient, Ends, NoThread, TypeOK, Locals
<1>8. CASE Hit(t) \/ Connect(t) \/ RelayAll(t) \/ CloseServer(t) \/ CloseUnset(t)
  BY <1>3, <1>8 DEF Hit, Connect, RelayAll, CloseServer, CloseUnset, Goto, TypeOK, Locals
<1>9. CASE Miss(t)
  BY <1>3, <1>9 DEF Miss, TypeOK, Locals
<1>10. CASE SocketFails(t) \/ ConnectFails(t)
  <2>1. l.left > 0 /\ l.pc \in {"socket", "connect"} /\ NextAddr(t)
    BY <1>10 DEF SocketFails, ConnectFails, Ready
  <2>2. /\ m.pc = "socket" /\ m.left = l.left - 1
        /\ \A s \in Threads : s # t => thread'[s] = thread[s]
    BY <2>1 DEF NextAddr, TypeOK, Locals
  <2> QED BY <1>4, <2>1, <2>2
<1>11. CASE Socket(t)
  BY <1>5, <1>11 DEF Socket, TypeOK, Locals
<1> QED BY <1>2, <1>6, <1>7, <1>8, <1>9, <1>10, <1>11 DEF Thread

\* A thread that main has started gets on with each of its steps, and with no step of
\* main or of another thread does it go back: it tries each address of its server at
\* most once (csapp.c:977-990), closes what it has opened and ends, or the process does
\* (proxy.c:54-117).  That is the measure behind ThreadsEnd.
THEOREM ThreadsAlwaysGetOn == Spec => ThreadsGetOn
<1>1. ASSUME ConnInv, Next, NEW t \in Threads
      PROVE  /\ Thread(t) => Nearer(thread'[t], thread[t])
             /\ At(t, "none") \/ thread'[t] = thread[t] \/ Nearer(thread'[t], thread[t])
  <2>1. TypeOK /\ Ready
    BY <1>1 DEF ConnInv
  <2>2. Thread(t) => Nearer(thread'[t], thread[t])
    BY <2>1, OwnStep
  <2>3. ASSUME Exit PROVE At(t, "none") \/ Nearer(thread'[t], thread[t])
    BY <2>1, <2>3, ExitIsEnd
  <2>4. ASSUME NEW s \in Threads, Thread(s)
        PROVE  At(t, "none") \/ thread'[t] = thread[t] \/ Nearer(thread'[t], thread[t])
    <3>1. CASE ThreadExits(s)
      BY <2>3, <3>1 DEF ThreadExits
    <3>2. CASE ~ ThreadExits(s) /\ s # t
      BY <2>1, <2>4, <3>2, OwnStep
    <3> QED BY <2>2, <2>4, <3>1, <3>2
  <2>5. ASSUME MainStep
        PROVE  At(t, "none") \/ thread'[t] = thread[t] \/ Nearer(thread'[t], thread[t])
    <3>1. ASSUME NEW s \in Threads, Create(s) PROVE At(t, "none") \/ thread'[t] = thread[t]
      BY <2>1, <3>1 DEF Create, At, TypeOK
    <3>2. CASE MainExits
      BY <2>3, <3>2 DEF MainExits
    <3>3. ASSUME ListenAddrs \/ ListenSocketFails \/ ListenSocket \/ BindFails \/ Listen
                 \/ MallocCell \/ Accept
          PROVE  thread'[t] = thread[t]
      BY <3>3 DEF ListenAddrs, ListenSocketFails, ListenSocket, BindFails, Listen, MallocCell, Accept
    <3> QED BY <2>5, <3>1, <3>2, <3>3 DEF MainStep
  <2>6. ASSUME Quiet PROVE thread'[t] = thread[t]
    BY <2>6 DEF Quiet, vars
  <2> QED BY <1>1, <2>2, <2>4, <2>5, <2>6 DEF Next
<1>2. ConnInv /\ [Next]_vars =>
        [\A t \in Threads :
           /\ Thread(t) => Nearer(thread'[t], thread[t])
           /\ At(t, "none") \/ thread'[t] = thread[t] \/ Nearer(thread'[t], thread[t])]_vars
  BY <1>1
<1> QED BY <1>2, InitConn, NextConn, PTL DEF Spec, ThreadsGetOn
=============================================================================
