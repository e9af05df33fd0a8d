--------------------------------- MODULE Rio ---------------------------------
(***************************************************************************)
(* The buffered reader of the csapp library (proxy_lab/csapp.c): rio_read  *)
(* over a read that returns any part of what the peer has sent, and the    *)
(* loops of rio_readlineb and rio_readnb around it.                        *)
(*                                                                         *)
(* Bytes are strings.  A read that a signal interrupts is retried and      *)
(* changes nothing; one that fails ends the process (see Relay).           *)
(***************************************************************************)
EXTENDS Integers, Sequences, FiniteSetsExt

CONSTANTS Byte,
          RIO_BUFSIZE, \* bytes of the internal buffer
          MAXLINE      \* size of the caller's buffer

ASSUME RioAssumption == RIO_BUFSIZE \in Nat \ {0} /\ MAXLINE \in Nat \ {0, 1}

VARIABLES stream,  \* what the peer sends before it closes the connection
          pos,     \* bytes of it that read has returned
          rio,     \* the unread bytes of rio_buf
          usrbuf   \* what the call in progress has copied to its caller

rioVars == <<stream, pos, rio, usrbuf>>

RioTypeOK == /\ stream \in Seq(Byte)
             /\ pos \in 0 .. Len(stream)
             /\ rio \in Seq(Byte) /\ Len(rio) <= RIO_BUFSIZE
             /\ usrbuf \in Seq(Byte) /\ Len(usrbuf) <= MAXLINE

RioInit == pos = 0 /\ rio = <<>> /\ usrbuf = <<>>

\* rio_read finds the internal buffer empty and fills it.
Refill == /\ rio = <<>> /\ pos < Len(stream)
          /\ \E k \in 1 .. Min({RIO_BUFSIZE, Len(stream) - pos}) :
                /\ rio' = SubSeq(stream, pos + 1, pos + k)
                /\ pos' = pos + k
          /\ UNCHANGED <<stream, usrbuf>>

\* Seeded bug: the buffer is emptied whatever the caller asked for.
CopyEmpties(n) ==
    /\ rio # <<>>
    /\ usrbuf' = usrbuf \o SubSeq(rio, 1, Min({n, Len(rio)}))
    /\ rio' = <<>>
    /\ UNCHANGED <<stream, pos>>

\* rio_read copies min(n, rio_cnt) bytes.
Copy(n) ==
    /\ rio # <<>>
    /\ LET cnt == Min({n, Len(rio)})
       IN  /\ usrbuf' = usrbuf \o SubSeq(rio, 1, cnt)
           /\ rio' = SubSeq(rio, cnt + 1, Len(rio))
    /\ UNCHANGED <<stream, pos>>

Eof == rio = <<>> /\ pos = Len(stream)

\* rio_readlineb stops after a newline or MAXLINE - 1 bytes.
LineFull == \/ usrbuf # <<>> /\ usrbuf[Len(usrbuf)] = "nl"
            \/ Len(usrbuf) = MAXLINE - 1

\* rio_readnb stops after the MAXLINE bytes that do_proxy asks for.
ChunkFull == Len(usrbuf) = MAXLINE
=============================================================================
