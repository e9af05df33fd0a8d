-------------------------------- MODULE Relay --------------------------------
(***************************************************************************)
(* One connection in do_proxy (proxy_lab/proxy.c) that misses the cache    *)
(* (ProxyCache has the hits).  The request is taken apart; the response of *)
(* the server is read line by line up to the empty line, then in chunks    *)
(* until Content-length bytes of body have been read.  Everything is sent  *)
(* on to the client and copied to the cache object.                        *)
(*                                                                         *)
(* A byte is "cr", "nl", "len" (the text of a Content-length field whose   *)
(* value is Length) or "x" (anything else but a space).  "req" is the      *)
(* request that do_proxy has built in buf before, "key" and "get" what it  *)
(* leaves of "len" and "req" when it cuts buf at the first space, "err"    *)
(* the page that clienterror writes.                                       *)
(***************************************************************************)
EXTENDS Rio

CONSTANTS Responses,      \* what servers send: sequences of bytes
          Length,         \* value of the Content-length field
          MaxObjectSize,  \* MAX_OBJECT_SIZE
          SizeMod,        \* size_t is unsigned: 2^32
          MaxSent         \* bound: bytes sent to the client

ASSUME RelayAssumption == /\ Byte = {"cr", "nl", "len", "x", "key", "req", "get", "err"}
                          /\ Responses \subseteq Seq({"cr", "nl", "len", "x"})
                          /\ Length \in 0 .. SizeMod - 1 /\ SizeMod \in Nat \ {0}
                          /\ MaxObjectSize \in Nat /\ MaxSent \in Nat

VARIABLES pc,
          buf,          \* do_proxy's buffer when no read is in progress
          content_len,
          sent,         \* what the client has been sent
          value, valid, \* of the cache object
          clientOpen    \* clientfd has not been closed
relayVars == <<buf, content_len, sent, value, valid, clientOpen>>
vars == <<rioVars, pc, relayVars>>

TypeOK == /\ RioTypeOK
          /\ pc \in {"request", "status", "header", "body", "done", "exited", "fault"}
          /\ buf \in Seq(Byte) /\ buf # <<>>
          /\ content_len \in 0 .. SizeMod - 1
          /\ sent \in Seq(Byte)
          /\ value \in Seq(Byte) /\ Len(value) <= MaxObjectSize
          /\ valid \in BOOLEAN /\ clientOpen \in BOOLEAN

Init == /\ stream \in Responses /\ RioInit
        /\ pc = "request" /\ buf = <<"req">> /\ content_len = 0
        /\ sent = <<>> /\ value = <<>> /\ valid = TRUE /\ clientOpen = TRUE

\* Seeded bug: what does not fit is cut off and the object stays valid.
cache_copy_cuts(b) ==
    /\ value' = SubSeq(value \o b, 1, Min({MaxObjectSize, Len(value \o b)}))
    /\ UNCHANGED valid

\* An object that would become too large is no longer valid.
cache_copy(b) ==
    IF Len(value) + Len(b) > MaxObjectSize
    THEN valid' = FALSE /\ UNCHANGED value
    ELSE value' = value \o b /\ UNCHANGED valid

Writen(b) == sent' = sent \o b
Pass(b) == cache_copy(b) /\ Writen(b)
-----------------------------------------------------------------------------
(* the request: not a GET, no http://, no slash behind the host, or fine   *)

Requests == {"method", "scheme", "slash", "ok"}

\* No slash: strchr returns NULL, which is written to.
parse_uri(r) == CASE r = "scheme" -> "error" [] r = "slash" -> "fault" [] r = "ok" -> "status"

\* The page is sent and the thread returns; clientfd stays open.
clienterror == /\ Writen(<<"err">>) /\ pc' = "done"
               /\ UNCHANGED <<rioVars, buf, content_len, value, valid, clientOpen>>

\* A client that sends nothing leaves buf uninitialised: any request.
Request == /\ pc = "request"
           /\ \E r \in Requests :
                 IF r = "method" \/ parse_uri(r) = "error"
                 THEN clienterror
                 ELSE pc' = parse_uri(r) /\ UNCHANGED <<rioVars, relayVars>>
-----------------------------------------------------------------------------
(* the calls to Rio_readlineb and Rio_readnb in progress                   *)

Reading == \/ pc \in {"status", "header"} /\ ~ LineFull /\ ~ Eof
           \/ pc = "body" /\ content_len > 0 /\ ~ ChunkFull /\ ~ Eof

Read == Reading /\ Refill /\ UNCHANGED <<pc, relayVars>>

\* One byte at a time for a line, as many as are left for a chunk.
Take == Reading /\ Copy(IF pc = "body" THEN MAXLINE - Len(usrbuf) ELSE 1)
                /\ UNCHANGED <<pc, relayVars>>

\* The line that the call returns.  At end of file with nothing read
\* rio_readlineb returns 0, which is ignored, and leaves buf as it was.
Line == IF usrbuf = <<>> THEN buf ELSE usrbuf
LineReady == pc \in {"status", "header"} /\ (LineFull \/ Eof) /\ Len(sent) < MaxSent

EmptyLine == <<"cr", "nl">>

StatusLine ==
    /\ pc = "status" /\ LineReady
    /\ Pass(Line)
    /\ buf' = Line /\ usrbuf' = <<>>
    /\ pc' = IF Line = EmptyLine THEN "body" ELSE "header"
    /\ UNCHANGED <<stream, pos, rio, content_len, clientOpen>>

\* buf is cut at its first space.
Cut(b) == CASE b[1] = "len" -> <<"key">> [] b[1] = "req" -> <<"get">> [] OTHER -> b

\* A line of the header; atoi reads the value behind the space in the line.
HeaderLine ==
    /\ pc = "header" /\ LineReady /\ Line[1] # "key"
    /\ Pass(Line)
    /\ buf' = Cut(Line)
    /\ content_len' = IF Line[1] = "len" THEN Length ELSE content_len
    /\ pc' = IF Line = EmptyLine THEN "body" ELSE "header"
    /\ usrbuf' = <<>>
    /\ UNCHANGED <<stream, pos, rio, clientOpen>>

\* The stale line is the field name that was cut: delim is NULL, atoi reads
\* from address 1.
HeaderFault ==
    /\ pc = "header" /\ LineReady /\ Line[1] = "key"
    /\ Pass(Line)
    /\ pc' = "fault"
    /\ UNCHANGED <<rioVars, buf, content_len, clientOpen>>

\* Seeded bug: one chunk is the whole body.
LeftNothing(n) == 0

Left(n) == (content_len - n) % SizeMod

BodyChunk ==
    /\ pc = "body" /\ content_len > 0 /\ usrbuf # <<>> /\ (ChunkFull \/ Eof)
    /\ Pass(usrbuf)
    /\ content_len' = Left(Len(usrbuf))
    /\ buf' = usrbuf /\ usrbuf' = <<>>
    /\ UNCHANGED <<stream, pos, rio, pc, clientOpen>>

\* Seeded bug: the end of the file does not end the body.
BodyDoneAtZero == content_len = 0

BodyDone == content_len = 0 \/ (usrbuf = <<>> /\ Eof)

\* put_cache follows if the object is valid (see ProxyCache), then Close.
Finish ==
    /\ pc = "body" /\ BodyDone
    /\ pc' = "done" /\ clientOpen' = FALSE
    /\ UNCHANGED <<rioVars, buf, content_len, sent, value, valid>>

\* unix_error or SIGPIPE: a read or a write has failed.
Fail ==
    /\ pc \in {"request", "status", "header", "body"}
    /\ pc' = "exited"
    /\ UNCHANGED <<rioVars, relayVars>>

Ended == /\ pc \in {"done", "exited", "fault"} \/ Len(sent) >= MaxSent
         /\ UNCHANGED vars

Step == \/ Request \/ Read \/ Take \/ StatusLine \/ HeaderLine \/ HeaderFault
        \/ BodyChunk \/ Finish
Next == Step \/ Fail \/ Ended

Spec == Init /\ [][Next]_vars

\* The server sends what it has to send and closes; the thread is scheduled.
FairSpec == Spec /\ WF_vars(Step)
-----------------------------------------------------------------------------
(* properties                                                              *)

\* The ends of an empty line that is not the first line.
HeaderEnds == {i \in 3 .. Len(stream) : SubSeq(stream, i - 2, i) = <<"nl", "cr", "nl">>}
HeaderEnd == Min(HeaderEnds)

\* No byte is lost, repeated or reordered, however the bytes arrive and are
\* buffered: what was sent, what the call in progress holds and what the buffer
\* holds are what read has returned (rio_read, rio_readlineb, rio_readnb,
\* csapp.c:794-883).  Without the end of the header this fails, see README.
InOrder == HeaderEnds # {} /\ pc # "fault" /\ sent # <<"err">> =>
    sent \o usrbuf \o rio = SubSeq(stream, 1, pos)

\* What is put into the cache is what the client was sent (proxy.c:91-109).
CachedAsSent == valid /\ sent # <<"err">> => value = sent

\* A header of lines that fit the buffer, the first of them not empty, one with the
\* Content-length, and as many bytes of body as it says.
WellFormed ==
    /\ HeaderEnds # {} /\ SubSeq(stream, 1, 2) # EmptyLine
    /\ \A i \in 1 .. HeaderEnd - MAXLINE + 2 :
          \E j \in i .. i + MAXLINE - 2 : stream[j] = "nl"
    /\ \E i \in 2 .. HeaderEnd : stream[i - 1] = "nl" /\ stream[i] = "len"
    /\ Len(stream) = HeaderEnd + Length

\* The connection is closed on a client that has got all of a well-formed
\* response (proxy.c:91-116).
WholeResponse == ~ clientOpen /\ WellFormed => sent = stream

\* A response whose header ends is relayed to its end, whatever its body: shorter
\* or longer than announced or not announced at all (proxy.c:94-108).
RelayEnds == pc = "status" /\ HeaderEnds # {} ~> pc \in {"done", "exited"}
=============================================================================
