------------------------------- MODULE MCRelay -------------------------------
(* Instances of Relay for TLC.                                             *)
EXTENDS Relay

Field == <<"x", "cr", "nl">>
LengthField == <<"len", "cr", "nl">>
LongField == <<"x", "x", "x", "x", "x", "nl">>
\* A line that is read as a line of MAXLINE - 1 bytes and an empty one.
SplitField == <<"x", "x", "x", "x", "cr", "nl">>

X(n) == [i \in 1 .. n |-> "x"]
Bodies == {X(n) : n \in 0 .. 7} \cup {<<"nl", "cr", "nl", "x">>, <<"len", "nl", "x">>}

Headers == {Field, LengthField, LengthField \o Field, Field \o LengthField,
            LongField \o LengthField, SplitField \o LengthField}

Complete == {Field \o h \o EmptyLine \o b : h \in Headers, b \in Bodies}
            \cup {EmptyLine \o X(2), EmptyLine \o LengthField \o EmptyLine \o X(6)}

\* Any of them, or as much of it as a server sends that closes early.
MCResponses == UNION {{SubSeq(r, 1, n) : n \in 0 .. Len(r)} : r \in Complete}
=============================================================================
