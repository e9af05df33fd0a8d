---------------------------- MODULE Relay_proofs ----------------------------
(***************************************************************************)
(* Theorems about the relay of one miss for any buffer sizes, any set of   *)
(* responses and any moment at which a read or a write fails.              *)
(***************************************************************************)
EXTENDS Relay, SequenceTheorems, WellFoundedInduction, TLAPS
-----------------------------------------------------------------------------
(* Sequences of bytes: what rio_read copies and what a refill adds.        *)

LEMMA MinOfTwo ==
  ASSUME NEW a \in Int, NEW b \in Int
  PROVE  Min({a, b}) = IF a <= b THEN a ELSE b
<1>1. \E x \in {a, b} : \A y \in {a, b} : x =< y
  OBVIOUS
<1>2. Min({a, b}) \in {a, b} /\ \A y \in {a, b} : Min({a, b}) =< y
  BY <1>1 DEF Min
<1>3. QED
  BY <1>2

LEMMA Least ==
  ASSUME NEW S, S \subseteq Nat, S # {}
  PROVE  \E x \in S : \A y \in S : x <= y
<1>1. PICK x \in S : \A y \in S : ~ (<<y, x>> \in OpToRel(<, Nat))
  BY NatLessThanWellFounded, WFMin
<1>2. \A y \in S : ~ (y < x)
  BY <1>1 DEF OpToRel
<1>3. QED
  BY <1>2

LEMMA Part ==
  ASSUME NEW S, NEW s \in Seq(S), NEW m \in 1 .. Len(s) + 1, NEW n \in m - 1 .. Len(s)
  PROVE  /\ SubSeq(s, m, n) \in Seq(S) /\ Len(SubSeq(s, m, n)) = n - m + 1
         /\ \A i \in 1 .. n - m + 1 : SubSeq(s, m, n)[i] = s[m + i - 1]
<1>1. Len(s) \in Nat
  BY LenProperties
<1>2. \A i \in m .. n : s[i] \in S
  BY <1>1, ElementOfSeq
<1>3. QED
  BY <1>1, <1>2, SubSeqProperties

LEMMA SplitAt ==
  ASSUME NEW S, NEW s \in Seq(S), NEW c \in 0 .. Len(s)
  PROVE  SubSeq(s, 1, c) \o SubSeq(s, c + 1, Len(s)) = s
<1>1. Len(s) \in Nat
  BY LenProperties
<1>2. 1 \in 1 .. Len(s) + 1 /\ c \in 1 - 1 .. Len(s) /\ Len(s) \in c .. Len(s)
  BY <1>1
<1>3. SubSeq(s, 1, c) \o SubSeq(s, c + 1, Len(s)) = SubSeq(s, 1, Len(s))
  BY <1>2, ConcatAdjacentSubSeq
<1>4. QED
  BY <1>3, SubSeqFull

LEMMA Empty ==
  ASSUME NEW S, NEW s \in Seq(S)
  PROVE  /\ Len(s) \in Nat /\ (Len(s) = 0 <=> s = <<>>)
         /\ <<>> \in Seq(S) /\ Len(<<>>) = 0
BY EmptySeq, LenProperties

\* Copy(n) moves at least one and at most n bytes from the front of the internal
\* buffer to the end of the caller's.
LEMMA CopyMoves ==
  ASSUME RioTypeOK, NEW n \in Nat \ {0}, Copy(n)
  PROVE  /\ rio' \in Seq(Byte) /\ usrbuf' \in Seq(Byte)
         /\ usrbuf' \o rio' = usrbuf \o rio
         /\ \E c \in 1 .. n : /\ c <= Len(rio) /\ Len(rio') = Len(rio) - c
                              /\ Len(usrbuf') = Len(usrbuf) + c
         /\ \A j \in 1 .. Len(usrbuf) : usrbuf'[j] = usrbuf[j]
<1> DEFINE c == Min({n, Len(rio)})
           f == SubSeq(rio, 1, c)
           r == SubSeq(rio, c + 1, Len(rio))
<1>1. rio \in Seq(Byte) /\ usrbuf \in Seq(Byte) /\ rio # <<>>
  BY DEF RioTypeOK, Copy
<1>2. Len(rio) \in Nat \ {0} /\ Len(usrbuf) \in Nat
  BY <1>1, Empty
<1>3. c \in 1 .. n /\ c <= Len(rio)
  BY <1>2, MinOfTwo
<1>4. usrbuf' = usrbuf \o f /\ rio' = r
  BY DEF Copy
<1> HIDE DEF c
<1>5. f \in Seq(Byte) /\ Len(f) = c
  BY <1>1, <1>2, <1>3, Part
<1>6. r \in Seq(Byte) /\ Len(r) = Len(rio) - c
  BY <1>1, <1>2, <1>3, Part
<1>7. f \o r = rio
  BY <1>1, <1>2, <1>3, SplitAt
<1> HIDE DEF f, r
<1>8. (usrbuf \o f) \o r = usrbuf \o (f \o r)
  <2>1. usrbuf \in Seq(Byte) /\ f \in Seq(Byte) /\ r \in Seq(Byte)
    BY <1>1, <1>5, <1>6
  <2>2. QED
    BY <2>1, ConcatAssociative
<1>9. /\ usrbuf \o f \in Seq(Byte) /\ Len(usrbuf \o f) = Len(usrbuf) + Len(f)
      /\ \A j \in 1 .. Len(usrbuf) + Len(f) :
            (usrbuf \o f)[j] = IF j <= Len(usrbuf) THEN usrbuf[j] ELSE f[j - Len(usrbuf)]
  BY <1>1, <1>5, ConcatProperties
<1>10. \A j \in 1 .. Len(usrbuf) : usrbuf'[j] = usrbuf[j]
  BY <1>2, <1>3, <1>4, <1>5, <1>9
<1>11. QED
  BY <1>3, <1>4, <1>5, <1>6, <1>7, <1>8, <1>9, <1>10

\* A refill puts the next bytes of the stream into the internal buffer.
LEMMA RefillReads ==
  ASSUME RioTypeOK, Refill
  PROVE  /\ pos' \in 0 .. Len(stream)
         /\ rio' \in Seq(Byte) /\ Len(rio') <= RIO_BUFSIZE
         /\ SubSeq(stream, 1, pos) \o rio' = SubSeq(stream, 1, pos')
<1>1. stream \in Seq(Byte) /\ pos \in 0 .. Len(stream) /\ pos < Len(stream)
  BY DEF RioTypeOK, Refill
<1>2. Len(stream) \in Nat /\ RIO_BUFSIZE \in Nat \ {0}
  BY <1>1, Empty, RioAssumption
<1>3. PICK k \in 1 .. Min({RIO_BUFSIZE, Len(stream) - pos}) :
         rio' = SubSeq(stream, pos + 1, pos + k) /\ pos' = pos + k
  BY DEF Refill
<1>4. k \in Nat \ {0} /\ k <= RIO_BUFSIZE /\ pos + k <= Len(stream)
  <2>1. Min({RIO_BUFSIZE, Len(stream) - pos}) =
           IF RIO_BUFSIZE <= Len(stream) - pos THEN RIO_BUFSIZE ELSE Len(stream) - pos
    BY <1>1, <1>2, MinOfTwo
  <2>2. QED
    BY <1>1, <1>2, <2>1
<1>5. rio' \in Seq(Byte) /\ Len(rio') = k
  BY <1>1, <1>2, <1>3, <1>4, Part
<1>6. SubSeq(stream, 1, pos) \o SubSeq(stream, pos + 1, pos + k) = SubSeq(stream, 1, pos + k)
  BY <1>1, <1>2, <1>4, ConcatAdjacentSubSeq
<1>7. QED
  BY <1>1, <1>2, <1>3, <1>4, <1>5, <1>6
-----------------------------------------------------------------------------
(* Types.                                                                  *)

\* Nothing is read or sent before the request has been taken apart.
Fresh == pc = "request" => /\ pos = 0 /\ rio = <<>> /\ usrbuf = <<>>
                           /\ sent = <<>> /\ value = <<>>

\* A line in progress is shorter than the buffer, and a newline can only be its
\* last byte.
LineFits == pc \in {"status", "header"} =>
               /\ Len(usrbuf) <= MAXLINE - 1
               /\ \A j \in 1 .. Len(usrbuf) - 1 : usrbuf[j] # "nl"

Open == ~ clientOpen => pc = "done"

TypeInv == TypeOK /\ Fresh /\ LineFits /\ Open

LEMMA LineIsBytes ==
  ASSUME TypeOK
  PROVE  /\ Line \in Seq(Byte) /\ Line # <<>> /\ Len(Line) \in Nat \ {0}
         /\ Cut(Line) \in Seq(Byte) /\ Cut(Line) # <<>>
<1>1. Line \in Seq(Byte) /\ Line # <<>>
  BY DEF TypeOK, RioTypeOK, Line
<1>2. Len(Line) \in Nat \ {0}
  BY <1>1, Empty
<1>3. <<"key">> \in Seq(Byte) /\ <<"get">> \in Seq(Byte) /\ <<"key">> # <<>> /\ <<"get">> # <<>>
  BY RelayAssumption
<1>4. Cut(Line) \in {<<"key">>, <<"get">>, Line}
  BY DEF Cut
<1>5. QED
  BY <1>1, <1>2, <1>3, <1>4

\* What Pass does to the client and to the object.
LEMMA PassKeepsTypes ==
  ASSUME TypeOK, NEW b \in Seq(Byte), Pass(b)
  PROVE  /\ sent' = sent \o b /\ sent' \in Seq(Byte) /\ Len(sent') = Len(sent) + Len(b)
         /\ value' \in Seq(Byte) /\ Len(value') <= MaxObjectSize
         /\ valid' \in BOOLEAN
<1>1. /\ sent \in Seq(Byte) /\ value \in Seq(Byte) /\ Len(value) <= MaxObjectSize
      /\ valid \in BOOLEAN
  BY DEF TypeOK
<1>2. sent' = sent \o b /\ cache_copy(b)
  BY DEF Pass, Writen
<1>3. sent \o b \in Seq(Byte) /\ Len(sent \o b) = Len(sent) + Len(b)
  BY <1>1, ConcatProperties
<1>4. CASE Len(value) + Len(b) > MaxObjectSize
  BY <1>1, <1>2, <1>3, <1>4 DEF cache_copy
<1>5. CASE ~ (Len(value) + Len(b) > MaxObjectSize)
  <2>1. value' = value \o b /\ valid' = valid
    BY <1>2, <1>5 DEF cache_copy
  <2>2. value \o b \in Seq(Byte) /\ Len(value \o b) = Len(value) + Len(b)
    BY <1>1, ConcatProperties
  <2>3. Len(value) \in Nat /\ Len(b) \in Nat /\ MaxObjectSize \in Nat
    BY <1>1, Empty, RelayAssumption
  <2>4. QED
    BY <1>1, <1>2, <1>3, <1>5, <2>1, <2>2, <2>3
<1>6. QED
  BY <1>4, <1>5

LEMMA TypeStart ==
  ASSUME Init
  PROVE  TypeInv
<1>1. stream \in Seq(Byte)
  <2>1. {"cr", "nl", "len", "x"} \subseteq Byte /\ stream \in Seq({"cr", "nl", "len", "x"})
    BY RelayAssumption DEF Init
  <2>2. QED
    BY <2>1, SeqMonotonic
<1>2. <<>> \in Seq(Byte) /\ Len(<<>>) = 0 /\ <<"req">> \in Seq(Byte) /\ <<"req">> # <<>>
  BY RelayAssumption
<1>3. Len(stream) \in Nat
  BY <1>1, Empty
<1>4. TypeOK
  BY <1>1, <1>2, <1>3, RioAssumption, RelayAssumption DEF Init, RioInit, TypeOK, RioTypeOK
<1>5. QED
  BY <1>4 DEF Init, RioInit, TypeInv, Fresh, LineFits, Open

\* The parts of TypeOK that concern what a step leaves alone or changes.
RelayTypes == /\ pc \in {"request", "status", "header", "body", "done", "exited", "fault"}
              /\ buf \in Seq(Byte) /\ buf # <<>>
              /\ content_len \in 0 .. SizeMod - 1
              /\ sent \in Seq(Byte)
              /\ value \in Seq(Byte) /\ Len(value) <= MaxObjectSize
              /\ valid \in BOOLEAN /\ clientOpen \in BOOLEAN

LEMMA TypeParts == TypeOK <=> RioTypeOK /\ RelayTypes
BY DEF TypeOK, RelayTypes

LEMMA TypePartsNext == TypeOK' <=> RioTypeOK' /\ RelayTypes'
BY DEF TypeOK, RelayTypes

LEMMA RequestTypes ==
  ASSUME TypeInv, Request
  PROVE  TypeInv'
<1>1. TypeOK /\ Fresh /\ LineFits /\ Open /\ pc = "request"
  BY DEF TypeInv, Request
<1>2. RioTypeOK /\ RelayTypes
  BY <1>1, TypeParts
<1>3. PICK r \in Requests :
         IF r = "method" \/ parse_uri(r) = "error"
         THEN clienterror
         ELSE pc' = parse_uri(r) /\ UNCHANGED <<rioVars, relayVars>>
  BY DEF Request
<1>4. UNCHANGED rioVars /\ RioTypeOK'
  BY <1>2, <1>3 DEF clienterror, RioTypeOK, rioVars
<1>5. CASE r = "method" \/ parse_uri(r) = "error"
  <2>1. clienterror
    BY <1>3, <1>5
  <2>2. <<"err">> \in Seq(Byte)
    BY RelayAssumption
  <2>3. sent' \in Seq(Byte)
    BY <1>2, <2>1, <2>2, ConcatProperties DEF clienterror, Writen, RelayTypes
  <2>4. RelayTypes'
    BY <1>2, <2>1, <2>3 DEF clienterror, RelayTypes
  <2>5. QED
    BY <1>4, <2>1, <2>4, TypePartsNext DEF clienterror, TypeInv, Fresh, LineFits, Open
<1>6. CASE ~ (r = "method" \/ parse_uri(r) = "error")
  <2>1. pc' \in {"fault", "status"} /\ UNCHANGED <<rioVars, relayVars>>
    BY <1>3, <1>6 DEF parse_uri, Requests
  <2>2. RelayTypes'
    BY <1>2, <2>1 DEF RelayTypes, relayVars
  <2>3. LineFits'
    BY <1>1, <1>4, <2>1, RioAssumption, EmptySeq DEF LineFits, Fresh, rioVars
  <2>4. QED
    BY <1>1, <1>4, <2>1, <2>2, <2>3, TypePartsNext DEF TypeInv, Fresh, Open, relayVars
<1>7. QED
  BY <1>5, <1>6

LEMMA ReadTypes ==
  ASSUME TypeInv, Read
  PROVE  TypeInv'
<1>1. TypeOK /\ Fresh /\ LineFits /\ Open /\ Reading /\ Refill /\ UNCHANGED <<pc, relayVars>>
  BY DEF TypeInv, Read
<1>2. RioTypeOK /\ RelayTypes
  BY <1>1, TypeParts
<1>3. UNCHANGED <<stream, usrbuf>> /\ pc # "request"
  BY <1>1 DEF Refill, Reading
<1>4. RioTypeOK'
  BY <1>1, <1>2, <1>3, RefillReads DEF RioTypeOK
<1>5. RelayTypes'
  BY <1>1, <1>2 DEF RelayTypes, relayVars
<1>6. QED
  BY <1>1, <1>3, <1>4, <1>5, TypePartsNext DEF TypeInv, Fresh, LineFits, Open, relayVars

\* A byte at a time into a line that is not full, at most the rest of a chunk.
Wanted == IF pc = "body" THEN MAXLINE - Len(usrbuf) ELSE 1

LEMMA TakeMoves ==
  ASSUME TypeInv, Take
  PROVE  /\ rio' \in Seq(Byte) /\ usrbuf' \in Seq(Byte)
         /\ usrbuf' \o rio' = usrbuf \o rio
         /\ Len(rio') <= Len(rio) /\ Len(usrbuf') <= MAXLINE
         /\ pc # "body" => Len(usrbuf') = Len(usrbuf) + 1
         /\ \A j \in 1 .. Len(usrbuf) : usrbuf'[j] = usrbuf[j]
         /\ UNCHANGED <<stream, pos, pc, relayVars>>
<1>1. RioTypeOK /\ RelayTypes /\ LineFits /\ Reading /\ Copy(Wanted)
  BY TypeParts DEF TypeInv, Take, Wanted
<1>2. Len(usrbuf) \in Nat /\ Len(rio) \in Nat /\ Len(usrbuf) <= MAXLINE /\ MAXLINE \in Nat
  BY <1>1, Empty, RioAssumption DEF RioTypeOK
<1>3. Wanted \in Nat \ {0} /\ Len(usrbuf) + Wanted <= MAXLINE /\ (pc # "body" => Wanted = 1)
  <2>1. CASE pc = "body"
    BY <1>1, <1>2, <2>1 DEF Reading, ChunkFull, Wanted
  <2>2. CASE pc # "body"
    BY <1>1, <1>2, <2>2 DEF Reading, LineFits, Wanted
  <2>3. QED
    BY <2>1, <2>2
<1>4. PICK c \in 1 .. Wanted : /\ c <= Len(rio) /\ Len(rio') = Len(rio) - c
                               /\ Len(usrbuf') = Len(usrbuf) + c
  BY <1>1, <1>3, CopyMoves
<1>5. /\ rio' \in Seq(Byte) /\ usrbuf' \in Seq(Byte)
      /\ usrbuf' \o rio' = usrbuf \o rio
      /\ \A j \in 1 .. Len(usrbuf) : usrbuf'[j] = usrbuf[j]
  BY <1>1, <1>3, CopyMoves
<1>6. UNCHANGED <<stream, pos, pc, relayVars>>
  BY DEF Take, Copy
<1>7. QED
  BY <1>2, <1>3, <1>4, <1>5, <1>6

LEMMA TakeTypes ==
  ASSUME TypeInv, Take
  PROVE  TypeInv'
<1>1. RioTypeOK /\ RelayTypes /\ Fresh /\ LineFits /\ Open /\ Reading
  BY TypeParts DEF TypeInv, Take
<1>2. /\ rio' \in Seq(Byte) /\ usrbuf' \in Seq(Byte)
      /\ Len(rio') <= Len(rio) /\ Len(usrbuf') <= MAXLINE
      /\ UNCHANGED <<stream, pos, pc, relayVars>>
  BY TakeMoves
<1>3. Len(rio) \in Nat /\ Len(rio') \in Nat /\ RIO_BUFSIZE \in Nat /\ MAXLINE \in Nat
  BY <1>1, <1>2, Empty, RioAssumption DEF RioTypeOK
<1>4. RioTypeOK'
  BY <1>1, <1>2, <1>3 DEF RioTypeOK
<1>5. RelayTypes'
  BY <1>1, <1>2 DEF RelayTypes, relayVars
<1>6. LineFits'
  <2>1. SUFFICES ASSUME pc \in {"status", "header"}
                 PROVE  /\ Len(usrbuf') <= MAXLINE - 1
                        /\ \A j \in 1 .. Len(usrbuf') - 1 : usrbuf'[j] # "nl"
    BY <1>2 DEF LineFits
  <2>2. Len(usrbuf) \in Nat /\ Len(usrbuf') = Len(usrbuf) + 1 /\ ~ LineFull
    BY <1>1, <2>1, Empty, TakeMoves DEF RioTypeOK, Reading
  <2>3. \A j \in 1 .. Len(usrbuf) : usrbuf'[j] = usrbuf[j]
    BY TakeMoves
  <2>4. usrbuf \in Seq(Byte) /\ (Len(usrbuf) # 0 => usrbuf[Len(usrbuf)] # "nl")
    BY <1>1, <2>2, Empty DEF LineFull, RioTypeOK
  <2>5. \A j \in 1 .. Len(usrbuf) : usrbuf[j] # "nl"
    BY <1>1, <2>1, <2>2, <2>4 DEF LineFits
  <2>6. Len(usrbuf') <= MAXLINE - 1
    BY <1>1, <1>3, <2>1, <2>2 DEF LineFits, LineFull
  <2>7. QED
    BY <2>2, <2>3, <2>5, <2>6
<1>7. pc # "request"
  BY <1>1 DEF Reading
<1>8. QED
  BY <1>1, <1>2, <1>4, <1>5, <1>6, <1>7, TypePartsNext DEF TypeInv, Fresh, Open, relayVars

\* The call has returned and its caller has the bytes: usrbuf is empty.
LEMMA ReturnKeepsRio ==
  ASSUME RioTypeOK, usrbuf' = <<>>, UNCHANGED <<stream, pos, rio>>
  PROVE  RioTypeOK' /\ Len(usrbuf') = 0
BY RioAssumption, EmptySeq DEF RioTypeOK

LEMMA StatusLineTypes ==
  ASSUME TypeInv, StatusLine
  PROVE  TypeInv'
<1>1. TypeOK /\ RioTypeOK /\ RelayTypes /\ Open /\ pc = "status"
  BY TypeParts DEF TypeInv, StatusLine
<1>2. /\ Pass(Line) /\ buf' = Line /\ usrbuf' = <<>> /\ pc' \in {"body", "header"}
      /\ UNCHANGED <<stream, pos, rio, content_len, clientOpen>>
  BY DEF StatusLine
<1>3. RioTypeOK' /\ Len(usrbuf') = 0
  BY <1>1, <1>2, ReturnKeepsRio
<1>4. /\ sent' \in Seq(Byte) /\ value' \in Seq(Byte) /\ Len(value') <= MaxObjectSize
      /\ valid' \in BOOLEAN /\ Line \in Seq(Byte) /\ Line # <<>>
  BY <1>1, <1>2, PassKeepsTypes, LineIsBytes
<1>5. RelayTypes'
  BY <1>1, <1>2, <1>4 DEF RelayTypes
<1>6. QED
  BY <1>1, <1>2, <1>3, <1>5, TypePartsNext, RioAssumption DEF TypeInv, Fresh, LineFits, Open

LEMMA HeaderLineTypes ==
  ASSUME TypeInv, HeaderLine
  PROVE  TypeInv'
<1>1. TypeOK /\ RioTypeOK /\ RelayTypes /\ Open /\ pc = "header"
  BY TypeParts DEF TypeInv, HeaderLine
<1>2. /\ Pass(Line) /\ buf' = Cut(Line) /\ usrbuf' = <<>> /\ pc' \in {"body", "header"}
      /\ content_len' \in {Length, content_len}
      /\ UNCHANGED <<stream, pos, rio, clientOpen>>
  BY DEF HeaderLine
<1>3. RioTypeOK' /\ Len(usrbuf') = 0
  BY <1>1, <1>2, ReturnKeepsRio
<1>4. /\ sent' \in Seq(Byte) /\ value' \in Seq(Byte) /\ Len(value') <= MaxObjectSize
      /\ valid' \in BOOLEAN /\ Cut(Line) \in Seq(Byte) /\ Cut(Line) # <<>>
  BY <1>1, <1>2, PassKeepsTypes, LineIsBytes
<1>5. RelayTypes'
  BY <1>1, <1>2, <1>4, RelayAssumption DEF RelayTypes
<1>6. QED
  BY <1>1, <1>2, <1>3, <1>5, TypePartsNext, RioAssumption DEF TypeInv, Fresh, LineFits, Open

LEMMA HeaderFaultTypes ==
  ASSUME TypeInv, HeaderFault
  PROVE  TypeInv'
<1>1. TypeOK /\ RioTypeOK /\ RelayTypes /\ Open /\ pc = "header"
  BY TypeParts DEF TypeInv, HeaderFault
<1>2. /\ Pass(Line) /\ pc' = "fault"
      /\ UNCHANGED <<rioVars, buf, content_len, clientOpen>>
  BY DEF HeaderFault
<1>3. /\ sent' \in Seq(Byte) /\ value' \in Seq(Byte) /\ Len(value') <= MaxObjectSize
      /\ valid' \in BOOLEAN
  BY <1>1, <1>2, PassKeepsTypes, LineIsBytes
<1>4. RioTypeOK' /\ RelayTypes'
  BY <1>1, <1>2, <1>3 DEF RelayTypes, RioTypeOK, rioVars
<1>5. QED
  BY <1>1, <1>2, <1>4, TypePartsNext DEF TypeInv, Fresh, LineFits, Open

LEMMA BodyChunkTypes ==
  ASSUME TypeInv, BodyChunk
  PROVE  TypeInv'
<1>1. TypeOK /\ RioTypeOK /\ RelayTypes /\ Open /\ pc = "body"
  BY TypeParts DEF TypeInv, BodyChunk
<1>2. /\ Pass(usrbuf) /\ buf' = usrbuf /\ usrbuf # <<>> /\ usrbuf' = <<>>
      /\ content_len' = Left(Len(usrbuf))
      /\ UNCHANGED <<stream, pos, rio, pc, clientOpen>>
  BY DEF BodyChunk
<1>3. RioTypeOK' /\ usrbuf \in Seq(Byte) /\ Len(usrbuf) \in Nat
  BY <1>1, <1>2, ReturnKeepsRio, Empty DEF RioTypeOK
<1>4. /\ sent' \in Seq(Byte) /\ value' \in Seq(Byte) /\ Len(value') <= MaxObjectSize
      /\ valid' \in BOOLEAN
  BY <1>1, <1>2, <1>3, PassKeepsTypes
<1>5. content_len' \in 0 .. SizeMod - 1
  BY <1>1, <1>2, <1>3, RelayAssumption DEF Left, RelayTypes
<1>6. RelayTypes'
  BY <1>1, <1>2, <1>3, <1>4, <1>5 DEF RelayTypes
<1>7. QED
  BY <1>1, <1>2, <1>3, <1>6, TypePartsNext DEF TypeInv, Fresh, LineFits, Open

LEMMA TypeStep ==
  ASSUME TypeInv, [Next]_vars
  PROVE  TypeInv'
<1>1. RioTypeOK /\ RelayTypes /\ Fresh /\ LineFits /\ Open
  BY TypeParts DEF TypeInv
<1>2. CASE Finish
  <2>1. RioTypeOK' /\ RelayTypes'
    BY <1>1, <1>2 DEF Finish, RioTypeOK, RelayTypes, rioVars
  <2>2. QED
    BY <1>2, <2>1, TypePartsNext DEF Finish, TypeInv, Fresh, LineFits, Open
<1>3. CASE Fail
  <2>1. RioTypeOK' /\ RelayTypes'
    BY <1>1, <1>3 DEF Fail, RioTypeOK, RelayTypes, rioVars, relayVars
  <2>2. QED
    BY <1>1, <1>3, <2>1, TypePartsNext DEF Fail, TypeInv, Fresh, LineFits, Open, relayVars
<1>4. CASE UNCHANGED vars
  <2>1. RioTypeOK' /\ RelayTypes'
    BY <1>1, <1>4 DEF vars, RioTypeOK, RelayTypes, rioVars, relayVars
  <2>2. QED
    BY <1>1, <1>4, <2>1, TypePartsNext
    DEF vars, TypeInv, Fresh, LineFits, Open, rioVars, relayVars
<1>5. QED
  BY <1>2, <1>3, <1>4, RequestTypes, ReadTypes, TakeTypes, StatusLineTypes, HeaderLineTypes,
     HeaderFaultTypes, BodyChunkTypes DEF Next, Step, Ended

LEMMA AlwaysTyped == Spec => []TypeInv
BY TypeStart, TypeStep, PTL DEF Spec

\* The internal buffer, the caller's and the object stay within their sizes,
\* content_len within size_t, whatever the server sends and whatever do_proxy cuts
\* (csapp.c:794-883, proxy.c:47-116, cache.c:60-70).
THEOREM RelayTypeCorrect == Spec => []TypeOK
<1>1. TypeInv => TypeOK
  BY DEF TypeInv
<1>2. QED
  BY <1>1, AlwaysTyped, PTL
-----------------------------------------------------------------------------
(* The cache object.                                                       *)

\* Until the page of clienterror, the only thing that is sent and not copied, a
\* valid object holds what was sent.
CacheInv == valid /\ ~ (pc = "done" /\ sent = <<"err">>) => value = sent

LEMMA PassKeepsObject ==
  ASSUME TypeOK, NEW b \in Seq(Byte), Pass(b), valid => value = sent
  PROVE  valid' => value' = sent'
<1>1. valid' => valid /\ value' = value \o b
  BY DEF Pass, cache_copy
<1>2. QED
  BY <1>1 DEF Pass, Writen

LEMMA CacheStep ==
  ASSUME TypeInv, CacheInv, [Next]_vars
  PROVE  CacheInv'
<1>1. TypeOK /\ Fresh
  BY DEF TypeInv
<1>2. CASE Request
  <2>1. PICK r \in Requests :
           IF r = "method" \/ parse_uri(r) = "error"
           THEN clienterror
           ELSE pc' = parse_uri(r) /\ UNCHANGED <<rioVars, relayVars>>
    BY <1>2 DEF Request
  <2>2. pc = "request" /\ sent = <<>> /\ value = <<>>
    BY <1>1, <1>2 DEF Request, Fresh
  <2>3. CASE r = "method" \/ parse_uri(r) = "error"
    <3>1. sent' = <<>> \o <<"err">> /\ pc' = "done"
      BY <2>1, <2>2, <2>3 DEF clienterror, Writen
    <3>2. <<"err">> \in Seq(Byte)
      BY RelayAssumption
    <3>3. <<>> \o <<"err">> = <<"err">>
      BY <3>2, ConcatEmptySeq
    <3>4. QED
      BY <3>1, <3>3 DEF CacheInv
  <2>4. CASE ~ (r = "method" \/ parse_uri(r) = "error")
    BY <2>1, <2>2, <2>4 DEF CacheInv, relayVars
  <2>5. QED
    BY <2>3, <2>4
<1>3. CASE Read \/ Take
  BY <1>3 DEF Read, Take, CacheInv, relayVars
<1>4. CASE StatusLine \/ HeaderLine \/ HeaderFault
  <2>1. Pass(Line) /\ pc # "done"
    BY <1>4 DEF StatusLine, HeaderLine, HeaderFault
  <2>2. QED
    BY <1>1, <2>1, LineIsBytes, PassKeepsObject DEF CacheInv
<1>5. CASE BodyChunk
  <2>1. Pass(usrbuf) /\ pc # "done" /\ usrbuf \in Seq(Byte)
    BY <1>1, <1>5 DEF BodyChunk, TypeOK, RioTypeOK
  <2>2. QED
    BY <1>1, <2>1, PassKeepsObject DEF CacheInv
<1>6. CASE Finish
  BY <1>6 DEF Finish, CacheInv
<1>7. CASE Fail
  BY <1>7 DEF Fail, CacheInv, relayVars
<1>8. CASE UNCHANGED vars
  BY <1>8 DEF vars, CacheInv, relayVars
<1>9. QED
  BY <1>2, <1>3, <1>4, <1>5, <1>6, <1>7, <1>8 DEF Next, Step, Ended

\* What is put into the cache is what the client was sent, whatever the sizes of the
\* response and of the object (proxy.c:91-109, cache.c:60-70).
THEOREM CacheHoldsWhatWasSent == Spec => []CachedAsSent
<1>1. Init => CacheInv
  BY DEF Init, CacheInv
<1>2. CacheInv => CachedAsSent
  BY DEF CacheInv, CachedAsSent
<1>3. QED
  BY <1>1, <1>2, AlwaysTyped, CacheStep, PTL DEF Spec
-----------------------------------------------------------------------------
(* The order of the bytes.                                                 *)

Received == sent \o usrbuf \o rio = SubSeq(stream, 1, pos)

\* While do_proxy reads lines, no end of the header has been sent, and none is a
\* line feed away: a line that ends in "nl", "cr" would have ended at the "nl".
NotYet == pc \in {"request", "status", "header"} => \A i \in HeaderEnds : i >= Len(sent) + 2

OrderInv == HeaderEnds # {} =>
    /\ pc = "fault" \/ Received \/ (pc = "done" /\ sent = <<"err">>)
    /\ NotYet

LEMMA EndsInStream ==
  ASSUME TypeOK, NEW i \in HeaderEnds
  PROVE  /\ i \in 3 .. Len(stream) /\ Len(stream) \in Nat
         /\ stream[i - 2] = "nl" /\ stream[i - 1] = "cr" /\ stream[i] = "nl"
<1>1. i \in 3 .. Len(stream) /\ SubSeq(stream, i - 2, i) = <<"nl", "cr", "nl">>
  BY DEF HeaderEnds
<1>2. stream \in Seq(Byte) /\ Len(stream) \in Nat
  BY Empty DEF TypeOK, RioTypeOK
<1>3. PICK m \in Nat : i = m + 2 /\ i - 2 = m /\ i - 1 = m + 1
  BY <1>1, <1>2
<1>4. m \in 1 .. Len(stream) + 1 /\ m + 2 \in m - 1 .. Len(stream) /\ (m + 2) - m + 1 = 3
  BY <1>1, <1>2, <1>3
<1>5. \A j \in 1 .. 3 : SubSeq(stream, m, m + 2)[j] = stream[m + j - 1]
  BY <1>2, <1>4, Part
<1>6. SubSeq(stream, m, m + 2) = <<"nl", "cr", "nl">>
  BY <1>1, <1>3
<1>7. stream[m + 1 - 1] = "nl" /\ stream[m + 2 - 1] = "cr" /\ stream[m + 3 - 1] = "nl"
  <2>1. PICK t : /\ t = <<"nl", "cr", "nl">>
                 /\ \A j \in 1 .. 3 : t[j] = stream[m + j - 1]
    BY <1>5, <1>6
  <2>2. t[1] = "nl" /\ t[2] = "cr" /\ t[3] = "nl"
    BY <2>1
  <2>3. t[1] = stream[m + 1 - 1] /\ t[2] = stream[m + 2 - 1] /\ t[3] = stream[m + 3 - 1]
    BY <2>1
  <2>4. QED
    BY <2>2, <2>3
<1>8. m + 1 - 1 = m /\ m + 2 - 1 = m + 1 /\ m + 3 - 1 = m + 2
  OBVIOUS
<1>9. stream[m] = "nl" /\ stream[m + 1] = "cr" /\ stream[m + 2] = "nl"
  BY <1>7, <1>8
<1>10. QED
  BY <1>1, <1>2, <1>3, <1>9

\* What Received says of single bytes.
LEMMA ReceivedBytes ==
  ASSUME TypeOK, Received
  PROVE  /\ Len(sent) \in Nat /\ Len(usrbuf) \in Nat /\ Len(rio) \in Nat /\ Len(stream) \in Nat
         /\ Len(sent) + Len(usrbuf) + Len(rio) = pos /\ pos <= Len(stream)
         /\ \A i \in 1 .. Len(sent) : sent[i] = stream[i]
         /\ \A i \in 1 .. Len(usrbuf) : usrbuf[i] = stream[Len(sent) + i]
<1>1. /\ stream \in Seq(Byte) /\ sent \in Seq(Byte) /\ usrbuf \in Seq(Byte) /\ rio \in Seq(Byte)
      /\ pos \in 0 .. Len(stream)
  BY DEF TypeOK, RioTypeOK
<1>2. /\ Len(sent) \in Nat /\ Len(usrbuf) \in Nat /\ Len(rio) \in Nat /\ Len(stream) \in Nat
  BY <1>1, Empty
<1> DEFINE a == sent \o usrbuf
           b == SubSeq(stream, 1, pos)
<1>3. /\ a \in Seq(Byte) /\ Len(a) = Len(sent) + Len(usrbuf)
      /\ \A i \in 1 .. Len(sent) + Len(usrbuf) :
            a[i] = IF i <= Len(sent) THEN sent[i] ELSE usrbuf[i - Len(sent)]
  BY <1>1, ConcatProperties
<1>4. /\ Len(b) = pos /\ \A i \in 1 .. pos : b[i] = stream[i]
  <2>1. 1 \in 1 .. Len(stream) + 1 /\ pos \in 1 - 1 .. Len(stream) /\ pos - 1 + 1 = pos
    BY <1>1, <1>2
  <2>2. \A i \in 1 .. pos : 1 + i - 1 = i
    BY <1>1, <1>2
  <2>3. Len(b) = pos - 1 + 1 /\ \A i \in 1 .. pos - 1 + 1 : b[i] = stream[1 + i - 1]
    BY <1>1, <2>1, Part
  <2>4. QED
    BY <2>1, <2>2, <2>3
<1>5. b = a \o rio
  BY DEF Received
<1> HIDE DEF a, b
<1>6. /\ Len(b) = Len(a) + Len(rio)
      /\ \A i \in 1 .. Len(a) + Len(rio) : b[i] = IF i <= Len(a) THEN a[i] ELSE rio[i - Len(a)]
  BY <1>1, <1>3, <1>5, ConcatProperties
<1>7. Len(sent) + Len(usrbuf) + Len(rio) = pos /\ pos <= Len(stream)
  BY <1>1, <1>2, <1>3, <1>4, <1>6
<1>8. \A i \in 1 .. Len(sent) : sent[i] = stream[i]
  <2>1. TAKE i \in 1 .. Len(sent)
  <2>2. /\ i \in 1 .. pos /\ i \in 1 .. Len(a) + Len(rio) /\ i <= Len(a)
        /\ i \in 1 .. Len(sent) + Len(usrbuf) /\ i <= Len(sent)
    BY <1>2, <1>3, <1>7
  <2>3. b[i] = stream[i] /\ b[i] = a[i] /\ a[i] = sent[i]
    BY <1>3, <1>4, <1>6, <2>2
  <2>4. QED
    BY <2>3
<1>9. \A i \in 1 .. Len(usrbuf) : usrbuf[i] = stream[Len(sent) + i]
  <2>1. TAKE i \in 1 .. Len(usrbuf)
  <2> DEFINE j == Len(sent) + i
  <2>2. /\ j \in 1 .. pos /\ j \in 1 .. Len(a) + Len(rio) /\ j <= Len(a)
        /\ j \in 1 .. Len(sent) + Len(usrbuf) /\ ~ (j <= Len(sent)) /\ j - Len(sent) = i
    BY <1>2, <1>3, <1>7
  <2> HIDE DEF j
  <2>3. b[j] = stream[j] /\ b[j] = a[j] /\ a[j] = usrbuf[i]
    BY <1>3, <1>4, <1>6, <2>2
  <2>4. QED
    BY <2>3 DEF j
<1>10. QED
  BY <1>2, <1>7, <1>8, <1>9

\* A line that is complete is never the one before, left in the buffer at the end of
\* the file, while an end of the header is still to come.
LEMMA LineIsFresh ==
  ASSUME TypeOK, Received, NotYet, HeaderEnds # {}, LineReady
  PROVE  usrbuf # <<>> /\ Line = usrbuf
<1>1. PICK i : i \in HeaderEnds
  OBVIOUS
<1>2. i \in 3 .. Len(stream) /\ i >= Len(sent) + 2
  BY <1>1, EndsInStream DEF NotYet, LineReady
<1>3. SUFFICES ASSUME usrbuf = <<>> PROVE FALSE
  BY DEF Line
<1>4. Len(usrbuf) = 0 /\ ~ LineFull
  BY <1>3, EmptySeq, RioAssumption DEF LineFull
<1>5. Len(rio) = 0 /\ pos = Len(stream)
  BY <1>4, EmptySeq DEF LineReady, Eof
<1>6. QED
  BY <1>2, <1>4, <1>5, ReceivedBytes

\* Once a complete line that is not the empty one has been sent, the next end of the
\* header is at least two bytes away.
LEMMA LineLeavesEnds ==
  ASSUME TypeInv, Received, NotYet, MAXLINE > 2, LineReady, NEW i \in HeaderEnds,
         usrbuf # <<>>, usrbuf # EmptyLine
  PROVE  i >= Len(sent) + Len(usrbuf) + 2
<1> DEFINE n == Len(usrbuf)
           m == Len(sent)
<1>1. TypeOK /\ LineFits /\ pc \in {"status", "header"} /\ (LineFull \/ Eof)
  BY DEF TypeInv, LineReady
<1>2. usrbuf \in Seq(Byte) /\ MAXLINE \in Nat
  BY <1>1, RioAssumption DEF TypeOK, RioTypeOK
<1>3. n \in Nat \ {0}
  BY <1>2, Empty
<1>4. /\ m \in Nat /\ Len(rio) \in Nat /\ m + n + Len(rio) = pos /\ pos <= Len(stream)
      /\ \A k \in 1 .. n : usrbuf[k] = stream[m + k]
  BY <1>1, ReceivedBytes
<1>5. /\ i \in 3 .. Len(stream) /\ Len(stream) \in Nat /\ i >= m + 2
      /\ stream[i - 2] = "nl" /\ stream[i - 1] = "cr" /\ stream[i] = "nl"
  BY <1>1, EndsInStream DEF NotYet
<1>6. \A k \in 1 .. n - 1 : usrbuf[k] # "nl"
  BY <1>1 DEF LineFits
<1>7. SUFFICES ASSUME i < m + n + 2 PROVE FALSE
  BY <1>3, <1>4, <1>5
<1>8. CASE i > m + 2
  <2>1. PICK k \in Int : m + k = i - 2
    <3>1. i - 2 - m \in Int /\ m + (i - 2 - m) = i - 2
      BY <1>4, <1>5
    <3>2. QED
      BY <3>1
  <2>2. k \in 1 .. n - 1 /\ k \in 1 .. n
    BY <1>3, <1>4, <1>5, <1>7, <1>8, <2>1
  <2>3. usrbuf[k] = stream[m + k] /\ usrbuf[k] # "nl"
    BY <1>4, <1>6, <2>2
  <2>4. QED
    BY <1>5, <2>1, <2>3
<1>9. CASE i = m + 2
  <2>1. stream[m + 1] = "cr" /\ stream[m + 2] = "nl"
    BY <1>4, <1>5, <1>9
  <2>2. CASE n = 1
    <3>1. usrbuf[1] = "cr"
      BY <1>4, <2>1, <2>2
    <3>2. ~ LineFull
      BY <1>2, <2>2, <3>1 DEF LineFull
    <3>3. Len(rio) = 0 /\ pos = Len(stream)
      BY <1>1, <3>2, EmptySeq DEF Eof
    <3>4. QED
      BY <1>4, <1>5, <1>9, <2>2, <3>3
  <2>3. CASE n = 2
    <3>1. usrbuf[1] = "cr" /\ usrbuf[2] = "nl"
      BY <1>4, <2>1, <2>3
    <3>2. usrbuf = <<"cr", "nl">>
      <4>1. EmptyLine \in Seq(Byte) /\ Len(EmptyLine) = 2
        BY RelayAssumption DEF EmptyLine
      <4>2. \A k \in 1 .. Len(usrbuf) : usrbuf[k] = EmptyLine[k]
        BY <2>3, <3>1 DEF EmptyLine
      <4>3. QED
        BY <1>2, <2>3, <4>1, <4>2, SeqEqual DEF EmptyLine
    <3>3. QED
      BY <3>2 DEF EmptyLine
  <2>4. CASE n > 2
    <3>1. 2 \in 1 .. n - 1 /\ 2 \in 1 .. n
      BY <1>3, <2>4
    <3>2. QED
      BY <1>4, <1>6, <2>1, <3>1
  <2>5. n = 1 \/ n = 2 \/ n > 2
    <3>1. \A k \in Nat \ {0} : k = 1 \/ k = 2 \/ k > 2
      OBVIOUS
    <3>2. QED
      BY <1>3, <3>1
  <2>6. QED
    BY <2>2, <2>3, <2>4, <2>5
<1>10. i = m + 2 \/ i > m + 2
  <2>1. i \in Int /\ m \in Int /\ i >= m + 2
    BY <1>4, <1>5
  <2>2. QED
    BY <2>1
<1>11. QED
  BY <1>8, <1>9, <1>10

\* What is passed on leaves the caller's buffer and is appended to what was sent.
LEMMA PassKeepsOrder ==
  ASSUME TypeOK, Received, Pass(usrbuf), usrbuf' = <<>>, UNCHANGED <<stream, pos, rio>>
  PROVE  Received' /\ Len(sent') = Len(sent) + Len(usrbuf)
<1>1. usrbuf \in Seq(Byte)
  BY DEF TypeOK, RioTypeOK
<1>2. sent' = sent \o usrbuf /\ sent' \in Seq(Byte) /\ Len(sent') = Len(sent) + Len(usrbuf)
  BY <1>1, PassKeepsTypes
<1>3. sent' \o <<>> = sent'
  BY <1>2, ConcatEmptySeq
<1>4. QED
  BY <1>2, <1>3 DEF Received

LEMMA LinesKeepOrder ==
  ASSUME TypeInv, OrderInv, MAXLINE > 2, StatusLine \/ HeaderLine
  PROVE  OrderInv'
<1>1. UNCHANGED <<stream, pos, rio>> /\ HeaderEnds' = HeaderEnds
  BY DEF StatusLine, HeaderLine, HeaderEnds
<1>2. SUFFICES ASSUME HeaderEnds # {} PROVE Received' /\ NotYet'
  BY <1>1 DEF OrderInv
<1>3. TypeOK /\ Received /\ NotYet /\ LineReady
  BY <1>2 DEF TypeInv, OrderInv, StatusLine, HeaderLine
<1>4. usrbuf # <<>> /\ Line = usrbuf
  BY <1>2, <1>3, LineIsFresh
<1>5. /\ Pass(usrbuf) /\ usrbuf' = <<>> /\ pc' \in {"body", "header"}
      /\ pc' # "body" => usrbuf # EmptyLine
  BY <1>4 DEF StatusLine, HeaderLine
<1>6. Received' /\ Len(sent') = Len(sent) + Len(usrbuf)
  BY <1>1, <1>3, <1>5, PassKeepsOrder
<1>7. NotYet'
  <2>1. SUFFICES ASSUME pc' # "body", NEW i \in HeaderEnds
                 PROVE  i >= Len(sent') + 2
    BY <1>1, <1>5 DEF NotYet
  <2>2. i >= Len(sent) + Len(usrbuf) + 2
    BY <1>3, <1>4, <1>5, <2>1, LineLeavesEnds
  <2>3. QED
    BY <1>6, <2>2
<1>8. QED
  BY <1>6, <1>7

LEMMA RequestKeepsOrder ==
  ASSUME TypeInv, OrderInv, Request
  PROVE  OrderInv'
<1>1. PICK r \in Requests :
         IF r = "method" \/ parse_uri(r) = "error"
         THEN clienterror
         ELSE pc' = parse_uri(r) /\ UNCHANGED <<rioVars, relayVars>>
  BY DEF Request
<1>2. pc = "request" /\ sent = <<>>
  BY DEF Request, TypeInv, Fresh
<1>3. CASE r = "method" \/ parse_uri(r) = "error"
  <2>1. sent' = <<>> \o <<"err">> /\ pc' = "done"
    BY <1>1, <1>2, <1>3 DEF clienterror, Writen
  <2>2. <<"err">> \in Seq(Byte)
    BY RelayAssumption
  <2>3. <<>> \o <<"err">> = <<"err">>
    BY <2>2, ConcatEmptySeq
  <2>4. QED
    BY <2>1, <2>3 DEF OrderInv, NotYet
<1>4. CASE ~ (r = "method" \/ parse_uri(r) = "error")
  <2>1. pc' \in {"fault", "status"} /\ UNCHANGED <<rioVars, relayVars>>
    BY <1>1, <1>4 DEF parse_uri, Requests
  <2>2. HeaderEnds' = HeaderEnds /\ UNCHANGED <<sent, usrbuf, rio, stream, pos>>
    BY <2>1 DEF HeaderEnds, rioVars, relayVars
  <2>3. QED
    BY <1>2, <2>1, <2>2 DEF OrderInv, NotYet, Received
<1>5. QED
  BY <1>3, <1>4

LEMMA ReadsKeepOrder ==
  ASSUME TypeInv, OrderInv, Read \/ Take
  PROVE  OrderInv'
<1>1. UNCHANGED <<stream, pc, relayVars>> /\ pc \in {"status", "header", "body"}
  BY DEF Read, Take, Refill, Copy, Reading
<1>2. HeaderEnds' = HeaderEnds /\ sent' = sent
  BY <1>1 DEF HeaderEnds, relayVars
<1>3. SUFFICES ASSUME HeaderEnds # {} PROVE Received'
  BY <1>1, <1>2 DEF OrderInv, NotYet
<1>4. Received /\ TypeOK
  BY <1>1, <1>3 DEF OrderInv, TypeInv
<1>5. /\ sent \in Seq(Byte) /\ usrbuf \in Seq(Byte) /\ rio \in Seq(Byte)
      /\ sent \o usrbuf \in Seq(Byte)
  BY <1>4, ConcatProperties DEF TypeOK, RioTypeOK
<1>6. CASE Read
  <2>1. Refill /\ RioTypeOK /\ rio = <<>> /\ usrbuf' = usrbuf
    BY <1>4, <1>6 DEF Read, Refill, TypeOK
  <2>2. SubSeq(stream, 1, pos) \o rio' = SubSeq(stream, 1, pos')
    BY <2>1, RefillReads
  <2>3. sent \o usrbuf = SubSeq(stream, 1, pos)
    BY <1>4, <1>5, <2>1, ConcatEmptySeq DEF Received
  <2>4. QED
    BY <1>1, <1>2, <2>1, <2>2, <2>3 DEF Received
<1>7. CASE Take
  <2>1. /\ rio' \in Seq(Byte) /\ usrbuf' \in Seq(Byte) /\ usrbuf' \o rio' = usrbuf \o rio
        /\ pos' = pos
    BY <1>7, TakeMoves
  <2>2. /\ sent \in Seq(Byte) /\ usrbuf \in Seq(Byte) /\ rio \in Seq(Byte)
        /\ rio' \in Seq(Byte) /\ usrbuf' \in Seq(Byte)
    BY <1>5, <2>1
  <2>3. (sent \o usrbuf') \o rio' = sent \o (usrbuf' \o rio')
    <3>1. PICK s \in Seq(Byte), u \in Seq(Byte), v \in Seq(Byte) :
            s = sent /\ u = usrbuf' /\ v = rio'
      BY <2>2
    <3>2. (s \o u) \o v = s \o (u \o v)
      BY ConcatAssociative
    <3>3. QED
      BY <3>1, <3>2
  <2>4. (sent \o usrbuf) \o rio = sent \o (usrbuf \o rio)
    <3>1. PICK s \in Seq(Byte), u \in Seq(Byte), v \in Seq(Byte) :
            s = sent /\ u = usrbuf /\ v = rio
      BY <2>2
    <3>2. (s \o u) \o v = s \o (u \o v)
      BY ConcatAssociative
    <3>3. QED
      BY <3>1, <3>2
  <2>5. QED
    BY <1>1, <1>2, <1>4, <2>1, <2>3, <2>4 DEF Received
<1>8. QED
  BY <1>6, <1>7

LEMMA OrderStep ==
  ASSUME TypeInv, OrderInv, MAXLINE > 2, [Next]_vars
  PROVE  OrderInv'
<1>1. CASE HeaderFault
  BY <1>1 DEF HeaderFault, OrderInv, NotYet
<1>2. CASE BodyChunk
  <2>1. /\ UNCHANGED <<stream, pos, rio, pc>> /\ usrbuf' = <<>> /\ Pass(usrbuf)
        /\ pc = "body" /\ TypeOK
    BY <1>2 DEF BodyChunk, TypeInv
  <2>2. HeaderEnds' = HeaderEnds
    BY <2>1 DEF HeaderEnds
  <2>3. QED
    BY <2>1, <2>2, PassKeepsOrder DEF OrderInv, NotYet
<1>3. CASE Finish \/ Fail
  <2>1. UNCHANGED <<rioVars, sent>> /\ pc' \in {"done", "exited"} /\ pc \notin {"fault", "done"}
    BY <1>3 DEF Finish, Fail, relayVars
  <2>2. HeaderEnds' = HeaderEnds /\ (Received' <=> Received)
    BY <2>1 DEF HeaderEnds, Received, rioVars
  <2>3. QED
    BY <2>1, <2>2 DEF OrderInv, NotYet
<1>4. CASE UNCHANGED vars
  <2>1. HeaderEnds' = HeaderEnds /\ (Received' <=> Received) /\ (NotYet' <=> NotYet)
    BY <1>4 DEF HeaderEnds, Received, NotYet, vars, rioVars, relayVars
  <2>2. QED
    BY <1>4, <2>1 DEF OrderInv, vars, relayVars
<1>5. QED
  BY <1>1, <1>2, <1>3, <1>4, RequestKeepsOrder, ReadsKeepOrder, LinesKeepOrder
  DEF Next, Step, Ended

LEMMA OrderStart ==
  ASSUME Init
  PROVE  OrderInv
<1>1. TypeOK
  BY TypeStart DEF TypeInv
<1>2. /\ pos = 0 /\ rio = <<>> /\ usrbuf = <<>> /\ sent = <<>>
  BY DEF Init, RioInit
<1>3. sent \o usrbuf \o rio = <<>>
  BY <1>2
<1>4. SubSeq(stream, 1, pos) = <<>>
  BY <1>2, SubSeqEmpty
<1>5. NotYet
  BY <1>1, <1>2, EmptySeq, EndsInStream DEF NotYet
<1>6. QED
  BY <1>3, <1>4, <1>5 DEF OrderInv, Received

\* If a line holds more than one byte, MAXLINE is 8192, no byte of a response whose
\* header ends is lost, repeated or reordered between read, rio_buf, the caller's
\* buffer and the client (csapp.c:794-883, proxy.c:91-109).
THEOREM BytesKeepTheirOrder == MAXLINE > 2 /\ Spec => []InOrder
<1> SUFFICES ASSUME MAXLINE > 2 PROVE Spec => []InOrder
  OBVIOUS
<1>1. OrderInv => InOrder
  BY DEF OrderInv, InOrder, Received
<1>2. Init => OrderInv
  BY OrderStart
<1>3. TypeInv /\ OrderInv /\ [Next]_vars => OrderInv'
  BY OrderStep
<1>4. QED
  BY <1>1, <1>2, <1>3, AlwaysTyped, PTL DEF Spec
-----------------------------------------------------------------------------
(* A well-formed response.                                                 *)

\* The first bytes of the lines of a Content-length field among the first n bytes,
\* the status line aside.
Fields(n) == {i \in 2 .. n : stream[i - 1] = "nl" /\ stream[i] = "len"}

\* Lines that fit the buffer end in "nl": each begins where a line of the header
\* begins, and the last field that has been sent has set content_len.
AtLine == pc \in {"request", "status", "header"} =>
    /\ sent = <<>> <=> pc # "header"
    /\ sent # <<>> => stream[Len(sent)] = "nl"
    /\ Fields(Len(sent)) # {} => content_len = Length

\* content_len counts the bytes that have not been sent.
InBody == pc = "body" => Len(sent) + content_len = Len(stream)

WholeInv == WellFormed => /\ AtLine /\ InBody
                          /\ ~ clientOpen => sent = stream

LEMMA HeaderEndIsEnd ==
  ASSUME TypeOK, HeaderEnds # {}
  PROVE  HeaderEnd \in HeaderEnds /\ \A i \in HeaderEnds : HeaderEnd <= i
<1>1. stream \in Seq(Byte) /\ Len(stream) \in Nat
  BY Empty DEF TypeOK, RioTypeOK
<1>2. HeaderEnds \subseteq Nat
  BY <1>1 DEF HeaderEnds
<1>3. \E x \in HeaderEnds : \A y \in HeaderEnds : x <= y
  BY <1>2, Least
<1>4. QED
  BY <1>3 DEF HeaderEnd, Min

\* Every line of the header ends in its "nl": it has one before the buffer is full.
LEMMA LineEndsInNewline ==
  ASSUME TypeInv, Received, NotYet, WellFormed, LineReady
  PROVE  usrbuf[Len(usrbuf)] = "nl"
<1> DEFINE n == Len(usrbuf)
           m == Len(sent)
           h == HeaderEnd
<1>1. /\ TypeOK /\ HeaderEnds # {} /\ (LineFull \/ Eof)
      /\ MAXLINE \in Nat /\ pc \in {"status", "header"}
  BY RioAssumption DEF TypeInv, WellFormed, LineReady
<1>2. usrbuf # <<>> /\ usrbuf \in Seq(Byte)
  BY <1>1, LineIsFresh DEF TypeOK, RioTypeOK
<1>3. n \in Nat \ {0}
  BY <1>2, Empty
<1>4. /\ m \in Nat /\ Len(rio) \in Nat /\ m + n + Len(rio) = pos /\ pos <= Len(stream)
      /\ \A k \in 1 .. n : usrbuf[k] = stream[m + k]
  BY <1>1, ReceivedBytes
<1>5. /\ h \in HeaderEnds /\ h \in 3 .. Len(stream) /\ Len(stream) \in Nat
      /\ stream[h] = "nl" /\ h >= m + 2
  BY <1>1, HeaderEndIsEnd, EndsInStream DEF NotYet
<1>6. \A k \in 1 .. n - 1 : usrbuf[k] # "nl"
  BY <1>1 DEF LineFits, TypeInv
<1>7. SUFFICES ASSUME usrbuf[n] # "nl" PROVE FALSE
  OBVIOUS
<1>8. \A k \in 1 .. n : usrbuf[k] # "nl"
  BY <1>3, <1>6, <1>7
<1>9. h > m + n
  <2>1. SUFFICES ASSUME h <= m + n PROVE FALSE
    BY <1>3, <1>4, <1>5
  <2>2. PICK k \in 1 .. n : m + k = h
    <3>1. h - m \in 1 .. n /\ m + (h - m) = h
      BY <1>3, <1>4, <1>5, <2>1
    <3>2. QED
      BY <3>1
  <2>3. QED
    BY <1>4, <1>5, <1>8, <2>2
<1>10. CASE LineFull
  <2>1. n = MAXLINE - 1
    BY <1>7, <1>10 DEF LineFull
  <2>2. m + 1 \in 1 .. h - MAXLINE + 2
    BY <1>1, <1>4, <1>5, <1>9, <2>1
  <2>3. PICK j \in m + 1 .. (m + 1) + MAXLINE - 2 : stream[j] = "nl"
    BY <2>2 DEF WellFormed
  <2>4. PICK k \in 1 .. n : m + k = j
    <3>1. j - m \in 1 .. n /\ m + (j - m) = j
      BY <1>1, <1>3, <1>4, <2>1, <2>3
    <3>2. QED
      BY <3>1
  <2>5. QED
    BY <1>4, <1>8, <2>3, <2>4
<1>11. CASE ~ LineFull
  <2>1. Len(rio) = 0 /\ pos = Len(stream)
    BY <1>1, <1>11, EmptySeq DEF Eof
  <2>2. QED
    BY <1>3, <1>4, <1>5, <1>9, <2>1
<1>12. QED
  BY <1>10, <1>11

\* A field begins where a line begins.
LEMMA FieldsStartLines ==
  ASSUME TypeInv, Received, LineReady, NEW i \in Fields(Len(sent) + Len(usrbuf)),
         i \notin Fields(Len(sent))
  PROVE  i = Len(sent) + 1 /\ sent # <<>> /\ usrbuf[1] = "len"
<1> DEFINE n == Len(usrbuf)
           m == Len(sent)
<1>1. TypeOK /\ LineFits /\ pc \in {"status", "header"} /\ sent \in Seq(Byte)
  BY DEF TypeInv, LineReady, TypeOK
<1>2. m \in Nat /\ n \in Nat /\ \A k \in 1 .. n : usrbuf[k] = stream[m + k]
  BY <1>1, ReceivedBytes
<1>3. i \in 2 .. m + n /\ stream[i - 1] = "nl" /\ stream[i] = "len" /\ i \notin 2 .. m
  BY DEF Fields
<1>4. i > m /\ n > 0
  BY <1>2, <1>3
<1>5. CASE i = m + 1
  <2>1. 1 \in 1 .. n /\ m # 0
    BY <1>2, <1>3, <1>4, <1>5
  <2>2. QED
    BY <1>1, <1>2, <1>3, <1>5, <2>1, Empty
<1>6. CASE i > m + 1
  <2>1. PICK k \in Int : m + k = i - 1
    <3>1. i - 1 - m \in Int /\ m + (i - 1 - m) = i - 1
      BY <1>2, <1>3
    <3>2. QED
      BY <3>1
  <2>2. k \in 1 .. n - 1 /\ k \in 1 .. n
    BY <1>2, <1>3, <1>6, <2>1
  <2>3. usrbuf[k] = stream[m + k] /\ usrbuf[k] # "nl"
    BY <1>1, <1>2, <2>2 DEF LineFits
  <2>4. QED
    BY <1>3, <2>1, <2>3
<1>7. QED
  BY <1>2, <1>3, <1>4, <1>5, <1>6

\* The empty line of a well-formed response is the first end of the header.
LEMMA EmptyLineIsEnd ==
  ASSUME TypeInv, Received, NotYet, WellFormed, AtLine, LineReady, usrbuf = EmptyLine
  PROVE  sent # <<>> /\ HeaderEnd = Len(sent) + 2
<1> DEFINE m == Len(sent)
<1>1. /\ TypeOK /\ pc \in {"status", "header"} /\ sent \in Seq(Byte) /\ stream \in Seq(Byte)
      /\ HeaderEnds # {}
  BY DEF TypeInv, LineReady, TypeOK, RioTypeOK, WellFormed
<1>2. Len(usrbuf) = 2 /\ usrbuf[1] = "cr" /\ usrbuf[2] = "nl"
  BY DEF EmptyLine
<1>3. /\ m \in Nat /\ Len(stream) \in Nat /\ m + 2 <= Len(stream)
      /\ usrbuf[1] = stream[m + 1] /\ usrbuf[2] = stream[m + 2]
  <2>1. /\ m \in Nat /\ Len(stream) \in Nat /\ Len(rio) \in Nat /\ m + 2 + Len(rio) = pos
        /\ pos <= Len(stream) /\ \A k \in 1 .. 2 : usrbuf[k] = stream[m + k]
    BY <1>1, <1>2, ReceivedBytes
  <2>2. QED
    BY <2>1
<1>4. stream[m + 1] = "cr" /\ stream[m + 2] = "nl"
  BY <1>2, <1>3
<1>5. sent # <<>>
  <2>1. SUFFICES ASSUME sent = <<>> PROVE FALSE
    OBVIOUS
  <2>2. m = 0
    BY <2>1, EmptySeq
  <2>3. stream[1] = "cr" /\ stream[2] = "nl" /\ 2 <= Len(stream)
    BY <1>3, <1>4, <2>2
  <2>4. PICK s : s = SubSeq(stream, 1, 2)
    OBVIOUS
  <2>5. /\ s \in Seq(Byte) /\ Len(s) = 2 - 1 + 1
        /\ \A k \in 1 .. 2 - 1 + 1 : s[k] = stream[1 + k - 1]
    BY <1>1, <1>3, <2>3, <2>4, Part
  <2>6. s[1] = stream[1] /\ s[2] = stream[2] /\ Len(s) = 2
    BY <2>5
  <2>7. \A k \in 1 .. Len(s) : s[k] = usrbuf[k]
    BY <1>2, <2>3, <2>6
  <2>8. s = usrbuf
    BY <1>1, <1>2, <2>5, <2>6, <2>7, SeqEqual DEF TypeOK, RioTypeOK
  <2>9. QED
    BY <2>4, <2>8 DEF WellFormed
<1>6. m \in Nat \ {0} /\ stream[m] = "nl"
  BY <1>1, <1>5, Empty DEF AtLine
<1>7. m + 2 \in HeaderEnds
  <2>1. m + 2 \in 3 .. Len(stream) /\ (m + 2) - 2 = m
    BY <1>3, <1>6
  <2>2. m \in 1 .. Len(stream) + 1 /\ m + 2 \in m - 1 .. Len(stream) /\ (m + 2) - m + 1 = 3
    BY <1>3, <1>6
  <2>3. PICK s : s = SubSeq(stream, m, m + 2)
    OBVIOUS
  <2>4. s \in Seq(Byte) /\ Len(s) = 3 /\ \A k \in 1 .. 3 : s[k] = stream[m + k - 1]
    BY <1>1, <2>2, <2>3, Part
  <2>5. m + 1 - 1 = m /\ m + 2 - 1 = m + 1 /\ m + 3 - 1 = m + 2
    BY <1>3
  <2>6. s[1] = stream[m] /\ s[2] = stream[m + 1] /\ s[3] = stream[m + 2]
    <3>1. s[1] = stream[m + 1 - 1] /\ s[2] = stream[m + 2 - 1] /\ s[3] = stream[m + 3 - 1]
      BY <2>4
    <3>2. QED
      BY <2>5, <3>1
  <2>7. PICK t \in Seq(Byte) : t = <<"nl", "cr", "nl">>
    <3>1. "nl" \in Byte /\ "cr" \in Byte
      BY RelayAssumption
    <3>2. <<"nl", "cr", "nl">> \in Seq(Byte)
      BY <3>1
    <3>3. QED
      BY <3>2
  <2>8. Len(t) = 3 /\ t[1] = "nl" /\ t[2] = "cr" /\ t[3] = "nl"
    BY <2>7
  <2>9. \A k \in 1 .. Len(s) : s[k] = t[k]
    BY <1>4, <1>6, <2>4, <2>6, <2>8
  <2>10. s = t
    BY <2>4, <2>7, <2>8, <2>9, SeqEqual
  <2>11. SubSeq(stream, (m + 2) - 2, m + 2) = <<"nl", "cr", "nl">>
    BY <2>1, <2>3, <2>7, <2>10
  <2>12. QED
    BY <2>1, <2>11 DEF HeaderEnds
<1>8. HeaderEnd \in Int /\ HeaderEnd <= m + 2 /\ HeaderEnd >= m + 2
  <2>1. HeaderEnd \in HeaderEnds /\ HeaderEnd <= m + 2
    BY <1>1, <1>7, HeaderEndIsEnd
  <2>2. HeaderEnd \in 3 .. Len(stream)
    BY <1>1, <2>1, EndsInStream
  <2>3. QED
    BY <1>1, <1>3, <2>1, <2>2 DEF NotYet
<1>9. HeaderEnd = m + 2
  BY <1>3, <1>8
<1>10. QED
  BY <1>5, <1>9

LEMMA LinesKeepWhole ==
  ASSUME TypeInv, OrderInv, WholeInv, StatusLine \/ HeaderLine
  PROVE  WholeInv'
<1> DEFINE n == Len(usrbuf)
           m == Len(sent)
<1>1. /\ UNCHANGED <<stream, pos, rio, clientOpen>> /\ pc \in {"status", "header"} /\ LineReady
      /\ pc' = IF Line = EmptyLine THEN "body" ELSE "header"
  BY DEF StatusLine, HeaderLine
<1>2. (WellFormed' <=> WellFormed) /\ \A k : Fields(k)' = Fields(k)
  BY <1>1 DEF WellFormed, HeaderEnd, HeaderEnds, Fields
<1>3. SUFFICES ASSUME WellFormed PROVE AtLine' /\ InBody' /\ (~ clientOpen' => sent' = stream')
  BY <1>2 DEF WholeInv
<1>4. TypeOK /\ Received /\ NotYet /\ AtLine /\ HeaderEnds # {} /\ clientOpen = TRUE
  BY <1>1, <1>3 DEF TypeInv, OrderInv, WholeInv, WellFormed, Open, TypeOK
<1>5. usrbuf # <<>> /\ Line = usrbuf /\ usrbuf \in Seq(Byte) /\ sent \in Seq(Byte)
  BY <1>1, <1>4, LineIsFresh DEF TypeOK, RioTypeOK
<1>6. Pass(usrbuf) /\ usrbuf' = <<>>
  BY <1>5 DEF StatusLine, HeaderLine
<1>7. Len(sent') = m + n /\ m \in Nat /\ n \in Nat \ {0} /\ sent' \in Seq(Byte)
  BY <1>1, <1>4, <1>5, <1>6, PassKeepsOrder, PassKeepsTypes, Empty
<1>8. sent' # <<>>
  BY <1>7, EmptySeq
<1>9. stream[m + n] = "nl"
  <2>1. usrbuf[n] = "nl"
    BY <1>1, <1>3, <1>4, LineEndsInNewline
  <2>2. n \in 1 .. n /\ usrbuf[n] = stream[m + n]
    BY <1>4, <1>7, ReceivedBytes
  <2>3. QED
    BY <2>1, <2>2
<1>10. Fields(m + n) # {} => content_len' = Length
  <2>1. SUFFICES ASSUME NEW i \in Fields(m + n) PROVE content_len' = Length
    OBVIOUS
  <2>2. CASE i \in Fields(m)
    <3>1. content_len = Length
      BY <1>1, <1>4, <2>2 DEF AtLine
    <3>2. QED
      BY <3>1 DEF StatusLine, HeaderLine
  <2>3. CASE i \notin Fields(m)
    <3>1. sent # <<>> /\ usrbuf[1] = "len"
      BY <1>1, <1>4, <2>1, <2>3, FieldsStartLines
    <3>2. HeaderLine
      BY <1>4, <3>1 DEF AtLine, StatusLine
    <3>3. QED
      BY <1>5, <3>1, <3>2 DEF HeaderLine
  <2>4. QED
    BY <2>2, <2>3
<1>11. AtLine'
  <2>1. SUFFICES ASSUME pc' # "body"
                 PROVE  pc' = "header" /\ stream[Len(sent')] = "nl"
                        /\ (Fields(Len(sent')) # {} => content_len' = Length)
    BY <1>1, <1>2, <1>8 DEF AtLine
  <2>2. QED
    BY <1>1, <1>7, <1>9, <1>10, <2>1
<1>12. InBody'
  <2>1. SUFFICES ASSUME Line = EmptyLine PROVE Len(sent') + content_len' = Len(stream)
    BY <1>1 DEF InBody
  <2>2. usrbuf = EmptyLine
    BY <1>5, <2>1
  <2>3. HeaderEnd = m + 2 /\ n = 2
    BY <1>1, <1>3, <1>4, <2>2, EmptyLineIsEnd DEF EmptyLine
  <2>4. PICK i \in 2 .. HeaderEnd : stream[i - 1] = "nl" /\ stream[i] = "len"
    BY <1>3 DEF WellFormed
  <2>5. i \in Fields(m + n)
    BY <2>3, <2>4 DEF Fields
  <2>6. content_len' = Length
    BY <1>10, <2>5
  <2>7. QED
    BY <1>3, <1>7, <2>3, <2>6 DEF WellFormed
<1>13. QED
  BY <1>1, <1>4, <1>11, <1>12

LEMMA ChunkKeepsWhole ==
  ASSUME TypeInv, OrderInv, WholeInv, BodyChunk
  PROVE  WholeInv'
<1> DEFINE n == Len(usrbuf)
           m == Len(sent)
<1>1. /\ UNCHANGED <<stream, pos, rio, pc, clientOpen>> /\ pc = "body"
      /\ Pass(usrbuf) /\ usrbuf' = <<>> /\ content_len' = Left(n)
  BY DEF BodyChunk
<1>2. WellFormed' <=> WellFormed
  BY <1>1 DEF WellFormed, HeaderEnd, HeaderEnds
<1>3. SUFFICES ASSUME WellFormed PROVE InBody' /\ clientOpen'
  BY <1>1, <1>2 DEF WholeInv, AtLine
<1>4. TypeOK /\ Received /\ InBody /\ clientOpen
  BY <1>1, <1>3 DEF TypeInv, OrderInv, WholeInv, WellFormed, Open, TypeOK
<1>5. Len(sent') = m + n
  BY <1>1, <1>4, PassKeepsOrder
<1>6. /\ m \in Nat /\ n \in Nat /\ Len(stream) \in Nat /\ m + n <= Len(stream)
      /\ m + content_len = Len(stream) /\ content_len \in 0 .. SizeMod - 1
  <2>1. /\ m \in Nat /\ n \in Nat /\ Len(rio) \in Nat /\ Len(stream) \in Nat
        /\ m + n + Len(rio) = pos /\ pos <= Len(stream)
    BY <1>4, ReceivedBytes
  <2>2. m + n <= Len(stream)
    BY <2>1
  <2>3. QED
    BY <1>1, <1>4, <2>1, <2>2 DEF InBody, TypeOK
<1>7. content_len' = content_len - n
  <2>1. content_len - n \in 0 .. SizeMod - 1 /\ SizeMod \in Nat \ {0}
    BY <1>6, RelayAssumption
  <2>2. \A a \in 0 .. SizeMod - 1 : a % SizeMod = a
    BY <2>1
  <2>3. QED
    BY <1>1, <2>1, <2>2 DEF Left
<1>8. QED
  BY <1>1, <1>4, <1>5, <1>6, <1>7 DEF InBody

LEMMA FinishSendsWhole ==
  ASSUME TypeInv, OrderInv, WholeInv, WellFormed, Finish
  PROVE  sent = stream
<1>1. TypeOK /\ Received /\ InBody /\ pc = "body" /\ BodyDone
  BY DEF TypeInv, OrderInv, WholeInv, WellFormed, Finish
<1>2. /\ Len(sent) \in Nat /\ Len(usrbuf) \in Nat /\ Len(rio) \in Nat /\ Len(stream) \in Nat
      /\ Len(sent) + Len(usrbuf) + Len(rio) = pos /\ pos <= Len(stream)
      /\ \A i \in 1 .. Len(sent) : sent[i] = stream[i]
  BY <1>1, ReceivedBytes
<1>3. Len(sent) = Len(stream)
  <2>1. CASE content_len = 0
    BY <1>1, <1>2, <2>1 DEF InBody
  <2>2. CASE usrbuf = <<>> /\ Eof
    <3>1. Len(usrbuf) = 0 /\ Len(rio) = 0 /\ pos = Len(stream)
      BY <2>2, EmptySeq DEF Eof
    <3>2. QED
      BY <1>2, <3>1
  <2>3. QED
    BY <1>1, <2>1, <2>2 DEF BodyDone
<1>4. sent \in Seq(Byte) /\ stream \in Seq(Byte)
  BY <1>1 DEF TypeOK, RioTypeOK
<1>5. QED
  BY <1>2, <1>3, <1>4, SeqEqual

LEMMA RequestKeepsWhole ==
  ASSUME TypeInv, WholeInv, Request
  PROVE  WholeInv'
<1>1. PICK r \in Requests :
         IF r = "method" \/ parse_uri(r) = "error"
         THEN clienterror
         ELSE pc' = parse_uri(r) /\ UNCHANGED <<rioVars, relayVars>>
  BY DEF Request
<1>2. pc = "request" /\ TypeOK /\ clientOpen
  BY DEF Request, TypeInv, TypeOK, Open
<1>3. /\ UNCHANGED <<rioVars, content_len, clientOpen>>
      /\ pc' \in {"done", "fault", "status"} /\ (pc' = "status" => sent' = sent)
  BY <1>1 DEF clienterror, parse_uri, Requests, relayVars
<1>4. (WellFormed' <=> WellFormed) /\ \A k : Fields(k)' = Fields(k)
  BY <1>3 DEF WellFormed, HeaderEnd, HeaderEnds, Fields, rioVars
<1>5. QED
  BY <1>2, <1>3, <1>4 DEF WholeInv, AtLine, InBody, rioVars

LEMMA WholeStep ==
  ASSUME TypeInv, OrderInv, WholeInv, [Next]_vars
  PROVE  WholeInv'
<1>1. CASE Read \/ Take
  <2>1. UNCHANGED <<stream, pc, sent, content_len, clientOpen>>
    BY <1>1 DEF Read, Take, Refill, Copy, relayVars
  <2>2. (WellFormed' <=> WellFormed) /\ \A k : Fields(k)' = Fields(k)
    BY <2>1 DEF WellFormed, HeaderEnd, HeaderEnds, Fields
  <2>3. QED
    BY <2>1, <2>2 DEF WholeInv, AtLine, InBody
<1>2. CASE HeaderFault \/ Fail
  <2>1. UNCHANGED <<stream, clientOpen>> /\ pc' \in {"fault", "exited"} /\ pc # "done"
    BY <1>2 DEF HeaderFault, Fail, rioVars, relayVars
  <2>2. WellFormed' <=> WellFormed
    BY <2>1 DEF WellFormed, HeaderEnd, HeaderEnds
  <2>3. QED
    BY <2>1, <2>2 DEF WholeInv, AtLine, InBody, TypeInv, Open
<1>3. CASE Finish
  <2>1. UNCHANGED <<stream, sent>> /\ pc' = "done"
    BY <1>3 DEF Finish, rioVars
  <2>2. WellFormed' <=> WellFormed
    BY <2>1 DEF WellFormed, HeaderEnd, HeaderEnds
  <2>3. QED
    BY <1>3, <2>1, <2>2, FinishSendsWhole DEF WholeInv, AtLine, InBody
<1>4. CASE UNCHANGED vars
  <2>1. UNCHANGED <<stream, pc, sent, content_len, clientOpen>>
    BY <1>4 DEF vars, rioVars, relayVars
  <2>2. (WellFormed' <=> WellFormed) /\ \A k : Fields(k)' = Fields(k)
    BY <2>1 DEF WellFormed, HeaderEnd, HeaderEnds, Fields
  <2>3. QED
    BY <2>1, <2>2 DEF WholeInv, AtLine, InBody
<1>5. QED
  BY <1>1, <1>2, <1>3, <1>4, RequestKeepsWhole, LinesKeepWhole, ChunkKeepsWhole
  DEF Next, Step, Ended

LEMMA WholeStart ==
  ASSUME Init
  PROVE  WholeInv
<1>1. /\ pc = "request" /\ sent = <<>> /\ clientOpen = TRUE
      /\ Len(sent) = 0
  BY EmptySeq DEF Init
<1>2. Fields(0) = {}
  BY DEF Fields
<1>3. QED
  BY <1>1, <1>2 DEF WholeInv, AtLine, InBody

\* A client that has sent a request whose response is well-formed has got all of it
\* when its connection is closed, however the bytes arrive (proxy.c:91-116).
THEOREM ResponsesArriveWhole == MAXLINE > 2 /\ Spec => []WholeResponse
<1> SUFFICES ASSUME MAXLINE > 2 PROVE Spec => []WholeResponse
  OBVIOUS
<1>1. WholeInv => WholeResponse
  BY DEF WholeInv, WholeResponse
<1>2. Init => OrderInv /\ WholeInv
  BY OrderStart, WholeStart
<1>3. TypeInv /\ OrderInv /\ WholeInv /\ [Next]_vars => OrderInv' /\ WholeInv'
  BY OrderStep, WholeStep
<1>4. QED
  BY <1>1, <1>2, <1>3, AlwaysTyped, PTL DEF Spec
-----------------------------------------------------------------------------
(* The relay ends.                                                         *)

\* What is left to do: each byte of the stream goes into rio_buf, into the caller's
\* buffer and out of it; the phases of do_proxy follow each other.
Phase == CASE pc = "request" -> 4 [] pc = "status" -> 3 [] pc = "header" -> 2
           [] pc = "body" -> 1 [] OTHER -> 0
ToDo == 3 * (Len(stream) - pos) + 2 * Len(rio) + Len(usrbuf) + Phase

Relaying == pc \in {"status", "header", "body"} /\ HeaderEnds # {}

\* Every step of the relay leaves less to do, and none reads through the NULL that
\* strchr returns for a line that has been cut.
Advances == [][Relaying => ToDo \in Nat /\ ToDo' < ToDo /\ pc' # "fault"]_vars

LEMMA ToDoParts ==
  ASSUME TypeOK
  PROVE  /\ Len(stream) \in Nat /\ pos \in Nat /\ pos <= Len(stream)
         /\ Len(rio) \in Nat /\ Len(usrbuf) \in Nat /\ Phase \in 0 .. 4 /\ ToDo \in Nat
<1>1. Len(stream) \in Nat /\ Len(rio) \in Nat /\ Len(usrbuf) \in Nat /\ pos \in 0 .. Len(stream)
  BY Empty DEF TypeOK, RioTypeOK
<1>2. Phase \in 0 .. 4
  BY DEF Phase
<1>3. QED
  BY <1>1, <1>2 DEF ToDo

\* Names for the parts, for the provers.
LEMMA LessToDo ==
  ASSUME TypeOK, TypeOK', stream' = stream,
         \/ pos' = pos /\ Len(rio') = Len(rio) /\ Len(usrbuf') <= Len(usrbuf) /\ Phase' < Phase
         \/ /\ pos' = pos /\ Len(rio') = Len(rio)
            /\ Len(usrbuf') < Len(usrbuf) /\ Phase' <= Phase
         \/ /\ pos' = pos /\ Phase' = Phase
            /\ \E c \in Nat \ {0} : Len(rio') = Len(rio) - c /\ Len(usrbuf') = Len(usrbuf) + c
         \/ /\ Len(usrbuf') = Len(usrbuf) /\ Phase' = Phase /\ Len(rio) = 0
            /\ \E k \in Nat \ {0} : pos' = pos + k /\ Len(rio') = k
  PROVE  ToDo' < ToDo
<1>1. PICK n \in Nat, p \in Nat, r \in Nat, u \in Nat, h \in 0 .. 4 :
         n = Len(stream) /\ p = pos /\ r = Len(rio) /\ u = Len(usrbuf) /\ h = Phase
  BY ToDoParts
<1>2. /\ Len(stream') \in Nat /\ pos' \in Nat /\ Len(rio') \in Nat /\ Len(usrbuf') \in Nat
      /\ Phase' \in 0 .. 4
  <2>1. /\ Len(stream') \in Nat /\ pos' \in 0 .. Len(stream')
        /\ Len(rio') \in Nat /\ Len(usrbuf') \in Nat
    BY Empty DEF TypeOK, RioTypeOK
  <2>2. Phase' \in 0 .. 4
    BY DEF Phase
  <2>3. QED
    BY <2>1, <2>2
<1>3. PICK q \in Nat, s \in Nat, v \in Nat, g \in 0 .. 4 :
         q = pos' /\ s = Len(rio') /\ v = Len(usrbuf') /\ g = Phase'
  BY <1>2
<1>4. ToDo = 3 * (n - p) + 2 * r + u + h /\ ToDo' = 3 * (n - q) + 2 * s + v + g
  BY <1>1, <1>3 DEF ToDo
<1>5. \/ q = p /\ s = r /\ v <= u /\ g < h
      \/ q = p /\ s = r /\ v < u /\ g <= h
      \/ q = p /\ g = h /\ \E c \in Nat \ {0} : s = r - c /\ v = u + c
      \/ v = u /\ g = h /\ r = 0 /\ \E k \in Nat \ {0} : q = p + k /\ s = k
  BY <1>1, <1>3
<1>6. QED
  BY <1>4, <1>5

\* The line that is returned is one that the server has sent.
LEMMA LineIsSent ==
  ASSUME TypeOK, stream \in Responses, Received, NotYet, HeaderEnds # {}, LineReady
  PROVE  usrbuf # <<>> /\ Line[1] # "key"
<1>1. usrbuf # <<>> /\ Line = usrbuf
  BY LineIsFresh
<1>2. Len(usrbuf) \in Nat \ {0}
  BY <1>1, Empty DEF TypeOK, RioTypeOK
<1>3. Line[1] = stream[Len(sent) + 1] /\ Len(sent) + 1 \in 1 .. Len(stream)
  BY <1>1, <1>2, ReceivedBytes
<1>4. stream \in Seq({"cr", "nl", "len", "x"})
  BY RelayAssumption
<1>5. stream[Len(sent) + 1] \in {"cr", "nl", "len", "x"}
  BY <1>3, <1>4, ElementOfSeq
<1>6. QED
  BY <1>1, <1>3, <1>5

LEMMA StepAdvances ==
  ASSUME TypeInv, TypeOK', OrderInv, stream \in Responses, Relaying, Next, vars' # vars
  PROVE  ToDo' < ToDo /\ pc' # "fault"
<1>1. TypeOK /\ Received /\ NotYet /\ HeaderEnds # {} /\ pc \in {"status", "header", "body"}
  BY DEF TypeInv, OrderInv, Relaying
<1>2. /\ Len(rio) \in Nat /\ Len(usrbuf) \in Nat /\ Phase \in 1 .. 3
      /\ Len(<<>>) = 0
  <2>1. Phase \in 1 .. 3
    BY <1>1 DEF Phase
  <2>2. QED
    BY <1>1, <2>1, ToDoParts, EmptySeq
<1>3. CASE Read
  <2>1. /\ Refill /\ pc' = pc /\ stream' = stream /\ usrbuf' = usrbuf /\ rio = <<>>
        /\ RioTypeOK
    BY <1>1, <1>3 DEF Read, Refill, TypeOK
  <2>2. PICK k \in Nat \ {0} : pos' = pos + k /\ Len(rio') = k
    <3>1. /\ pos \in Nat /\ pos < Len(stream) /\ Len(stream) \in Nat /\ stream \in Seq(Byte)
          /\ RIO_BUFSIZE \in Nat \ {0}
      BY <1>1, <2>1, ToDoParts, RioAssumption DEF Refill, RioTypeOK
    <3>2. PICK k \in 1 .. Min({RIO_BUFSIZE, Len(stream) - pos}) :
             rio' = SubSeq(stream, pos + 1, pos + k) /\ pos' = pos + k
      BY <2>1 DEF Refill
    <3>3. Min({RIO_BUFSIZE, Len(stream) - pos}) =
             IF RIO_BUFSIZE <= Len(stream) - pos THEN RIO_BUFSIZE ELSE Len(stream) - pos
      BY <3>1, MinOfTwo
    <3>4. k \in Nat \ {0} /\ pos + k <= Len(stream)
      BY <3>1, <3>2, <3>3
    <3>5. Len(rio') = k
      BY <3>1, <3>2, <3>4, Part
    <3>6. QED
      BY <3>2, <3>4, <3>5
  <2>3. Phase' = Phase /\ Len(rio) = 0
    BY <1>2, <2>1 DEF Phase
  <2>4. QED
    BY <1>1, <2>1, <2>2, <2>3, LessToDo
<1>4. CASE Take
  <2>1. RioTypeOK /\ Reading /\ Copy(Wanted) /\ LineFits
    BY <1>1, <1>4 DEF Take, Wanted, TypeOK, TypeInv
  <2>2. Wanted \in Nat \ {0}
    BY <1>1, <1>2, <2>1, RioAssumption DEF Reading, ChunkFull, Wanted, RioTypeOK
  <2>3. PICK c \in 1 .. Wanted : Len(rio') = Len(rio) - c /\ Len(usrbuf') = Len(usrbuf) + c
    BY <2>1, <2>2, CopyMoves
  <2>4. stream' = stream /\ pos' = pos /\ pc' = pc
    BY <1>4 DEF Take, Copy
  <2>5. Phase' = Phase /\ c \in Nat \ {0}
    BY <2>2, <2>3, <2>4 DEF Phase
  <2>6. QED
    BY <1>1, <2>3, <2>4, <2>5, LessToDo
<1>5. CASE StatusLine \/ HeaderLine
  <2>1. LineReady /\ usrbuf' = <<>> /\ UNCHANGED <<stream, pos, rio>>
    BY <1>5 DEF StatusLine, HeaderLine
  <2>2. Len(usrbuf') < Len(usrbuf)
    BY <1>1, <1>2, <2>1, LineIsFresh, Empty DEF TypeOK, RioTypeOK
  <2>3. Phase' <= Phase /\ pc' \in {"header", "body"}
    BY <1>5 DEF StatusLine, HeaderLine, Phase
  <2>4. QED
    BY <1>1, <2>1, <2>2, <2>3, LessToDo
<1>6. CASE HeaderFault
  BY <1>1, <1>6, LineIsSent DEF HeaderFault
<1>7. CASE BodyChunk
  <2>1. usrbuf # <<>> /\ usrbuf' = <<>> /\ UNCHANGED <<stream, pos, rio, pc>>
    BY <1>7 DEF BodyChunk
  <2>2. Len(usrbuf') < Len(usrbuf) /\ Phase' = Phase
    BY <1>1, <1>2, <2>1, Empty DEF TypeOK, RioTypeOK, Phase
  <2>3. QED
    BY <1>1, <1>2, <2>1, <2>2, LessToDo
<1>8. CASE Finish \/ Fail
  <2>1. UNCHANGED rioVars /\ pc' \in {"done", "exited"}
    BY <1>8 DEF Finish, Fail
  <2>2. Phase' = 0 /\ UNCHANGED <<stream, pos, rio, usrbuf>>
    BY <2>1 DEF Phase, rioVars
  <2>3. QED
    BY <1>1, <1>2, <2>1, <2>2, LessToDo
<1>9. ~ Request /\ ~ Ended
  BY <1>1 DEF Request, Ended
<1>10. QED
  BY <1>3, <1>4, <1>5, <1>6, <1>7, <1>8, <1>9 DEF Next, Step

LEMMA StreamIsResponse == Spec => [](stream \in Responses)
<1>1. stream \in Responses /\ [Next]_vars => (stream \in Responses)'
  BY DEF Next, Step, Request, clienterror, Read, Refill, Take, Copy, StatusLine, HeaderLine,
         HeaderFault, BodyChunk, Finish, Fail, Ended, rioVars, vars
<1>2. QED
  BY <1>1, PTL DEF Spec, Init

\* Once the status line is read, do_proxy takes at most 3 steps for each byte of a
\* response whose header ends, and a few more, until it has closed the connection or a
\* call has failed: no read at the end of the file, no Content-length and no wrap of the
\* unsigned content_len (proxy.c:91-116) makes it go round without getting on.  That is
\* the measure behind RelayEnds.
THEOREM RelayAdvances == MAXLINE > 2 /\ Spec => Advances
<1> SUFFICES ASSUME MAXLINE > 2 PROVE Spec => Advances
  OBVIOUS
<1>1. TypeInv /\ TypeInv' /\ OrderInv /\ stream \in Responses /\ [Next]_vars
      => [Relaying => ToDo \in Nat /\ ToDo' < ToDo /\ pc' # "fault"]_vars
  BY StepAdvances, ToDoParts DEF TypeInv
<1>2. Init => OrderInv
  BY OrderStart
<1>3. TypeInv /\ OrderInv /\ [Next]_vars => OrderInv'
  BY OrderStep
<1>4. QED
  BY <1>1, <1>2, <1>3, AlwaysTyped, StreamIsResponse, PTL DEF Spec, Advances
=============================================================================
