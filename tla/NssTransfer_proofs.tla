------------------------ MODULE NssTransfer_proofs ------------------------
(***************************************************************************)
(* What both ways of getting a document into memory guarantee for every    *)
(* document, every division of it and every size of the buffer.            *)
(***************************************************************************)
EXTENDS NssTransfer, WellFoundedInduction, TLAPS

-----------------------------------------------------------------------------
(* Facts about the operators of the model                                  *)

\* What arrives at once is a sequence of bytes that the bound has room for.
LEMMA PieceIsSequence ==
  ASSUME doc \in Seq(Bytes), Len(doc) <= MaxLength, NEW piece \in Pieces
  PROVE  /\ piece \in Seq(Bytes)
         /\ Len(piece) \in 1 .. MaxLength - Len(doc)
         /\ doc \o piece \in Seq(Bytes)
         /\ Len(doc \o piece) = Len(doc) + Len(piece)
         /\ Len(doc \o piece) <= MaxLength
<1>1. PICK k \in 1 .. MaxLength - Len(doc) : piece \in [1 .. k -> Bytes]
  BY DEF Pieces
<1>2. Len(doc) \in Nat /\ MaxLength \in Nat
  BY TransferAssumption
<1>3. k \in Nat
  BY <1>1, <1>2
<1>4. piece \in Seq(Bytes) /\ Len(piece) = k
  BY <1>1, <1>3
<1> QED BY <1>1, <1>2, <1>4

\* The rounded length has room for n bytes and a NUL.
LEMMA NewLengthSuffices ==
  ASSUME NEW n \in Nat
  PROVE  NewLength(n) \in Nat /\ n < NewLength(n)
<1> DEFINE q == n \div BUFSIZE
<1>1. BUFSIZE \in Nat /\ BUFSIZE > 0
  BY TransferAssumption
<1>2. q \in Nat /\ n = BUFSIZE * q + (n % BUFSIZE) /\ n % BUFSIZE < BUFSIZE /\ n % BUFSIZE \in Nat
  BY <1>1
<1>3. NewLength(n) = (1 + q) * BUFSIZE
  BY DEF NewLength
<1>4. (1 + q) * BUFSIZE = BUFSIZE + BUFSIZE * q
  <2> HIDE DEF q
  <2> QED BY <1>1, <1>2
<1>5. BUFSIZE * q \in Nat
  <2> HIDE DEF q
  <2> QED BY <1>1, <1>2
<1> HIDE DEF q
<1> QED BY <1>1, <1>2, <1>3, <1>4, <1>5

\* A non-empty set of natural numbers has a least element.
LEMMA MinIsLeast ==
  ASSUME NEW S \in SUBSET Nat, S # {}
  PROVE  Min(S) \in S /\ \A y \in S : Min(S) <= y
<1>1. PICK x \in S : \A y \in S : ~ (<<y, x>> \in OpToRel(<, Nat))
  BY NatLessThanWellFounded, WFMin
<1>2. \A y \in S : ~ (y < x)
  BY <1>1 DEF OpToRel
<1>3. \E z \in S : \A y \in S : z <= y
  BY <1>2
<1> QED BY <1>3 DEF Min

\* A string of bytes with a NUL at m ends at the first NUL: it has no byte
\* but characters, and if there is no NUL before m it is all that is before m.
LEMMA StringEnds ==
  ASSUME NEW s \in Seq(Bytes \cup {JUNK}), NEW m \in 1 .. Len(s), s[m] = NUL,
         \A i \in 1 .. m - 1 : s[i] \in Bytes
  PROVE  /\ CString(s) \in Seq(Chars)
         /\ (\A i \in 1 .. m - 1 : s[i] # NUL) => CString(s) = SubSeq(s, 1, m - 1)
<1> DEFINE first == Min(Ends(s))
<1>1. Ends(s) \in SUBSET Nat /\ m \in Ends(s)
  BY DEF Ends
<1>2. first \in Ends(s) /\ \A y \in Ends(s) : first <= y
  BY <1>1, MinIsLeast
<1>3. first \in 1 .. m /\ s[first] = NUL
  BY <1>1, <1>2 DEF Ends
<1>4. CString(s) = SubSeq(s, 1, first - 1)
  BY <1>1 DEF CString
<1> HIDE DEF first
<1>5. ASSUME NEW i \in 1 .. first - 1 PROVE s[i] \in Chars
  <2>1. i \in DOMAIN s /\ i \in 1 .. m - 1 /\ i < first
    BY <1>3
  <2>2. s[i] # NUL
    BY <2>1, <1>2, <1>3 DEF Ends
  <2> QED BY <2>1, <2>2 DEF Bytes
<1>6. SubSeq(s, 1, first - 1) \in Seq(Chars)
  <2>1. SubSeq(s, 1, first - 1) = [i \in 1 .. first - 1 |-> s[i]]
    BY <1>3
  <2>2. first - 1 \in Nat
    BY <1>3
  <2> QED BY <1>5, <2>1, <2>2
<1>7. (\A i \in 1 .. m - 1 : s[i] # NUL) => first = m
  BY <1>3
<1> QED BY <1>4, <1>6, <1>7

\* A line that fgets returns, as the string that it is.
LEMMA LineIsString ==
  ASSUME NEW l \in Seq(Bytes)
  PROVE  /\ CString(l) \in Seq(Chars)
         /\ Len(CString(l)) <= Len(l)
         /\ NUL \notin {l[i] : i \in DOMAIN l} => CString(l) = l
<1>1. CASE Ends(l) = {}
  <2>1. \A i \in 1 .. Len(l) : l[i] \in Chars
    BY <1>1 DEF Ends, Bytes
  <2>2. l \in Seq(Chars)
    BY <2>1
  <2> QED BY <1>1, <2>2 DEF CString
<1>2. CASE Ends(l) # {}
  <2>1. Ends(l) \in SUBSET Nat
    BY DEF Ends
  <2>2. Min(Ends(l)) \in Ends(l) /\ \A y \in Ends(l) : Min(Ends(l)) <= y
    BY <1>2, <2>1, MinIsLeast
  <2> DEFINE first == Min(Ends(l))
  <2>3. first \in 1 .. Len(l) /\ l[first] = NUL
    BY <2>2 DEF Ends
  <2>4. l \in Seq(Bytes \cup {JUNK})
    OBVIOUS
  <2>5. CString(l) \in Seq(Chars)
    <3> HIDE DEF first
    <3> QED BY <2>3, <2>4, StringEnds
  <2>6. CString(l) = SubSeq(l, 1, first - 1)
    BY <1>2 DEF CString
  <2>7. Len(CString(l)) <= Len(l)
    <3> HIDE DEF first
    <3> QED BY <2>3, <2>6
  <2>8. NUL \in {l[i] : i \in DOMAIN l}
    <3> HIDE DEF first
    <3> QED BY <2>3
  <2> QED BY <2>5, <2>7, <2>8
<1> QED BY <1>1, <1>2

-----------------------------------------------------------------------------
(* The inductive invariant                                                 *)

\* While a document arrives there is no answer yet.
NoAnswerYet ==
  stage \in {"init", "curl", "fgets", "eof", "read"} => response = NIL

\* writefunc keeps what has arrived, and a NUL behind it.
CurlHoldsAll ==
  /\ stage = "init" => doc = <<>> /\ len = 0
  /\ stage = "curl" => ptr = doc \o <<NUL>> /\ len = Len(doc)

\* read_data has copied len characters, and has room for a NUL behind them.
\* They are all that has arrived, unless a NUL was among that.
HeldUpTo(n) ==
  /\ n <= Len(doc)
  /\ ptr # NIL =>
       /\ n < Len(ptr)
       /\ \A i \in 1 .. n : ptr[i] \in Chars
       /\ (NUL \notin {doc[i] : i \in DOMAIN doc})
            => n = Len(doc) /\ \A i \in 1 .. n : ptr[i] = doc[i]

ReadHoldsAll ==
  /\ stage \in {"fgets", "eof", "read"} => HeldUpTo(len)
  /\ stage = "read" /\ ptr # NIL => ptr[len + 1] = NUL /\ whole

\* Only malloc and realloc leave read_data without a buffer.
MissingBuffer ==
  /\ stage \in {"fgets", "eof"} /\ ptr = NIL => refused
  /\ stage = "crashed" => refused

\* The request in flight owns its buffer and the rendered request.
BufferOwned ==
  stage = "curl" \/ (stage \in {"fgets", "eof", "read"} /\ ptr # NIL)

Accounts ==
  /\ rendered => stage \in {"init", "curl", "cleanup", "exited"}
  /\ stage \notin {"exited", "crashed"} =>
       blocks = failures + (IF rendered THEN 1 ELSE 0) + (IF BufferOwned THEN 1 ELSE 0)

IInv ==
  /\ TransferOK /\ NoAnswerYet /\ CurlHoldsAll /\ ReadHoldsAll /\ MissingBuffer
  /\ DocumentIsWhole /\ Accounts

-----------------------------------------------------------------------------
(* The invariant is inductive                                              *)

\* Nothing is in flight at the start.
LEMMA InvariantInit == TransferInit => IInv
<1> SUFFICES ASSUME TransferInit PROVE IInv
  OBVIOUS
<1>1. TransferOK
  <2>1. ControlOK
    BY TransferAssumption DEF TransferInit, TransferOK, ControlOK, DataOK, CountsOK
  <2>2. DataOK
    BY TransferAssumption DEF TransferInit, TransferOK, ControlOK, DataOK, CountsOK
  <2>3. CountsOK
    BY TransferAssumption DEF TransferInit, TransferOK, ControlOK, DataOK, CountsOK
  <2> QED BY <2>1, <2>2, <2>3 DEF TransferOK
<1>2. DocumentIsWhole
  BY DEF TransferInit, DocumentIsWhole
<1>3. NoAnswerYet /\ CurlHoldsAll /\ ReadHoldsAll /\ MissingBuffer /\ Accounts
  BY DEF TransferInit, NoAnswerYet, CurlHoldsAll, ReadHoldsAll, MissingBuffer, Accounts, BufferOwned
<1> QED BY <1>1, <1>2, <1>3 DEF IInv

\* A request begins with or without memory for its rendering.
LEMMA StepRender == ASSUME IInv, Render PROVE IInv'
<1> USE DEF IInv, Render, Begins
<1>1. TransferOK'
  <2>1. ControlOK'
    BY TransferAssumption DEF TransferOK, ControlOK, DataOK, CountsOK
  <2>2. DataOK'
    BY TransferAssumption DEF TransferOK, ControlOK, DataOK, CountsOK
  <2>3. CountsOK'
    BY TransferAssumption DEF TransferOK, ControlOK, DataOK, CountsOK
  <2> QED BY <2>1, <2>2, <2>3 DEF TransferOK
<1>2. DocumentIsWhole' /\ NoAnswerYet' /\ CurlHoldsAll' /\ ReadHoldsAll' /\ MissingBuffer'
  BY TransferAssumption
  DEF DocumentIsWhole, NoAnswerYet, CurlHoldsAll, ReadHoldsAll, MissingBuffer
<1>3. Accounts'
  BY DEF TransferOK, ControlOK, DataOK, CountsOK, Accounts, BufferOwned
<1> QED BY <1>1, <1>2, <1>3

\* The buffer is allocated, or the process exits.
LEMMA StepInitString == ASSUME IInv, InitString PROVE IInv'
<1> USE DEF IInv, InitString, outcome, history
<1>1. <<NUL>> \in Seq(Bytes \cup {JUNK})
  BY DEF Bytes
<1>2. TransferOK'
  <2>1. ControlOK'
    BY <1>1 DEF TransferOK, ControlOK, DataOK, CountsOK
  <2>2. DataOK'
    BY <1>1 DEF TransferOK, ControlOK, DataOK, CountsOK
  <2>3. CountsOK'
    BY <1>1 DEF TransferOK, ControlOK, DataOK, CountsOK
  <2> QED BY <2>1, <2>2, <2>3 DEF TransferOK
<1>3. CurlHoldsAll'
  BY DEF CurlHoldsAll
<1>4. DocumentIsWhole' /\ NoAnswerYet' /\ ReadHoldsAll' /\ MissingBuffer'
  BY DEF DocumentIsWhole, NoAnswerYet, ReadHoldsAll, MissingBuffer
<1>5. Accounts'
  BY DEF TransferOK, ControlOK, DataOK, CountsOK, Accounts, BufferOwned
<1> QED BY <1>2, <1>3, <1>4, <1>5

\* A piece goes behind what is there, and the NUL behind the piece.
LEMMA StepWriteFunc == ASSUME IInv, WriteFunc PROVE IInv'
<1> USE DEF IInv, buffer, outcome, history
<1>1. PICK piece \in Pieces :
        /\ doc' = doc \o piece
        /\ \/ ptr' = Appended(piece) /\ len' = len + Len(piece) /\ UNCHANGED <<stage, refused>>
           \/ stage' = "exited" /\ refused' = TRUE /\ UNCHANGED buffer
  BY DEF WriteFunc
<1>2. stage = "curl" /\ UNCHANGED <<rendered, blocks, outcome, whole, history>>
  BY DEF WriteFunc
<1>3. doc \in Seq(Bytes) /\ Len(doc) <= MaxLength
  BY DEF TransferOK, ControlOK, DataOK, CountsOK
<1>4. /\ piece \in Seq(Bytes)
      /\ doc' \in Seq(Bytes)
      /\ Len(doc') = Len(doc) + Len(piece)
      /\ Len(doc') <= MaxLength
  BY <1>1, <1>3, PieceIsSequence
<1>5. Appended(piece) = doc' \o <<NUL>>
  <2>1. ptr = doc \o <<NUL>> /\ len = Len(doc)
    BY <1>2 DEF CurlHoldsAll
  <2>2. SubSeq(doc \o <<NUL>>, 1, Len(doc)) = doc
    BY <1>3
  <2> QED BY <1>1, <2>1, <2>2 DEF Appended
<1>6. doc' \o <<NUL>> \in Seq(Bytes \cup {JUNK})
  BY <1>4 DEF Bytes
<1>7. TransferOK'
  <2>1. ControlOK'
    BY <1>1, <1>2, <1>4, <1>5, <1>6, TransferAssumption DEF CurlHoldsAll, TransferOK, ControlOK, DataOK, CountsOK
  <2>2. DataOK'
    <3>1. (ptr = NIL \/ ptr \in Seq(Bytes \cup {JUNK}))'
      BY <1>1, <1>5, <1>6 DEF TransferOK, DataOK
    <3>2. len = Len(doc)
      BY <1>2 DEF CurlHoldsAll
    <3>3. len \in 0 .. MaxLength /\ (len' = len \/ len' = Len(doc'))
      BY <1>1, <1>4, <3>2 DEF TransferOK, DataOK
    <3>4. (len \in 0 .. MaxLength)'
      BY <1>4, <3>3, TransferAssumption
    <3>5. (response = NIL \/ response \in Seq(Chars))'
      BY <1>2 DEF TransferOK, DataOK
    <3> QED BY <1>4, <3>1, <3>4, <3>5 DEF DataOK
  <2>3. CountsOK'
    BY <1>1, <1>2, <1>4, <1>5, <1>6, TransferAssumption DEF CurlHoldsAll, TransferOK, ControlOK, DataOK, CountsOK
  <2> QED BY <2>1, <2>2, <2>3 DEF TransferOK
<1>8. CurlHoldsAll'
  BY <1>1, <1>2, <1>4, <1>5 DEF CurlHoldsAll
<1>9. DocumentIsWhole' /\ NoAnswerYet' /\ ReadHoldsAll' /\ MissingBuffer'
  BY <1>1, <1>2 DEF DocumentIsWhole, NoAnswerYet, ReadHoldsAll, MissingBuffer
<1>10. Accounts'
  BY <1>1, <1>2 DEF Accounts, BufferOwned
<1> QED BY <1>7, <1>8, <1>9, <1>10

\* What is parsed is what has arrived, or its part in front of a NUL.
LEMMA StepTransferred == ASSUME IInv, Transferred PROVE IInv'
<1> USE DEF IInv, Transferred, Parse, buffer
<1>1. ptr = doc \o <<NUL>> /\ doc \in Seq(Bytes)
  BY DEF CurlHoldsAll, TransferOK, ControlOK, DataOK, CountsOK
<1>2. /\ CString(ptr) \in Seq(Chars)
      /\ NUL \notin {doc[i] : i \in DOMAIN doc} => CString(ptr) = doc
  <2> DEFINE m == Len(doc) + 1
  <2>1. ptr \in Seq(Bytes \cup {JUNK}) /\ m \in 1 .. Len(ptr) /\ ptr[m] = NUL
    BY <1>1 DEF Bytes
  <2>2. \A i \in 1 .. m - 1 : i \in DOMAIN doc /\ ptr[i] = doc[i] /\ ptr[i] \in Bytes
    BY <1>1
  <2>3. SubSeq(ptr, 1, m - 1) = doc
    BY <1>1
  <2> HIDE DEF m
  <2>4. /\ CString(ptr) \in Seq(Chars)
        /\ (\A i \in 1 .. m - 1 : ptr[i] # NUL) => CString(ptr) = SubSeq(ptr, 1, m - 1)
    BY <2>1, <2>2, StringEnds
  <2> QED BY <2>2, <2>3, <2>4
<1>3. TransferOK'
  <2>1. ControlOK'
    BY <1>2 DEF TransferOK, ControlOK, DataOK, CountsOK
  <2>2. DataOK'
    BY <1>2 DEF TransferOK, ControlOK, DataOK, CountsOK
  <2>3. CountsOK'
    <3>1. blocks = failures + (IF rendered THEN 1 ELSE 0) + 1 /\ failures \in Nat
      BY DEF TransferOK, CountsOK, Accounts, BufferOwned
    <3>2. blocks - 1 \in Nat /\ failures + 1 \in Nat
      BY <3>1
    <3> QED BY <3>2 DEF TransferOK, CountsOK
  <2> QED BY <2>1, <2>2, <2>3 DEF TransferOK
<1>4. DocumentIsWhole'
  BY <1>2 DEF DocumentIsWhole, NoAnswerYet
<1>5. NoAnswerYet' /\ CurlHoldsAll' /\ ReadHoldsAll' /\ MissingBuffer'
  BY DEF NoAnswerYet, CurlHoldsAll, ReadHoldsAll, MissingBuffer
<1>6. Accounts'
  BY DEF TransferOK, ControlOK, DataOK, CountsOK, Accounts, BufferOwned
<1> QED BY <1>3, <1>4, <1>5, <1>6

\* The rendered request is freed.
LEMMA StepCleanup == ASSUME IInv, Cleanup PROVE IInv'
<1> USE DEF IInv, Cleanup, buffer, history
<1>1. TransferOK'
  <2>1. ControlOK'
    BY DEF Accounts, BufferOwned, TransferOK, ControlOK, DataOK, CountsOK
  <2>2. DataOK'
    BY DEF Accounts, BufferOwned, TransferOK, ControlOK, DataOK, CountsOK
  <2>3. CountsOK'
    BY DEF Accounts, BufferOwned, TransferOK, ControlOK, DataOK, CountsOK
  <2> QED BY <2>1, <2>2, <2>3 DEF TransferOK
<1>2. DocumentIsWhole' /\ NoAnswerYet' /\ CurlHoldsAll' /\ ReadHoldsAll' /\ MissingBuffer'
  BY DEF DocumentIsWhole, NoAnswerYet, CurlHoldsAll, ReadHoldsAll, MissingBuffer
<1>3. Accounts'
  BY DEF TransferOK, ControlOK, DataOK, CountsOK, Accounts, BufferOwned
<1> QED BY <1>1, <1>2, <1>3

\* A script is started and a buffer allocated, or not.
LEMMA StepPopen == ASSUME IInv, Popen PROVE IInv'
<1> DEFINE first == [i \in 1 .. BUFSIZE |-> JUNK]
<1>1. first \in Seq(Bytes \cup {JUNK}) /\ Len(first) = BUFSIZE /\ BUFSIZE > 1
  BY TransferAssumption
<1>2. first # NIL
  BY <1>1, TransferAssumption
<1>3. /\ stage = "idle" /\ requests < MaxRequests /\ requests' = requests + 1
      /\ doc' = <<>> /\ whole' = FALSE /\ len' = 0 /\ response' = NIL /\ status' = NIL
      /\ UNCHANGED <<failures, rendered>>
  BY DEF Popen, Begins
<1>4. \/ stage' = "fgets" /\ ptr' = first /\ blocks' = blocks + 1 /\ refused' = FALSE
      \/ stage' = "fgets" /\ ptr' = NIL /\ blocks' = blocks /\ refused' = TRUE
      \/ stage' = "closed" /\ ptr' = NIL /\ blocks' = blocks /\ refused' = FALSE
  BY DEF Popen, Begins
<1> HIDE DEF first
<1> USE DEF IInv
<1>5. TransferOK'
  <2>1. ControlOK'
    BY <1>1, <1>3, <1>4, TransferAssumption DEF TransferOK, ControlOK, DataOK, CountsOK
  <2>2. DataOK'
    BY <1>1, <1>3, <1>4, TransferAssumption DEF TransferOK, ControlOK, DataOK, CountsOK
  <2>3. CountsOK'
    BY <1>1, <1>3, <1>4, TransferAssumption DEF TransferOK, ControlOK, DataOK, CountsOK
  <2> QED BY <2>1, <2>2, <2>3 DEF TransferOK
<1>6. ReadHoldsAll'
  BY <1>1, <1>3, <1>4 DEF ReadHoldsAll, HeldUpTo
<1>7. DocumentIsWhole' /\ NoAnswerYet' /\ CurlHoldsAll' /\ MissingBuffer'
  <2>1. DocumentIsWhole' /\ NoAnswerYet'
    BY <1>3 DEF DocumentIsWhole, NoAnswerYet
  <2>2. CurlHoldsAll' /\ MissingBuffer'
    BY <1>2, <1>4 DEF CurlHoldsAll, MissingBuffer
  <2> QED BY <2>1, <2>2
<1>8. Accounts'
  BY <1>2, <1>3, <1>4 DEF TransferOK, ControlOK, DataOK, CountsOK, Accounts, BufferOwned
<1> QED BY <1>5, <1>6, <1>7, <1>8

\* A buffer that is grown keeps what it holds, and has room for the NUL.
LEMMA GrownHasRoom ==
  ASSUME ptr \in Seq(Bytes \cup {JUNK}), NEW n \in Nat
  PROVE  /\ Grown(n) \in Seq(Bytes \cup {JUNK})
         /\ n < Len(Grown(n))
         /\ \A i \in DOMAIN ptr : i \in DOMAIN Grown(n) /\ Grown(n)[i] = ptr[i]
<1>1. CASE n < Len(ptr)
  BY <1>1 DEF Grown
<1>2. CASE ~(n < Len(ptr))
  <2>1. NewLength(n) \in Nat /\ n < NewLength(n)
    BY NewLengthSuffices
  <2> DEFINE size == NewLength(n)
  <2>2. Grown(n) = [i \in 1 .. size |-> IF i \in DOMAIN ptr THEN ptr[i] ELSE JUNK]
    BY <1>2 DEF Grown
  <2> HIDE DEF size
  <2>3. size \in Nat /\ n < size
    BY <2>1 DEF size
  <2>4. Len(ptr) \in Nat /\ Len(ptr) <= n /\ DOMAIN ptr = 1 .. Len(ptr)
    BY <1>2
  <2>5. Grown(n) \in [1 .. size -> Bytes \cup {JUNK}]
    BY <2>2, <2>4
  <2>6. Grown(n) \in Seq(Bytes \cup {JUNK}) /\ Len(Grown(n)) = size
    BY <2>3, <2>5
  <2> QED BY <2>2, <2>3, <2>4, <2>6
<1> QED BY <1>1, <1>2

\* A line is copied behind what is there, if there is still a buffer.
LEMMA StepReadData == ASSUME IInv, ReadData PROVE IInv'
<1>1. PICK line \in Fgets :
        /\ doc' = doc \o line
        /\ AppendLine(CString(line), IF IsCut(line) THEN "eof" ELSE "fgets")
  BY DEF ReadData
<1>2. stage = "fgets" /\ UNCHANGED <<rendered, response, status, whole, requests, failures>>
  BY DEF ReadData, outcome, history
<1> USE DEF IInv
<1>3. doc \in Seq(Bytes) /\ Len(doc) <= MaxLength /\ line \in Pieces
  BY DEF TransferOK, ControlOK, DataOK, CountsOK, Fgets
<1>4. /\ line \in Seq(Bytes)
      /\ doc' \in Seq(Bytes)
      /\ Len(doc') = Len(doc) + Len(line)
      /\ Len(doc') <= MaxLength
  BY <1>1, <1>3, PieceIsSequence
<1> DEFINE d == CString(line)
           next == IF IsCut(line) THEN "eof" ELSE "fgets"
<1>5. /\ d \in Seq(Chars)
      /\ Len(d) <= Len(line)
      /\ NUL \notin {line[i] : i \in DOMAIN line} => d = line
  BY <1>4, LineIsString
<1>6. next \in {"eof", "fgets"}
  OBVIOUS
<1>7. AppendLine(d, next)
  BY <1>1
<1> HIDE DEF d, next
<1>8. len \in Nat /\ HeldUpTo(len) /\ response = NIL /\ ~rendered
  BY <1>2 DEF TransferOK, ControlOK, DataOK, CountsOK, ReadHoldsAll, NoAnswerYet, Accounts
<1>9. NoAnswerYet' /\ DocumentIsWhole'
  BY <1>2, <1>8 DEF NoAnswerYet, DocumentIsWhole
<1>10. CASE ptr = NIL
  <2>1. stage' \in {"eof", "fgets", "crashed"} /\ UNCHANGED <<ptr, len, blocks, refused>>
    BY <1>6, <1>7, <1>10 DEF AppendLine, buffer
  <2>2. TransferOK'
    <3>1. ControlOK'
      BY <1>2, <1>4, <2>1 DEF TransferOK, ControlOK, DataOK, CountsOK
    <3>2. DataOK'
      BY <1>2, <1>4, <2>1 DEF TransferOK, ControlOK, DataOK, CountsOK
    <3>3. CountsOK'
      BY <1>2, <1>4, <2>1 DEF TransferOK, ControlOK, DataOK, CountsOK
    <3> QED BY <3>1, <3>2, <3>3 DEF TransferOK
  <2>3. CurlHoldsAll' /\ MissingBuffer' /\ Accounts'
    BY <1>2, <1>10, <2>1 DEF CurlHoldsAll, MissingBuffer, Accounts, BufferOwned
  <2>4. ReadHoldsAll'
    BY <1>4, <1>8, <1>10, <2>1, <1>3 DEF ReadHoldsAll, HeldUpTo
  <2> QED BY <1>9, <2>2, <2>3, <2>4
<1>11. ASSUME ptr # NIL,
              ptr' = Copied(Grown(len + Len(d)), d), len' = len + Len(d),
              stage' = IF len + Len(d) <= Len(Grown(len + Len(d))) THEN next ELSE "crashed",
              UNCHANGED <<blocks, refused>>
       PROVE  IInv'
  <2> DEFINE n == len + Len(d)
             s == Grown(n)
  <2>1. ptr \in Seq(Bytes \cup {JUNK})
    BY <1>11 DEF TransferOK, ControlOK, DataOK, CountsOK
  <2>2. n \in Nat /\ n <= Len(doc')
    BY <1>3, <1>4, <1>5, <1>8 DEF HeldUpTo
  <2>3. s \in Seq(Bytes \cup {JUNK}) /\ n < Len(s)
        /\ \A i \in DOMAIN ptr : i \in DOMAIN s /\ s[i] = ptr[i]
    <3> HIDE DEF n
    <3> QED BY <2>1, <2>2, GrownHasRoom
  <2>4. len' = n /\ ptr' = [i \in DOMAIN s |-> IF i - len \in DOMAIN d THEN d[i - len] ELSE s[i]]
    BY <1>11 DEF Copied
  <2>5. stage' = next
    <3>1. n <= Len(s)
      <4> HIDE DEF n, s
      <4> QED BY <2>2, <2>3
    <3> QED BY <1>11, <3>1
  <2>6. n = len + Len(d)
    OBVIOUS
  <2> HIDE DEF n, s
  <2>7. ASSUME NEW i \in DOMAIN s
        PROVE  ptr'[i] \in Bytes \cup {JUNK}
    <3>1. CASE i - len \in DOMAIN d
      BY <1>5, <2>4, <3>1 DEF Bytes
    <3>2. CASE i - len \notin DOMAIN d
      BY <2>3, <2>4, <3>2
    <3> QED BY <3>1, <3>2
  <2>8. ptr' \in Seq(Bytes \cup {JUNK}) /\ Len(ptr') = Len(s)
    <3>1. Len(s) \in Nat /\ DOMAIN s = 1 .. Len(s)
      BY <2>3
    <3>2. ptr' \in [1 .. Len(s) -> Bytes \cup {JUNK}]
      BY <2>4, <2>7, <3>1
    <3> QED BY <3>1, <3>2
  <2>9. ptr' # NIL
    BY <2>8, TransferAssumption
  <2>10. len < Len(ptr) /\ len <= Len(doc) /\ \A i \in 1 .. len : ptr[i] \in Chars
    BY <1>8, <1>11 DEF HeldUpTo
  <2>11. \A i \in 1 .. len : ptr'[i] = ptr[i]
    <3> SUFFICES ASSUME NEW i \in 1 .. len PROVE ptr'[i] = ptr[i]
      OBVIOUS
    <3>1. i \in DOMAIN ptr /\ i - len \notin DOMAIN d
      BY <1>5, <1>8, <2>1, <2>10
    <3> QED BY <2>3, <2>4, <3>1
  <2>12. \A i \in len + 1 .. n : i - len \in DOMAIN d /\ ptr'[i] = d[i - len]
    <3> SUFFICES ASSUME NEW i \in len + 1 .. n
                 PROVE  i - len \in DOMAIN d /\ ptr'[i] = d[i - len]
      OBVIOUS
    <3>1. i - len \in DOMAIN d
      BY <1>5, <1>8, <2>6
    <3>2. i \in DOMAIN s
      BY <1>8, <2>2, <2>3
    <3> QED BY <2>4, <3>1, <3>2
  <2>13. \A i \in 1 .. n : ptr'[i] \in Chars
    <3> SUFFICES ASSUME NEW i \in 1 .. n PROVE ptr'[i] \in Chars
      OBVIOUS
    <3>1. CASE i <= len
      BY <1>8, <2>2, <2>10, <2>11, <3>1
    <3>2. CASE i > len
      <4>1. i \in len + 1 .. n
        BY <1>8, <2>2, <3>2
      <4> QED BY <1>5, <2>12, <4>1
    <3> QED BY <1>8, <2>2, <3>1, <3>2
  <2>14. ASSUME NUL \notin {doc'[i] : i \in DOMAIN doc'}
         PROVE  n = Len(doc') /\ \A i \in 1 .. n : ptr'[i] = doc'[i]
    <3>1. \A i \in 1 .. Len(doc) : doc'[i] = doc[i] /\ i \in DOMAIN doc'
      BY <1>1, <1>3, <1>4
    <3>2. \A i \in 1 .. Len(line) : doc'[Len(doc) + i] = line[i] /\ Len(doc) + i \in DOMAIN doc'
      BY <1>1, <1>3, <1>4
    <3>3. NUL \notin {doc[i] : i \in DOMAIN doc}
      BY <1>3, <2>14, <3>1
    <3>4. d = line
      <4>1. \A i \in DOMAIN line : line[i] # NUL
        BY <1>4, <2>14, <3>2
      <4> QED BY <1>5, <4>1
    <3>5. len = Len(doc) /\ \A i \in 1 .. len : ptr[i] = doc[i]
      BY <1>8, <1>11, <3>3 DEF HeldUpTo
    <3>6. n = Len(doc')
      BY <1>4, <2>6, <3>4, <3>5
    <3>7. ASSUME NEW i \in 1 .. n PROVE ptr'[i] = doc'[i]
      <4>1. CASE i <= len
        BY <1>8, <2>2, <2>11, <3>1, <3>5, <4>1
      <4>2. CASE i > len
        <5>1. i \in len + 1 .. n /\ i - len \in 1 .. Len(line)
          BY <1>4, <1>8, <2>2, <2>6, <3>4, <4>2
        <5>2. ptr'[i] = line[i - len]
          BY <2>12, <3>4, <5>1
        <5>3. doc'[Len(doc) + (i - len)] = line[i - len]
          BY <3>2, <5>1
        <5>4. Len(doc) + (i - len) = i
          BY <1>8, <2>2, <3>5
        <5> QED BY <5>2, <5>3, <5>4
      <4> QED BY <1>8, <2>2, <4>1, <4>2
    <3> QED BY <3>6, <3>7
  <2>15. HeldUpTo(len)'
    BY <2>2, <2>3, <2>4, <2>8, <2>13, <2>14 DEF HeldUpTo
  <2>16. ReadHoldsAll'
    BY <1>6, <2>5, <2>15 DEF ReadHoldsAll
  <2>17. TransferOK'
    <3>1. ControlOK'
      BY <1>2, <1>4, <1>6, <1>11, <2>2, <2>4, <2>5, <2>8, TransferAssumption DEF TransferOK, ControlOK, DataOK, CountsOK
    <3>2. DataOK'
      BY <1>2, <1>4, <1>6, <1>11, <2>2, <2>4, <2>5, <2>8, TransferAssumption DEF TransferOK, ControlOK, DataOK, CountsOK
    <3>3. CountsOK'
      BY <1>2, <1>4, <1>6, <1>11, <2>2, <2>4, <2>5, <2>8, TransferAssumption DEF TransferOK, ControlOK, DataOK, CountsOK
    <3> QED BY <3>1, <3>2, <3>3 DEF TransferOK
  <2>18. CurlHoldsAll' /\ MissingBuffer'
    BY <1>6, <2>5, <2>9 DEF CurlHoldsAll, MissingBuffer
  <2>19. Accounts'
    BY <1>2, <1>6, <1>8, <1>11, <2>5, <2>9 DEF Accounts, BufferOwned
  <2> QED BY <1>9, <2>16, <2>17, <2>18, <2>19
<1>12. ASSUME ptr # NIL, ptr' = NIL, blocks' = blocks - 1, refused' = TRUE,
              stage' = "read", UNCHANGED len
       PROVE  IInv'
  <2>1. blocks = failures + 1
    BY <1>2, <1>8, <1>12 DEF Accounts, BufferOwned, TransferOK, ControlOK, DataOK, CountsOK
  <2>2. TransferOK'
    <3>1. ControlOK'
      BY <1>2, <1>4, <1>12, <2>1 DEF TransferOK, ControlOK, DataOK, CountsOK
    <3>2. DataOK'
      BY <1>2, <1>4, <1>12, <2>1 DEF TransferOK, ControlOK, DataOK, CountsOK
    <3>3. CountsOK'
      BY <1>2, <1>4, <1>12, <2>1 DEF TransferOK, ControlOK, DataOK, CountsOK
    <3> QED BY <3>1, <3>2, <3>3 DEF TransferOK
  <2>3. ReadHoldsAll'
    BY <1>3, <1>4, <1>8, <1>12 DEF ReadHoldsAll, HeldUpTo
  <2>4. CurlHoldsAll' /\ MissingBuffer' /\ Accounts'
    BY <1>2, <1>8, <1>12, <2>1 DEF CurlHoldsAll, MissingBuffer, Accounts, BufferOwned, TransferOK, ControlOK, DataOK, CountsOK
  <2> QED BY <1>9, <2>2, <2>3, <2>4
<1> QED BY <1>7, <1>10, <1>11, <1>12 DEF AppendLine

\* The NUL is written behind the last character.
LEMMA StepEndOfData == ASSUME IInv, EndOfData PROVE IInv'
<1> USE DEF IInv
<1>1. /\ stage \in {"fgets", "eof"} /\ whole' = TRUE
      /\ UNCHANGED <<doc, len, rendered, blocks, response, status, refused, requests, failures>>
  BY DEF EndOfData, outcome, history
<1>2. len \in Nat /\ HeldUpTo(len) /\ response = NIL /\ ~rendered
  BY <1>1 DEF TransferOK, DataOK, ReadHoldsAll, NoAnswerYet, Accounts
<1>3. /\ stage' = "read"
      /\ (ptr = NIL) <=> (ptr' = NIL)
      /\ ptr = NIL \/ (/\ ptr' = [ptr EXCEPT ![len + 1] = NUL]
                        /\ ptr \in Seq(Bytes \cup {JUNK})
                        /\ ptr' \in Seq(Bytes \cup {JUNK}))
  <2>1. CASE ptr = NIL
    BY <2>1 DEF EndOfData
  <2>2. CASE ptr # NIL
    <3>1. ptr' = [ptr EXCEPT ![len + 1] = NUL] /\ len < Len(ptr)
      BY <1>2, <2>2 DEF EndOfData, HeldUpTo
    <3>2. ptr \in Seq(Bytes \cup {JUNK})
      BY <2>2 DEF TransferOK, DataOK
    <3>3. ptr' \in Seq(Bytes \cup {JUNK})
      <4> DEFINE Byte == Bytes \cup {JUNK}
      <4>1. NUL \in Byte
        BY DEF Bytes
      <4> HIDE DEF Byte
      <4>2. ptr \in Seq(Byte)
        BY <3>2 DEF Byte
      <4>3. ptr \in [1 .. Len(ptr) -> Byte] /\ Len(ptr) \in Nat
        BY <4>2
      <4>4. ptr' \in [1 .. Len(ptr) -> Byte]
        BY <3>1, <4>1, <4>3
      <4>5. ptr' \in Seq(Byte)
        BY <4>3, <4>4
      <4> QED BY <4>5 DEF Byte
    <3> QED BY <2>2, <3>1, <3>2, <3>3, TransferAssumption DEF EndOfData
  <2> QED BY <2>1, <2>2
<1>4. TransferOK'
  <2>1. ControlOK'
    BY <1>1, <1>3 DEF TransferOK, ControlOK
  <2>2. DataOK'
    BY <1>1, <1>3 DEF TransferOK, DataOK
  <2>3. CountsOK'
    BY <1>1 DEF TransferOK, CountsOK
  <2> QED BY <2>1, <2>2, <2>3 DEF TransferOK
<1>5. ReadHoldsAll'
  <2>1. CASE ptr = NIL
    BY <1>1, <1>2, <1>3, <2>1 DEF ReadHoldsAll, HeldUpTo
  <2>2. CASE ptr # NIL
    <3>1. len < Len(ptr) /\ Len(ptr') = Len(ptr)
      BY <1>2, <1>3, <2>2 DEF HeldUpTo
    <3>2. ptr'[len + 1] = NUL
      BY <1>2, <1>3, <2>2, <3>1
    <3>3. \A i \in 1 .. len : ptr'[i] = ptr[i]
      BY <1>2, <1>3, <2>2, <3>1
    <3>4. HeldUpTo(len)'
      BY <1>1, <1>2, <2>2, <3>1, <3>3 DEF HeldUpTo
    <3> QED BY <1>1, <1>3, <3>2, <3>4 DEF ReadHoldsAll
  <2> QED BY <2>1, <2>2
<1>6. NoAnswerYet' /\ DocumentIsWhole' /\ CurlHoldsAll' /\ MissingBuffer'
  BY <1>1, <1>2, <1>3 DEF NoAnswerYet, DocumentIsWhole, CurlHoldsAll, MissingBuffer
<1>7. Accounts'
  BY <1>1, <1>2, <1>3 DEF Accounts, BufferOwned
<1> QED BY <1>4, <1>5, <1>6, <1>7

\* What is parsed is what was copied.
LEMMA StepParseData == ASSUME IInv, ParseData PROVE IInv'
<1> USE DEF IInv
<1>1. /\ stage = "read" /\ stage' = "closed"
      /\ UNCHANGED <<doc, ptr, len, rendered, status, whole, refused, requests, failures>>
  BY DEF ParseData, buffer, history
<1>2. len \in Nat /\ HeldUpTo(len) /\ ~rendered
  BY <1>1 DEF TransferOK, DataOK, ReadHoldsAll, Accounts
<1>3. ASSUME ptr # NIL
      PROVE  /\ whole /\ CString(ptr) \in Seq(Chars)
             /\ NUL \notin {doc[i] : i \in DOMAIN doc} => CString(ptr) = doc
  <2> DEFINE m == len + 1
  <2>1. ptr \in Seq(Bytes \cup {JUNK}) /\ doc \in Seq(Bytes)
    BY <1>3 DEF TransferOK, DataOK
  <2>2. m \in 1 .. Len(ptr) /\ ptr[m] = NUL /\ whole
    BY <1>1, <1>2, <1>3, <2>1 DEF ReadHoldsAll, HeldUpTo
  <2>3. \A i \in 1 .. m - 1 : ptr[i] \in Bytes
    BY <1>2, <1>3 DEF HeldUpTo, Bytes
  <2>4. \A i \in 1 .. m - 1 : ptr[i] # NUL
    BY <1>2, <1>3, TransferAssumption DEF HeldUpTo
  <2>5. ASSUME NUL \notin {doc[i] : i \in DOMAIN doc}
        PROVE  SubSeq(ptr, 1, m - 1) = doc
    <3>1. len = Len(doc) /\ \A i \in 1 .. len : ptr[i] = doc[i]
      BY <1>2, <1>3, <2>5 DEF HeldUpTo
    <3> QED BY <2>1, <2>2, <3>1
  <2> HIDE DEF m
  <2> QED BY <2>1, <2>2, <2>3, <2>4, <2>5, StringEnds
<1>4. \/ ptr = NIL /\ response' = NIL /\ UNCHANGED blocks
      \/ ptr # NIL /\ response' \in {NIL, CString(ptr)} /\ blocks' = blocks - 1
  BY DEF ParseData, Parse
<1>5. blocks = failures + (IF ptr = NIL THEN 0 ELSE 1) /\ failures \in Nat
  BY <1>1, <1>2 DEF Accounts, BufferOwned, TransferOK, CountsOK
<1>6. TransferOK'
  <2>1. ControlOK'
    BY <1>1 DEF TransferOK, ControlOK
  <2>2. DataOK'
    BY <1>1, <1>3, <1>4 DEF TransferOK, DataOK
  <2>3. CountsOK'
    BY <1>1, <1>4, <1>5 DEF TransferOK, CountsOK
  <2> QED BY <2>1, <2>2, <2>3 DEF TransferOK
<1>7. DocumentIsWhole'
  BY <1>1, <1>3, <1>4 DEF DocumentIsWhole
<1>8. NoAnswerYet' /\ CurlHoldsAll' /\ ReadHoldsAll' /\ MissingBuffer'
  BY <1>1 DEF NoAnswerYet, CurlHoldsAll, ReadHoldsAll, MissingBuffer
<1>9. Accounts'
  BY <1>1, <1>2, <1>4, <1>5 DEF Accounts, BufferOwned
<1> QED BY <1>6, <1>7, <1>8, <1>9

\* The exit code of the script becomes the status.
LEMMA StepAnswer == ASSUME IInv, Answer PROVE IInv'
<1> USE DEF IInv, Answer, buffer, history
<1>1. TransferOK'
  <2>1. ControlOK'
    BY DEF TransferOK, ControlOK
  <2>2. DataOK'
    BY DEF TransferOK, DataOK
  <2>3. CountsOK'
    BY DEF TransferOK, CountsOK
  <2> QED BY <2>1, <2>2, <2>3 DEF TransferOK
<1>2. DocumentIsWhole' /\ NoAnswerYet' /\ CurlHoldsAll' /\ ReadHoldsAll' /\ MissingBuffer'
  BY DEF DocumentIsWhole, NoAnswerYet, CurlHoldsAll, ReadHoldsAll, MissingBuffer
<1>3. Accounts'
  BY DEF Accounts, BufferOwned
<1> QED BY <1>1, <1>2, <1>3

\* A step in which nothing happens.
LEMMA StepStutter == ASSUME IInv, UNCHANGED transferVars PROVE IInv'
<1> USE DEF IInv, transferVars
<1>1. TransferOK'
  BY DEF TransferOK, ControlOK, DataOK, CountsOK
<1>2. DocumentIsWhole' /\ NoAnswerYet' /\ CurlHoldsAll' /\ MissingBuffer' /\ Accounts'
  BY DEF DocumentIsWhole, NoAnswerYet, CurlHoldsAll, MissingBuffer, Accounts, BufferOwned
<1>3. ReadHoldsAll'
  BY DEF ReadHoldsAll, HeldUpTo
<1> QED BY <1>1, <1>2, <1>3

\* Every step keeps the invariant.
LEMMA InvariantStep == IInv /\ [TransferNext]_transferVars => IInv'
<1> SUFFICES ASSUME IInv, [TransferNext]_transferVars PROVE IInv'
  OBVIOUS
<1>1. CASE Render
  BY <1>1, StepRender
<1>2. CASE InitString
  BY <1>2, StepInitString
<1>3. CASE WriteFunc
  BY <1>3, StepWriteFunc
<1>4. CASE Transferred
  BY <1>4, StepTransferred
<1>5. CASE Cleanup
  BY <1>5, StepCleanup
<1>6. CASE Popen
  BY <1>6, StepPopen
<1>7. CASE ReadData
  BY <1>7, StepReadData
<1>8. CASE EndOfData
  BY <1>8, StepEndOfData
<1>9. CASE ParseData
  BY <1>9, StepParseData
<1>10. CASE Answer
  BY <1>10, StepAnswer
<1>11. CASE UNCHANGED transferVars
  BY <1>11, StepStutter
<1> QED BY <1>1, <1>2, <1>3, <1>4, <1>5, <1>6, <1>7, <1>8, <1>9, <1>10, <1>11 DEF TransferNext

\* The invariant holds in every state of every behaviour.
LEMMA InvariantHolds == TransferSpec => []IInv
<1> QED BY InvariantInit, InvariantStep, PTL DEF TransferSpec

-----------------------------------------------------------------------------
(* The properties                                                          *)

\* performRequest and delegate_old return all of a document or none of it,
\* for every document, every division of it into pieces and every BUFSIZE.
THEOREM DocumentsAreWhole == TransferSpec => []DocumentIsWhole
<1>1. IInv => DocumentIsWhole
  BY DEF IInv
<1> QED BY <1>1, InvariantHolds, PTL

\* Neither writefunc nor read_data writes outside of its buffer, unless the
\* first malloc of read_data failed.
THEOREM BuffersAreNotOverrun == TransferSpec => []StaysInside
<1>1. IInv => StaysInside
  BY DEF IInv, StaysInside, MissingBuffer
<1> QED BY <1>1, InvariantHolds, PTL

\* Between requests nothing is held but the buffers of the transfers that
\* failed, one for each.
THEOREM LossesAreCounted == TransferSpec => []OnlyFailuresLoseTheBuffer
<1>1. IInv => OnlyFailuresLoseTheBuffer
  BY DEF IInv, OnlyFailuresLoseTheBuffer, Accounts, BufferOwned, TransferOK, CountsOK
<1> QED BY <1>1, InvariantHolds, PTL
=============================================================================
