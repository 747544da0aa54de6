------------------------- MODULE NssBindings_proofs -------------------------
(***************************************************************************)
(* Where the conversions write, and when they succeed, for every object,   *)
(* every buffer at every address, and every size of a pointer.             *)
(***************************************************************************)
EXTENDS NssBindings, WellFoundedInduction, TLAPS

-----------------------------------------------------------------------------
(* Facts about the operators of the model                                  *)

\* The lengths of the strings of an object that is converted.
LEMMA LengthsAreNumbers ==
  ASSUME ConversionOK
  PROVE  /\ conv.strings \in Seq(Nat \cup {NIL})
         /\ conv.members \in Seq(Nat \cup {NIL})
BY ConversionsAssumption DEF ConversionOK, CallerOK

\* The array of pointers is rounded up to a multiple of 4.
LEMMA PointersAreRounded ==
  ASSUME ConversionOK
  PROVE  /\ PtrSize \in Nat /\ RoundedPtrSize \in Nat
         /\ PtrSize <= RoundedPtrSize
         /\ PtrSize <= SIZE_MAX => RoundedPtrSize <= SIZE_MAX + 1
<1>1. PtrSize \in Nat
  <2> DEFINE n == Len(conv.members) + 1
  <2>1. n \in Nat /\ PTR \in Nat
    BY LengthsAreNumbers, BufferAssumption
  <2>2. PtrSize = n * PTR
    BY DEF PtrSize
  <2> HIDE DEF n
  <2> QED BY <2>1, <2>2
<1> DEFINE q == (PtrSize + 3) \div 4
           m == (SIZE_MAX + 1) \div 4
<1>2. q \in Nat /\ PtrSize <= 4 * q /\ 4 * q <= PtrSize + 3
  BY <1>1
<1>3. m \in Nat /\ SIZE_MAX + 1 = 4 * m
  BY BufferAssumption
<1>4. RoundedPtrSize = q * 4
  BY DEF RoundedPtrSize
<1> HIDE DEF q, m
<1>5. SIZE_MAX \in Nat
  BY BufferAssumption
<1>6. ASSUME PtrSize <= SIZE_MAX PROVE q <= m
  <2>1. 4 * q <= 4 * m + 2
    BY <1>1, <1>2, <1>3, <1>5, <1>6
  <2> QED BY <1>2, <1>3, <2>1
<1>7. RoundedPtrSize \in Nat /\ PtrSize <= RoundedPtrSize
  BY <1>1, <1>2, <1>4
<1>8. ASSUME PtrSize <= SIZE_MAX PROVE RoundedPtrSize <= SIZE_MAX + 1
  BY <1>2, <1>3, <1>4, <1>6, <1>8
<1> QED BY <1>1, <1>7, <1>8

\* The alignment takes one to four bytes.
LEMMA PaddingIsSmall ==
  ASSUME ConversionOK
  PROVE  Padding \in 1 .. 4
BY DEF Padding, ConversionOK, MemoryOK

\* Subtraction wraps around once.
LEMMA MinusIsSizeT ==
  ASSUME NEW a \in 0 .. SIZE_MAX, NEW b \in 0 .. SIZE_MAX + 1
  PROVE  /\ Minus(a, b) \in 0 .. SIZE_MAX
         /\ b <= a => Minus(a, b) = a - b
BY BufferAssumption DEF Minus

\* The ranges of s lie between two addresses, one behind the other.
Ordered(s, low, high) ==
  /\ \A i \in DOMAIN s :
       s[i] # NIL => low <= s[i].first /\ s[i].first <= s[i].last /\ s[i].last <= high
  /\ \A i, j \in DOMAIN s :
       i < j /\ s[i] # NIL /\ s[j] # NIL => s[i].last <= s[j].first

\* They still do when one is put behind them.
LEMMA OrderedAfterAppend ==
  ASSUME NEW s \in Seq(OptionalRanges), NEW low \in Nat, NEW middle \in Nat, NEW high \in Nat,
         low <= middle, middle <= high, Ordered(s, low, middle),
         NEW r \in {NIL, Extent(middle, high)}
  PROVE  Append(s, r) \in Seq(OptionalRanges) /\ Ordered(Append(s, r), low, high)
<1>1. r \in OptionalRanges
  BY DEF OptionalRanges, Extent
<1>2. r # NIL => r.first = middle /\ r.last = high
  BY DEF Extent
<1>3. /\ Append(s, r) \in Seq(OptionalRanges)
      /\ Len(s) \in Nat /\ DOMAIN s = 1 .. Len(s)
      /\ DOMAIN Append(s, r) = 1 .. Len(s) + 1
      /\ \A i \in 1 .. Len(s) : Append(s, r)[i] = s[i]
      /\ Append(s, r)[Len(s) + 1] = r
  BY <1>1
<1>4. \A i \in DOMAIN s : s[i] # NIL => s[i].first \in Nat /\ s[i].last \in Nat
  BY DEF OptionalRanges
<1> DEFINE t == Append(s, r)
<1> HIDE DEF t
<1>5. ASSUME NEW i \in DOMAIN t, t[i] # NIL
      PROVE  low <= t[i].first /\ t[i].first <= t[i].last /\ t[i].last <= high
  <2>1. CASE i \in 1 .. Len(s)
    BY <1>3, <1>4, <1>5, <2>1 DEF Ordered, t
  <2>2. CASE i = Len(s) + 1
    BY <1>2, <1>3, <1>5, <2>2 DEF t
  <2> QED BY <1>3, <2>1, <2>2 DEF t
<1>6. ASSUME NEW i \in DOMAIN t, NEW j \in DOMAIN t, i < j, t[i] # NIL, t[j] # NIL
      PROVE  t[i].last <= t[j].first
  <2>1. i \in 1 .. Len(s)
    BY <1>3, <1>6 DEF t
  <2>2. CASE j \in 1 .. Len(s)
    BY <1>3, <1>6, <2>1, <2>2 DEF Ordered, t
  <2>3. CASE j = Len(s) + 1
    BY <1>2, <1>3, <1>6, <2>1, <2>3 DEF Ordered, t
  <2> QED BY <1>3, <2>2, <2>3 DEF t
<1>7. Ordered(t, low, high)
  BY <1>5, <1>6 DEF Ordered
<1> QED BY <1>3, <1>7 DEF t

-----------------------------------------------------------------------------
(* The inductive invariant                                                 *)

\* The strings come first, then the array, then the members, and what is
\* free lies behind all of them.
Layout ==
  IF grMem = NIL
    THEN memPtrs = <<>> /\ base <= buffer /\ Ordered(fields, base, buffer)
    ELSE /\ base <= grMem.first /\ grMem.first <= grMem.last /\ grMem.last <= buffer
         /\ Ordered(fields, base, grMem.first)
         /\ Ordered(memPtrs, grMem.last, buffer)

\* The members are reached once, and copied behind the array.
Phase ==
  /\ pc \in {"strings", "members"} => grMem = NIL /\ ~tight
  /\ pc = "loop" => grMem # NIL

\* The pointer and the count move together, until the count wraps.
Counted == ~tight => buffer + buflen = base + size

IInv == ConversionOK /\ Layout /\ Phase /\ Counted

\* Nothing is written at the start.
LEMMA InvariantInit == ConversionInit => IInv
<1> SUFFICES ASSUME ConversionInit PROVE IInv
  OBVIOUS
<1>1. base \in Nat /\ size \in 0 .. SIZE_MAX
  BY BufferAssumption DEF ConversionInit
<1>2. ConversionOK
  <2>1. CallerOK
    BY DEF ConversionInit, CallerOK
  <2>2. ProgressOK
    <3>1. index = 1 /\ tight = FALSE
      BY DEF ConversionInit
    <3>2. index \in Nat \ {0}
      BY <3>1
    <3>3. tight \in BOOLEAN
      BY <3>1
    <3> QED BY <3>2, <3>3 DEF ConversionInit, ProgressOK
  <2>3. MemoryOK
    BY <1>1 DEF ConversionInit, MemoryOK, OptionalRanges
  <2> QED BY <2>1, <2>2, <2>3 DEF ConversionOK
<1>3. Layout /\ Phase /\ Counted
  BY <1>1 DEF ConversionInit, Layout, Phase, Counted, Ordered
<1> QED BY <1>2, <1>3 DEF IInv

\* What copying one string does to the free part of the buffer.
LEMMA CopiedOrSkipped ==
  ASSUME IInv, NEW length \in Nat \cup {NIL}, Skip(length) \/ Copy(length)
  PROVE  /\ buffer' \in Nat /\ buffer <= buffer'
         /\ buflen' \in 0 .. SIZE_MAX
         /\ buffer' + buflen' = buffer + buflen
         /\ Stored(length) \in {NIL, Extent(buffer, buffer')}
         /\ status' = "SUCCESS" /\ UNCHANGED <<pc, errnop>>
<1>1. buffer \in Nat /\ buflen \in 0 .. SIZE_MAX /\ SIZE_MAX \in Nat
  BY BufferAssumption DEF IInv, ConversionOK, MemoryOK
<1>2. CASE Skip(length)
  BY <1>1, <1>2 DEF Skip, Stored
<1>3. CASE Copy(length)
  <2>1. length \in Nat
    BY <1>3 DEF Copy
  <2>2. buffer' = buffer + length + 1 /\ buflen' = buflen - (length + 1)
        /\ buflen >= length + 1
    BY <1>3 DEF Copy
  <2>3. Stored(length) = Extent(buffer, buffer + length + 1)
    BY <1>3 DEF Copy, Stored
  <2> QED BY <1>1, <1>3, <2>1, <2>2, <2>3 DEF Copy
<1> QED BY <1>2, <1>3

\* A string of the struct.
LEMMA CopyFieldStep == ASSUME IInv, CopyField PROVE IInv'
<1> DEFINE length == conv.strings[index]
<1>1. pc = "strings" /\ index \in 1 .. Len(conv.strings)
      /\ UNCHANGED <<conv, base, size, grMem, memPtrs, tight>>
  BY DEF CopyField, caller, IInv, ConversionOK, ProgressOK
<1>2. length \in Nat \cup {NIL}
  BY <1>1, LengthsAreNumbers DEF IInv
<1>3. \/ /\ Skip(length) \/ Copy(length)
         /\ fields' = Append(fields, Stored(length))
         /\ index' = index + 1
      \/ NoRoom(length) /\ UNCHANGED <<fields, index>>
  BY DEF CopyField
<1> HIDE DEF length
<1>4. grMem = NIL /\ memPtrs = <<>> /\ base <= buffer /\ Ordered(fields, base, buffer)
  BY <1>1 DEF IInv, Phase, Layout
<1>5. base \in Nat /\ buffer \in Nat /\ fields \in Seq(OptionalRanges)
  BY BufferAssumption DEF IInv, ConversionOK, CallerOK, MemoryOK
<1>6. CASE /\ Skip(length) \/ Copy(length)
           /\ fields' = Append(fields, Stored(length))
           /\ index' = index + 1
  <2>1. /\ buffer' \in Nat /\ buffer <= buffer'
        /\ buflen' \in 0 .. SIZE_MAX
        /\ buffer' + buflen' = buffer + buflen
        /\ Stored(length) \in {NIL, Extent(buffer, buffer')}
        /\ status' = "SUCCESS" /\ UNCHANGED <<pc, errnop>>
    BY <1>2, <1>6, CopiedOrSkipped
  <2>2. fields' \in Seq(OptionalRanges) /\ Ordered(fields', base, buffer')
    BY <1>4, <1>5, <1>6, <2>1, OrderedAfterAppend
  <2>3. CallerOK' /\ ProgressOK'
    BY <1>1, <1>6, <2>1 DEF IInv, ConversionOK, CallerOK, ProgressOK
  <2>4. MemoryOK'
    BY <1>1, <2>1, <2>2 DEF IInv, ConversionOK, MemoryOK
  <2>5. Layout'
    BY <1>1, <1>4, <1>5, <2>1, <2>2 DEF Layout
  <2>6. Phase' /\ Counted'
    BY <1>1, <2>1 DEF IInv, Phase, Counted
  <2> QED BY <2>3, <2>4, <2>5, <2>6 DEF IInv, ConversionOK
<1>7. CASE NoRoom(length) /\ UNCHANGED <<fields, index>>
  <2>1. ConversionOK'
    BY <1>1, <1>7 DEF IInv, ConversionOK, CallerOK, ProgressOK, MemoryOK, NoRoom, Finish
  <2>2. Layout' /\ Phase' /\ Counted'
    BY <1>1, <1>7 DEF IInv, Layout, Phase, Counted, NoRoom, Finish
  <2> QED BY <2>1, <2>2 DEF IInv
<1> QED BY <1>3, <1>6, <1>7

\* A step that writes nothing.
LEMMA QuietStep ==
  ASSUME IInv, CopyNumbers \/ NotAnArray \/ NoRoomForPointers
  PROVE  IInv'
<1>1. UNCHANGED <<conv, base, size, index, buffer, buflen, fields, grMem, memPtrs, tight>>
      /\ (pc' = "members" => pc = "strings") /\ pc' \in {"members", "done"}
  BY DEF CopyNumbers, NotAnArray, NoRoomForPointers, Finish, caller
<1>2. /\ status' \in {"SUCCESS", "NOTFOUND", "TRYAGAIN"}
      /\ errnop' \in {"unset", "ERANGE", "0"}
  BY DEF CopyNumbers, NotAnArray, NoRoomForPointers, Finish, IInv, ConversionOK, ProgressOK
<1>3. ConversionOK'
  BY <1>1, <1>2 DEF IInv, ConversionOK, CallerOK, ProgressOK, MemoryOK
<1>4. Layout' /\ Phase' /\ Counted'
  BY <1>1 DEF IInv, Layout, Phase, Counted
<1> QED BY <1>3, <1>4 DEF IInv

\* The array of pointers, at the next boundary.
LEMMA ReservePointersStep == ASSUME IInv, ReservePointers PROVE IInv'
<1>1. /\ pc = "members" /\ pc' = "loop" /\ index' = 1 /\ buflen >= PtrSize
      /\ grMem' = Extent(buffer + Padding, buffer + Padding + PtrSize)
      /\ buffer' = buffer + Padding + RoundedPtrSize
      /\ buflen' = Minus(Minus(buflen, Padding), RoundedPtrSize)
      /\ tight' = (buflen < Padding + RoundedPtrSize)
      /\ UNCHANGED <<conv, base, size, fields, memPtrs, status, errnop>>
  BY DEF ReservePointers, caller
<1>2. ConversionOK /\ grMem = NIL /\ memPtrs = <<>> /\ base <= buffer
      /\ Ordered(fields, base, buffer)
  BY <1>1 DEF IInv, Phase, Layout
<1>3. /\ base \in Nat /\ buffer \in Nat /\ buflen \in 0 .. SIZE_MAX /\ SIZE_MAX \in Nat
      /\ fields \in Seq(OptionalRanges) /\ 4 <= SIZE_MAX + 1
  <2>1. SIZE_MAX \in Nat /\ (SIZE_MAX + 1) % 4 = 0
    BY BufferAssumption
  <2>2. 4 <= SIZE_MAX + 1
    BY <2>1
  <2> QED BY <2>1, <2>2, BufferAssumption DEF IInv, ConversionOK, CallerOK, MemoryOK
<1>4. Padding \in 1 .. 4
  BY <1>2, PaddingIsSmall
<1>5. /\ PtrSize \in Nat /\ RoundedPtrSize \in 0 .. SIZE_MAX + 1
      /\ PtrSize <= RoundedPtrSize
  BY <1>1, <1>2, <1>3, PointersAreRounded
<1>6. Minus(buflen, Padding) \in 0 .. SIZE_MAX
      /\ (Padding <= buflen => Minus(buflen, Padding) = buflen - Padding)
  <2>1. Padding \in 0 .. SIZE_MAX + 1
    BY <1>3, <1>4
  <2> QED BY <1>3, <2>1, MinusIsSizeT
<1>7. buflen' \in 0 .. SIZE_MAX
      /\ (Padding + RoundedPtrSize <= buflen => buflen' = buflen - Padding - RoundedPtrSize)
  <2>1. buflen' \in 0 .. SIZE_MAX
    BY <1>1, <1>5, <1>6, MinusIsSizeT
  <2>2. ASSUME Padding + RoundedPtrSize <= buflen
        PROVE  buflen' = buflen - Padding - RoundedPtrSize
    <3>1. Minus(buflen, Padding) = buflen - Padding
      BY <1>3, <1>4, <1>5, <1>6, <2>2
    <3>2. RoundedPtrSize <= buflen - Padding
      BY <1>3, <1>4, <1>5, <2>2
    <3> QED BY <1>1, <1>5, <1>6, <3>1, <3>2, MinusIsSizeT
  <2> QED BY <2>1, <2>2
<1>8. grMem' \in [first : Nat, last : Nat] /\ grMem' # NIL
      /\ grMem'.first = buffer + Padding /\ grMem'.last = buffer + Padding + PtrSize
  BY <1>1, <1>3, <1>4, <1>5, ConversionsAssumption DEF Extent
<1>9. ConversionOK'
  <2>1. CallerOK'
    BY <1>1, <1>2 DEF ConversionOK, CallerOK
  <2>2. ProgressOK'
    BY <1>1, <1>2 DEF ConversionOK, ProgressOK
  <2>3. MemoryOK'
    BY <1>1, <1>2, <1>3, <1>4, <1>5, <1>7, <1>8 DEF ConversionOK, MemoryOK, OptionalRanges
  <2> QED BY <2>1, <2>2, <2>3 DEF ConversionOK
<1>10. Layout'
  <2>1. \A i \in DOMAIN fields : fields[i] # NIL => fields[i].last \in Nat
    BY <1>3 DEF OptionalRanges
  <2>2. Ordered(fields', base', grMem'.first)
    BY <1>1, <1>2, <1>3, <1>4, <1>8, <2>1 DEF Ordered
  <2>3. Ordered(memPtrs', grMem'.last, buffer')
    BY <1>1, <1>2 DEF Ordered
  <2>4. base' <= grMem'.first /\ grMem'.first <= grMem'.last /\ grMem'.last <= buffer'
    BY <1>1, <1>2, <1>3, <1>4, <1>5, <1>8
  <2> QED BY <1>8, <2>2, <2>3, <2>4 DEF Layout
<1>11. Phase'
  BY <1>1, <1>8 DEF Phase
<1>12. Counted'
  <2>1. ASSUME ~tight' PROVE buffer' + buflen' = base' + size'
    <3>1. ~(buflen < Padding + RoundedPtrSize)
      BY <1>1, <2>1
    <3>2. Padding + RoundedPtrSize <= buflen
      BY <1>3, <1>4, <1>5, <3>1
    <3>3. buffer + buflen = base + size
      BY <1>1 DEF IInv, Phase, Counted
    <3>4. buflen' = buflen - Padding - RoundedPtrSize
      BY <1>7, <3>2
    <3> QED BY <1>1, <1>3, <1>4, <1>5, <3>3, <3>4
  <2> QED BY <2>1 DEF Counted
<1> QED BY <1>9, <1>10, <1>11, <1>12 DEF IInv

\* A member of the group.
LEMMA CopyMemberStep == ASSUME IInv, CopyMember PROVE IInv'
<1> DEFINE length == conv.members[index]
<1>1. pc = "loop" /\ index \in 1 .. Len(conv.members)
      /\ UNCHANGED <<conv, base, size, fields, grMem, tight>>
  BY DEF CopyMember, caller, IInv, ConversionOK, ProgressOK
<1>2. length \in Nat \cup {NIL}
  BY <1>1, LengthsAreNumbers DEF IInv
<1>3. \/ /\ Skip(length) \/ Copy(length)
         /\ memPtrs' = Append(memPtrs, Stored(length))
         /\ index' = index + 1
      \/ NoRoom(length) /\ UNCHANGED <<memPtrs, index>>
  BY DEF CopyMember
<1> HIDE DEF length
<1>4. /\ grMem # NIL
      /\ base <= grMem.first /\ grMem.first <= grMem.last /\ grMem.last <= buffer
      /\ Ordered(fields, base, grMem.first)
      /\ Ordered(memPtrs, grMem.last, buffer)
  BY <1>1 DEF IInv, Phase, Layout
<1>5. /\ base \in Nat /\ buffer \in Nat /\ memPtrs \in Seq(OptionalRanges)
      /\ grMem.last \in Nat
  BY <1>4, BufferAssumption DEF IInv, ConversionOK, CallerOK, MemoryOK, OptionalRanges
<1>6. CASE /\ Skip(length) \/ Copy(length)
           /\ memPtrs' = Append(memPtrs, Stored(length))
           /\ index' = index + 1
  <2>1. /\ buffer' \in Nat /\ buffer <= buffer'
        /\ buflen' \in 0 .. SIZE_MAX
        /\ buffer' + buflen' = buffer + buflen
        /\ Stored(length) \in {NIL, Extent(buffer, buffer')}
        /\ status' = "SUCCESS" /\ UNCHANGED <<pc, errnop>>
    BY <1>2, <1>6, CopiedOrSkipped
  <2>2. memPtrs' \in Seq(OptionalRanges) /\ Ordered(memPtrs', grMem.last, buffer')
    BY <1>4, <1>5, <1>6, <2>1, OrderedAfterAppend
  <2>3. CallerOK' /\ ProgressOK'
    BY <1>1, <1>6, <2>1 DEF IInv, ConversionOK, CallerOK, ProgressOK
  <2>4. MemoryOK'
    BY <1>1, <2>1, <2>2 DEF IInv, ConversionOK, MemoryOK
  <2>5. Layout'
    BY <1>1, <1>4, <1>5, <2>1, <2>2 DEF Layout
  <2>6. Phase' /\ Counted'
    BY <1>1, <2>1 DEF IInv, Phase, Counted
  <2> QED BY <2>3, <2>4, <2>5, <2>6 DEF IInv, ConversionOK
<1>7. CASE NoRoom(length) /\ UNCHANGED <<memPtrs, index>>
  <2>1. ConversionOK'
    BY <1>1, <1>7 DEF IInv, ConversionOK, CallerOK, ProgressOK, MemoryOK, NoRoom, Finish
  <2>2. Layout' /\ Phase' /\ Counted'
    BY <1>1, <1>7 DEF IInv, Layout, Phase, Counted, NoRoom, Finish
  <2> QED BY <2>1, <2>2 DEF IInv
<1> QED BY <1>3, <1>6, <1>7

\* The pointer behind the last member is NIL.
LEMMA TerminateStep == ASSUME IInv, Terminate PROVE IInv'
<1>1. /\ pc = "loop" /\ pc' = "done" /\ status' = "SUCCESS" /\ errnop' \in {"0", errnop}
      /\ memPtrs' = Append(memPtrs, NIL)
      /\ UNCHANGED <<conv, base, size, index, buffer, buflen, fields, grMem, tight>>
  BY DEF Terminate, Finish, caller
<1>2. /\ grMem # NIL
      /\ base <= grMem.first /\ grMem.first <= grMem.last /\ grMem.last <= buffer
      /\ Ordered(fields, base, grMem.first)
      /\ Ordered(memPtrs, grMem.last, buffer)
  BY <1>1 DEF IInv, Phase, Layout
<1>3. /\ buffer \in Nat /\ memPtrs \in Seq(OptionalRanges) /\ grMem.last \in Nat
  BY <1>2 DEF IInv, ConversionOK, MemoryOK, OptionalRanges
<1>4. buffer <= buffer
  BY <1>3
<1>5. memPtrs' \in Seq(OptionalRanges) /\ Ordered(memPtrs', grMem.last, buffer)
  BY <1>1, <1>2, <1>3, <1>4, OrderedAfterAppend
<1>6. ConversionOK'
  BY <1>1, <1>5 DEF IInv, ConversionOK, CallerOK, ProgressOK, MemoryOK
<1>7. Layout'
  BY <1>1, <1>2, <1>5 DEF Layout
<1>8. Phase' /\ Counted'
  BY <1>1 DEF IInv, Phase, Counted
<1> QED BY <1>6, <1>7, <1>8 DEF IInv

\* Every step keeps the invariant.
LEMMA InvariantStep == IInv /\ [ConversionNext]_conversionVars => IInv'
<1> SUFFICES ASSUME IInv, [ConversionNext]_conversionVars PROVE IInv'
  OBVIOUS
<1>1. CASE CopyField
  BY <1>1, CopyFieldStep
<1>2. CASE CopyNumbers \/ NotAnArray \/ NoRoomForPointers
  BY <1>2, QuietStep
<1>3. CASE ReservePointers
  BY <1>3, ReservePointersStep
<1>4. CASE CopyMember
  BY <1>4, CopyMemberStep
<1>5. CASE Terminate
  BY <1>5, TerminateStep
<1>6. CASE UNCHANGED conversionVars
  <2>1. UNCHANGED <<conv, base, size, pc, index, buffer, buflen, fields, grMem, memPtrs,
                    status, errnop, tight>>
    BY <1>6 DEF conversionVars
  <2>2. ConversionOK'
    BY <2>1 DEF IInv, ConversionOK, CallerOK, ProgressOK, MemoryOK
  <2>3. Layout' /\ Phase' /\ Counted'
    BY <2>1 DEF IInv, Layout, Phase, Counted
  <2> QED BY <2>2, <2>3 DEF IInv
<1> QED BY <1>1, <1>2, <1>3, <1>4, <1>5, <1>6 DEF ConversionNext

\* The invariant holds in every state of every behaviour.
LEMMA InvariantHolds == ConversionSpec => []IInv
<1> QED BY InvariantInit, InvariantStep, PTL DEF ConversionSpec

-----------------------------------------------------------------------------
(* The property                                                            *)

\* Where something that was written stands in the list of all of it.
LEMMA WrittenIs ==
  ASSUME ConversionOK, NEW i \in Positions
  PROVE  \/ /\ i \in DOMAIN fields /\ Written[i] = fields[i]
         \/ i = Len(fields) + 1 /\ Written[i] = grMem
         \/ /\ i - Len(fields) - 1 \in DOMAIN memPtrs
            /\ Written[i] = memPtrs[i - Len(fields) - 1]
<1>1. fields \in Seq(OptionalRanges) /\ memPtrs \in Seq(OptionalRanges)
      /\ <<grMem>> \in Seq(OptionalRanges)
  BY DEF ConversionOK, MemoryOK
<1> DEFINE front == fields \o <<grMem>>
<1>2. front \in Seq(OptionalRanges) /\ Len(front) = Len(fields) + 1
  BY <1>1
<1>3. \A j \in 1 .. Len(front) :
        front[j] = IF j <= Len(fields) THEN fields[j] ELSE grMem
  BY <1>1
<1> HIDE DEF front
<1>4. Written = front \o memPtrs
  BY DEF Written, front
<1>5. /\ i \in 1 .. Len(front) + Len(memPtrs)
      /\ Written[i] = IF i <= Len(front) THEN front[i] ELSE memPtrs[i - Len(front)]
  BY <1>1, <1>2, <1>4 DEF Positions
<1> QED BY <1>1, <1>2, <1>3, <1>5

\* Nothing is written outside of the caller's buffer, and nothing twice, for
\* every record, buffer and alignment, unless the alignment of the array of
\* members was all that was missing.
THEOREM BufferIsRespected == ConversionSpec => []SafeUnlessTight
<1>1. ASSUME IInv, ~tight PROVE InBounds /\ NoOverlap
  <2>1. ConversionOK /\ Layout
    BY <1>1 DEF IInv
  <2>2. /\ base \in Nat /\ buffer \in Nat /\ buflen \in Nat /\ size \in Nat
        /\ fields \in Seq(OptionalRanges) /\ memPtrs \in Seq(OptionalRanges)
        /\ grMem \in OptionalRanges
    BY <2>1, BufferAssumption DEF ConversionOK, CallerOK, MemoryOK
  <2>3. buffer <= base + size
    BY <1>1, <2>2 DEF IInv, Counted
  <2>4. /\ \A j \in DOMAIN fields : fields[j] # NIL => fields[j] \in [first : Nat, last : Nat]
        /\ \A j \in DOMAIN memPtrs : memPtrs[j] # NIL => memPtrs[j] \in [first : Nat, last : Nat]
        /\ grMem # NIL => grMem \in [first : Nat, last : Nat]
    BY <2>2 DEF OptionalRanges
  <2>5. \A j \in DOMAIN memPtrs : memPtrs[j] # NIL => grMem # NIL
    BY <2>1 DEF Layout
  <2>6. \A j \in DOMAIN fields : fields[j] # NIL =>
          /\ base <= fields[j].first /\ fields[j].last <= buffer
          /\ grMem # NIL => fields[j].last <= grMem.first
    BY <2>1, <2>2, <2>4 DEF Layout, Ordered
  <2>7. \A j \in DOMAIN memPtrs : memPtrs[j] # NIL =>
          /\ base <= memPtrs[j].first /\ memPtrs[j].last <= buffer
          /\ grMem.last <= memPtrs[j].first
    BY <2>1, <2>2, <2>4, <2>5 DEF Layout, Ordered
  <2>8. grMem # NIL => base <= grMem.first /\ grMem.first <= grMem.last /\ grMem.last <= buffer
    BY <2>1 DEF Layout
  <2>9. InBounds
    <3> SUFFICES ASSUME NEW i \in Positions
                 PROVE  base <= Written[i].first /\ Written[i].last <= base + size
      BY DEF InBounds
    <3>1. Written[i] # NIL
      BY DEF Positions
    <3>2. \/ i \in DOMAIN fields /\ Written[i] = fields[i]
          \/ Written[i] = grMem
          \/ \E j \in DOMAIN memPtrs : Written[i] = memPtrs[j]
      BY <2>1, WrittenIs
    <3>3. base <= Written[i].first /\ Written[i].last <= buffer /\ Written[i].last \in Nat
      BY <2>4, <2>6, <2>7, <2>8, <3>1, <3>2
    <3> QED BY <2>2, <2>3, <3>3
  <2>10. NoOverlap
    <3> SUFFICES ASSUME NEW i \in Positions, NEW j \in Positions, i < j
                 PROVE  Written[i].last <= Written[j].first
      BY DEF NoOverlap
    <3> DEFINE n == Len(fields)
    <3>1. Written[i] # NIL /\ Written[j] # NIL /\ i \in Nat /\ j \in Nat /\ n \in Nat
          /\ DOMAIN fields = 1 .. n /\ DOMAIN memPtrs \subseteq Nat \ {0}
      <4>1. Written \in Seq(OptionalRanges)
        BY <2>2 DEF Written
      <4> QED BY <2>2, <4>1 DEF Positions
    <3>2. /\ \/ i \in DOMAIN fields /\ Written[i] = fields[i]
             \/ i = n + 1 /\ Written[i] = grMem
             \/ i - n - 1 \in DOMAIN memPtrs /\ Written[i] = memPtrs[i - n - 1]
          /\ \/ j \in DOMAIN fields /\ Written[j] = fields[j]
             \/ j = n + 1 /\ Written[j] = grMem
             \/ j - n - 1 \in DOMAIN memPtrs /\ Written[j] = memPtrs[j - n - 1]
      BY <2>1, WrittenIs
    <3> HIDE DEF n
    <3>3. CASE i \in DOMAIN fields /\ Written[i] = fields[i]
      <4>1. CASE j \in DOMAIN fields /\ Written[j] = fields[j]
        <5>1. Ordered(fields, base, IF grMem = NIL THEN buffer ELSE grMem.first)
          BY <2>1 DEF Layout
        <5> QED BY <3>1, <3>3, <4>1, <5>1 DEF Ordered
      <4>2. CASE Written[j] = grMem
        BY <2>6, <3>1, <3>3, <4>2
      <4>3. CASE j - n - 1 \in DOMAIN memPtrs /\ Written[j] = memPtrs[j - n - 1]
        <5>1. grMem # NIL /\ fields[i].last <= grMem.first /\ grMem.first <= grMem.last
              /\ grMem.last <= memPtrs[j - n - 1].first
          BY <2>5, <2>6, <2>7, <2>8, <3>1, <3>3, <4>3
        <5> QED BY <2>4, <3>1, <3>3, <4>3, <5>1
      <4> QED BY <3>2, <4>1, <4>2, <4>3
    <3>4. CASE i = n + 1 /\ Written[i] = grMem
      <4>1. j - n - 1 \in DOMAIN memPtrs /\ Written[j] = memPtrs[j - n - 1]
        BY <3>1, <3>2, <3>4
      <4> QED BY <2>7, <3>1, <3>4, <4>1
    <3>5. CASE i - n - 1 \in DOMAIN memPtrs /\ Written[i] = memPtrs[i - n - 1]
      <4>1. j - n - 1 \in DOMAIN memPtrs /\ Written[j] = memPtrs[j - n - 1]
            /\ i - n - 1 < j - n - 1
        BY <3>1, <3>2, <3>5
      <4>2. Ordered(memPtrs, grMem.last, buffer)
        BY <2>1, <2>5, <3>1, <3>5 DEF Layout
      <4> QED BY <3>1, <3>5, <4>1, <4>2 DEF Ordered
    <3> QED BY <3>2, <3>3, <3>4, <3>5
  <2> QED BY <2>9, <2>10
<1>2. IInv => SafeUnlessTight
  BY <1>1 DEF IInv, SafeUnlessTight
<1> QED BY <1>2, InvariantHolds, PTL

-----------------------------------------------------------------------------
(* The room that a conversion takes                                        *)

\* f holds the room that the first k of the strings need, for k up to n.
Sums(f, lengths, n) ==
  /\ f \in [0 .. n -> Nat]
  /\ f[0] = 0
  /\ \A k \in 1 .. n : f[k] = f[k - 1] + RoomOf(lengths[k])

\* One string needs no room, or its length and its NUL.
LEMMA RoomIsNumber == ASSUME NEW l \in Nat \cup {NIL} PROVE RoomOf(l) \in Nat
BY DEF RoomOf

\* There are sums of every length.
LEMMA SumsExist ==
  ASSUME NEW lengths \in Seq(Nat \cup {NIL}), NEW n \in 0 .. Len(lengths)
  PROVE  \E f : Sums(f, lengths, n)
<1> DEFINE Without == {k \in 0 .. Len(lengths) : ~ \E f : Sums(f, lengths, k)}
<1>1. Without \in SUBSET Nat
  OBVIOUS
<1>2. CASE Without = {}
  BY <1>2
<1>3. CASE Without # {}
  <2>1. PICK x \in Without : \A y \in Without : ~ (<<y, x>> \in OpToRel(<, Nat))
    BY <1>1, <1>3, NatLessThanWellFounded, WFMin
  <2>2. \A y \in Without : ~ (y < x)
    BY <1>1, <2>1 DEF OpToRel
  <2>3. x # 0
    <3> DEFINE z == [k \in 0 .. 0 |-> 0]
    <3>1. Sums(z, lengths, 0)
      BY DEF Sums
    <3> QED BY <3>1
  <2>4. x \in Nat /\ x - 1 \in Nat /\ x - 1 < x /\ x - 1 \in 0 .. Len(lengths) /\ x \in 1 .. Len(lengths)
    BY <1>1, <2>3
  <2>5. x - 1 \notin Without
    BY <2>2, <2>4
  <2>6. PICK f : Sums(f, lengths, x - 1)
    BY <2>4, <2>5
  <2>7. RoomOf(lengths[x]) \in Nat
    <3>1. lengths[x] \in Nat \cup {NIL}
      BY <2>4
    <3> QED BY <3>1, RoomIsNumber
  <2> DEFINE g == [k \in 0 .. x |-> IF k = x THEN f[x - 1] + RoomOf(lengths[x]) ELSE f[k]]
  <2>8. f \in [0 .. x - 1 -> Nat] /\ f[0] = 0
    BY <2>6 DEF Sums
  <2>9. g \in [0 .. x -> Nat] /\ g[0] = 0
    BY <2>4, <2>7, <2>8
  <2>10. ASSUME NEW k \in 1 .. x
         PROVE  g[k] = g[k - 1] + RoomOf(lengths[k])
    <3>1. k - 1 \in 0 .. x /\ k \in 0 .. x /\ k - 1 # x
      BY <2>4
    <3>2. g[k - 1] = f[k - 1]
      BY <3>1
    <3>3. CASE k = x
      BY <3>1, <3>2, <3>3
    <3>4. CASE k # x
      <4>1. k \in 1 .. x - 1
        BY <2>4, <3>4
      <4>2. f[k] = f[k - 1] + RoomOf(lengths[k])
        BY <2>6, <4>1 DEF Sums
      <4> QED BY <3>1, <3>2, <3>4, <4>2
    <3> QED BY <3>3, <3>4
  <2> HIDE DEF g
  <2>11. Sums(g, lengths, x)
    BY <2>9, <2>10 DEF Sums
  <2> QED BY <2>1, <2>11
<1> QED BY <1>2, <1>3

\* What Rooms is.
LEMMA RoomsAreSums ==
  ASSUME NEW lengths \in Seq(Nat \cup {NIL})
  PROVE  Sums(Rooms(lengths), lengths, Len(lengths))
<1> DEFINE n == Len(lengths)
           Sum(f) == [k \in 0 .. n |-> IF k = 0 THEN 0 ELSE f[k - 1] + RoomOf(lengths[k])]
<1>1. PICK f : Sums(f, lengths, n)
  BY SumsExist
<1>2. f = Sum(f)
  <2>1. f \in [0 .. n -> Nat] /\ f[0] = 0
    BY <1>1 DEF Sums
  <2>2. \A k \in 1 .. n : f[k] = f[k - 1] + RoomOf(lengths[k])
    BY <1>1 DEF Sums
  <2>3. ASSUME NEW k \in 0 .. n
        PROVE  f[k] = IF k = 0 THEN 0 ELSE f[k - 1] + RoomOf(lengths[k])
    <3>1. k # 0 => k \in 1 .. n
      OBVIOUS
    <3> QED BY <2>1, <2>2, <3>1
  <2> QED BY <2>1, <2>3
<1> DEFINE sums == Rooms(lengths)
<1>3. sums = CHOOSE g : g = Sum(g)
  BY DEF Rooms
<1>4. sums = Sum(sums)
  BY <1>2, <1>3
<1> HIDE DEF sums
<1>5. n \in Nat
  OBVIOUS
<1>6. \A k \in 0 .. n : sums[k] = IF k = 0 THEN 0 ELSE sums[k - 1] + RoomOf(lengths[k])
  BY <1>4
<1>7. \A k \in 1 .. n : sums[k] = sums[k - 1] + RoomOf(lengths[k])
  <2> TAKE k \in 1 .. n
  <2>1. k \in 0 .. n /\ k # 0
    BY <1>5
  <2> QED BY <1>6, <2>1
<1>8. sums[0] = 0
  <2>1. 0 \in 0 .. n
    BY <1>5
  <2> QED BY <1>6, <2>1
<1> DEFINE Bad == {k \in 0 .. n : sums[k] \notin Nat}
<1>9. Bad = {}
  <2>0. Bad \in SUBSET Nat
    OBVIOUS
  <2>1. SUFFICES ASSUME Bad # {} PROVE FALSE
    OBVIOUS
  <2>2. PICK x \in Bad : \A y \in Bad : ~ (<<y, x>> \in OpToRel(<, Nat))
    BY <2>1, <2>0, NatLessThanWellFounded, WFMin
  <2>3. \A y \in Bad : ~ (y < x)
    BY <2>0, <2>2 DEF OpToRel
  <2>4. x \in 1 .. n /\ x - 1 \in 0 .. n /\ x - 1 < x
    <3>1. x \in 0 .. n /\ sums[x] \notin Nat
      BY <2>2
    <3>2. x # 0
      BY <1>8, <3>1
    <3> HIDE DEF n
    <3> QED BY <1>5, <3>1, <3>2
  <2>5. sums[x - 1] \in Nat
    BY <2>3, <2>4
  <2>6. RoomOf(lengths[x]) \in Nat
    <3>1. lengths[x] \in Nat \cup {NIL}
      BY <2>4
    <3> QED BY <3>1, RoomIsNumber
  <2>7. sums[x] = sums[x - 1] + RoomOf(lengths[x])
    BY <1>7, <2>4
  <2>8. sums[x] \in Nat
    BY <2>5, <2>6, <2>7
  <2> QED BY <2>2, <2>8
<1>10. sums \in [0 .. n -> Nat]
  <2>1. \A k \in 0 .. n : sums[k] \in Nat
    BY <1>9
  <2> QED BY <1>4, <2>1
<1> QED BY <1>7, <1>8, <1>10 DEF Sums, sums

\* What some of the strings need is no more than what all of them need.
LEMMA RoomsGrow ==
  ASSUME NEW lengths \in Seq(Nat \cup {NIL}), NEW k \in 0 .. Len(lengths)
  PROVE  /\ Rooms(lengths)[k] \in Nat /\ Room(lengths) \in Nat
         /\ Rooms(lengths)[k] <= Room(lengths)
<1> DEFINE n == Len(lengths)
           sums == Rooms(lengths)
<1>1. n \in Nat
  OBVIOUS
<1>2. Sums(sums, lengths, n)
  BY RoomsAreSums
<1>3. Room(lengths) = sums[n]
  BY DEF Room
<1> HIDE DEF sums
<1>4. \A j \in 0 .. n : sums[j] \in Nat
  BY <1>2 DEF Sums
<1>5. \A j \in 1 .. n : sums[j - 1] <= sums[j]
  <2> TAKE j \in 1 .. n
  <2>1. sums[j] = sums[j - 1] + RoomOf(lengths[j])
    BY <1>2 DEF Sums
  <2>2. RoomOf(lengths[j]) \in Nat
    <3>1. lengths[j] \in Nat \cup {NIL}
      BY <1>1
    <3> QED BY <3>1, RoomIsNumber
  <2>3. j - 1 \in 0 .. n
    BY <1>1
  <2>4. sums[j - 1] \in Nat
    BY <1>4, <2>3
  <2> QED BY <2>1, <2>2, <2>4
<1> DEFINE Bad == {j \in 0 .. n : ~ (sums[n - j] <= sums[n])}
<1>6. Bad = {}
  <2>0. Bad \in SUBSET Nat
    OBVIOUS
  <2>1. SUFFICES ASSUME Bad # {} PROVE FALSE
    OBVIOUS
  <2>2. PICK x \in Bad : \A y \in Bad : ~ (<<y, x>> \in OpToRel(<, Nat))
    BY <2>1, <2>0, NatLessThanWellFounded, WFMin
  <2>3. \A y \in Bad : ~ (y < x)
    BY <2>0, <2>2 DEF OpToRel
  <2>4. x # 0
    <3>1. n - 0 = n /\ n \in 0 .. n
      BY <1>1
    <3>2. sums[n] <= sums[n]
      BY <1>4, <3>1
    <3> QED BY <2>2, <3>1, <3>2
  <2>5. x \in 1 .. n /\ x - 1 \in 0 .. n /\ x - 1 < x /\ n - (x - 1) \in 1 .. n
        /\ n - (x - 1) - 1 = n - x /\ n - x \in 0 .. n /\ n - (x - 1) \in 0 .. n /\ n \in 0 .. n
    <3>1. x \in 0 .. n
      BY <2>2
    <3> HIDE DEF n
    <3> QED BY <1>1, <2>4, <3>1
  <2>6. sums[n - (x - 1)] <= sums[n]
    BY <2>3, <2>5
  <2>7. sums[n - x] <= sums[n - (x - 1)]
    BY <1>5, <2>5
  <2>8. sums[n - x] <= sums[n]
    BY <1>4, <2>5, <2>6, <2>7
  <2> QED BY <2>2, <2>8
<1>7. n - k \in 0 .. n /\ n - (n - k) = k /\ n \in 0 .. n
  BY <1>1
<1>8. sums[k] <= sums[n]
  BY <1>6, <1>7
<1> QED BY <1>3, <1>4, <1>7, <1>8 DEF sums

\* Where the members begin.
ArrayEnd ==
  base + Room(conv.strings) + (4 - ((base + Room(conv.strings)) % 4)) + RoundedPtrSize

\* What lies in front of buffer is what has been copied so far.
Taken ==
  /\ pc = "strings" =>
       index <= Len(conv.strings) + 1 /\ buffer = base + Rooms(conv.strings)[index - 1]
  /\ pc = "members" => conv.kind = "group" /\ buffer = base + Room(conv.strings)
  /\ pc = "loop" =>
       /\ conv.kind = "group" /\ conv.isArray /\ index <= Len(conv.members) + 1
       /\ buffer = ArrayEnd + Rooms(conv.members)[index - 1]

Account == Taken /\ SucceedsIffItFits

\* A whole conversion needs what its strings need, and a group more.
LEMMA NeededIsEnough ==
  ASSUME ConversionOK
  PROVE  /\ base \in Nat /\ Room(conv.strings) \in Nat /\ Room(conv.members) \in Nat
         /\ Needed \in Nat /\ Room(conv.strings) <= Needed
         /\ conv.kind = "group" =>
              /\ ArrayEnd \in Nat
              /\ base + Room(conv.strings) + RoundedPtrSize <= ArrayEnd
              /\ base + Needed = ArrayEnd + Room(conv.members)
         /\ conv.kind # "group" => Needed = Room(conv.strings)
<1>1. base \in Nat
  BY BufferAssumption DEF ConversionOK, CallerOK
<1>2. Room(conv.strings) \in Nat /\ Room(conv.members) \in Nat
  <2>1. /\ conv.strings \in Seq(Nat \cup {NIL})
        /\ conv.members \in Seq(Nat \cup {NIL})
    BY LengthsAreNumbers
  <2>2. 0 \in 0 .. Len(conv.strings) /\ 0 \in 0 .. Len(conv.members)
    BY <2>1
  <2> QED BY <2>1, <2>2, RoomsGrow
<1>3. RoundedPtrSize \in Nat
  BY PointersAreRounded
<1> DEFINE r == Room(conv.strings)
           m == (base + r) % 4
<1>4. m \in 0 .. 3
  BY <1>1, <1>2
<1> HIDE DEF m
<1>5. CASE conv.kind = "group"
  <2>1. ArrayEnd = base + r + (4 - m) + RoundedPtrSize
        /\ Needed = r + (4 - m) + RoundedPtrSize + Room(conv.members)
    BY <1>5 DEF ArrayEnd, Needed, m
  <2> HIDE DEF r
  <2> QED BY <1>1, <1>2, <1>3, <1>4, <1>5, <2>1 DEF r
<1>6. CASE conv.kind # "group"
  BY <1>1, <1>2, <1>6 DEF Needed
<1> QED BY <1>1, <1>2, <1>5, <1>6

\* Copying takes the room of the string, and there is none if that fails.
LEMMA CopyTakesRoom ==
  ASSUME ConversionOK, NEW length \in Nat \cup {NIL}
  PROVE  /\ Skip(length) \/ Copy(length) => buffer' = buffer + RoomOf(length)
         /\ NoRoom(length) => /\ buflen < RoomOf(length)
                              /\ pc' = "done" /\ status' = "TRYAGAIN" /\ errnop' = "ERANGE"
<1>1. buffer \in Nat /\ buflen \in Nat
  BY BufferAssumption DEF ConversionOK, MemoryOK
<1> QED BY <1>1 DEF Skip, Copy, NoRoom, Finish, RoomOf

\* One string more.
LEMMA NextRoom ==
  ASSUME NEW lengths \in Seq(Nat \cup {NIL}), NEW k \in 1 .. Len(lengths)
  PROVE  /\ lengths[k] \in Nat \cup {NIL} /\ RoomOf(lengths[k]) \in Nat
         /\ Rooms(lengths)[k] = Rooms(lengths)[k - 1] + RoomOf(lengths[k])
         /\ Rooms(lengths)[k - 1] \in Nat /\ Rooms(lengths)[k] <= Room(lengths)
<1>1. lengths[k] \in Nat \cup {NIL} /\ k - 1 \in 0 .. Len(lengths) /\ k \in 0 .. Len(lengths)
  OBVIOUS
<1>2. Rooms(lengths)[k] = Rooms(lengths)[k - 1] + RoomOf(lengths[k])
  BY RoomsAreSums DEF Sums
<1> QED BY <1>1, <1>2, RoomIsNumber, RoomsGrow

\* Nothing is taken at the start.
LEMMA AccountInit == ConversionInit => Account
<1> SUFFICES ASSUME ConversionInit PROVE Account
  OBVIOUS
<1>1. base \in Nat /\ conv.strings \in Seq(Nat \cup {NIL})
  BY ConversionsAssumption, BufferAssumption DEF ConversionInit
<1>2. Rooms(conv.strings)[0] = 0
  BY <1>1, RoomsAreSums DEF Sums
<1>3. pc = "strings" /\ index = 1 /\ buffer = base
  BY DEF ConversionInit
<1>4. index - 1 = 0 /\ index <= Len(conv.strings) + 1
  BY <1>1, <1>3
<1>5. Rooms(conv.strings)[index - 1] = 0
  BY <1>2, <1>4
<1> QED BY <1>1, <1>3, <1>4, <1>5 DEF Account, Taken, SucceedsIffItFits

\* What is needed does not change.
LEMMA NeededStays ==
  ASSUME UNCHANGED <<conv, base, size>>
  PROVE  Needed' = Needed /\ ArrayEnd' = ArrayEnd
BY DEF Needed, ArrayEnd, RoundedPtrSize, PtrSize

\* A conversion that ends without room would have needed more.
LEMMA FailsRightly ==
  ASSUME ConversionOK, UNCHANGED <<conv, base, size>>, pc' = "done",
         status' = "TRYAGAIN", errnop' = "ERANGE", tight' \/ size < Needed
  PROVE  Account'
<1>1. size \in Nat /\ Needed \in Nat
  BY NeededIsEnough, BufferAssumption DEF ConversionOK, CallerOK
<1>2. tight' \/ ~ (Needed' <= size')
  BY <1>1, NeededStays
<1> QED BY <1>2 DEF Account, Taken, SucceedsIffItFits

\* Each step takes what it copies.
LEMMA AccountStep == IInv /\ Account /\ [ConversionNext]_conversionVars => Account'
<1> SUFFICES ASSUME IInv, Account, [ConversionNext]_conversionVars PROVE Account'
  OBVIOUS
<1>1. /\ ConversionOK /\ base \in Nat /\ size \in Nat /\ buffer \in Nat /\ buflen \in Nat
      /\ index \in Nat \ {0} /\ tight \in BOOLEAN
      /\ conv.strings \in Seq(Nat \cup {NIL}) /\ conv.members \in Seq(Nat \cup {NIL})
  BY LengthsAreNumbers, BufferAssumption DEF IInv, ConversionOK, CallerOK, MemoryOK, ProgressOK
<1>2. /\ Room(conv.strings) \in Nat /\ Room(conv.members) \in Nat
      /\ Needed \in Nat /\ Room(conv.strings) <= Needed
      /\ conv.kind = "group" =>
           /\ ArrayEnd \in Nat
           /\ base + Room(conv.strings) + RoundedPtrSize <= ArrayEnd
           /\ base + Needed = ArrayEnd + Room(conv.members)
      /\ conv.kind # "group" => Needed = Room(conv.strings)
  BY <1>1, NeededIsEnough
<1>3. CASE CopyField
  <2> DEFINE length == conv.strings[index]
             k == index
  <2>1. /\ pc = "strings" /\ index \in 1 .. Len(conv.strings)
        /\ UNCHANGED <<conv, base, size, tight>>
    BY <1>1, <1>3 DEF CopyField, caller
  <2>2. \/ (Skip(length) \/ Copy(length)) /\ index' = index + 1
        \/ NoRoom(length)
    BY <1>3 DEF CopyField
  <2>3. /\ length \in Nat \cup {NIL} /\ RoomOf(length) \in Nat
        /\ Rooms(conv.strings)[index] = Rooms(conv.strings)[index - 1] + RoomOf(length)
        /\ Rooms(conv.strings)[index - 1] \in Nat
        /\ Rooms(conv.strings)[index] <= Room(conv.strings)
    BY <1>1, <2>1, NextRoom
  <2>4. buffer = base + Rooms(conv.strings)[index - 1]
    BY <2>1 DEF Account, Taken
  <2> HIDE DEF length
  <2>5. CASE (Skip(length) \/ Copy(length)) /\ index' = index + 1
    <3>1. buffer' = buffer + RoomOf(length) /\ pc' = "strings"
      BY <1>1, <2>1, <2>3, <2>5, CopyTakesRoom DEF Skip, Copy
    <3>2. index' - 1 = index /\ index' <= Len(conv.strings) + 1
      BY <1>1, <2>1, <2>5
    <3>3. buffer' = base + Rooms(conv.strings)[index]
      BY <1>1, <2>3, <2>4, <3>1
    <3>4. buffer' = base' + Rooms(conv'.strings)[index' - 1]
      BY <2>1, <3>2, <3>3
    <3> QED BY <2>1, <3>1, <3>2, <3>4 DEF Account, Taken, SucceedsIffItFits
  <2>6. CASE NoRoom(length)
    <3>1. /\ buflen < RoomOf(length)
          /\ pc' = "done" /\ status' = "TRYAGAIN" /\ errnop' = "ERANGE"
      BY <1>1, <2>3, <2>6, CopyTakesRoom
    <3>2. buffer + buflen = base + size
      BY <2>1 DEF IInv, Phase, Counted
    <3>3. size < Needed
      BY <1>1, <1>2, <2>3, <2>4, <3>1, <3>2
    <3> QED BY <1>1, <2>1, <3>1, <3>3, FailsRightly
  <2> QED BY <2>2, <2>5, <2>6
<1>4. CASE CopyNumbers
  <2>1. /\ pc = "strings" /\ index > Len(conv.strings)
        /\ UNCHANGED <<conv, base, size, tight, buffer, buflen>>
    BY <1>4 DEF CopyNumbers, caller
  <2>2. index - 1 = Len(conv.strings)
    BY <1>1, <2>1 DEF Account, Taken
  <2>3. buffer = base + Room(conv.strings)
    BY <2>1, <2>2 DEF Account, Taken, Room
  <2>4. CASE conv.kind = "group"
    <3>1. pc' = "members"
      BY <1>4, <2>4 DEF CopyNumbers
    <3> QED BY <2>1, <2>3, <2>4, <3>1 DEF Account, Taken, SucceedsIffItFits
  <2>5. CASE conv.kind # "group"
    <3>1. pc' = "done" /\ status' = "SUCCESS"
      BY <1>4, <2>5 DEF CopyNumbers, Finish
    <3>2. buffer + buflen = base + size
      BY <2>1 DEF IInv, Phase, Counted
    <3>3. Needed <= size
      BY <1>1, <1>2, <2>3, <2>5, <3>2
    <3>4. Needed' <= size'
      BY <2>1, <3>3, NeededStays
    <3> QED BY <3>1, <3>4 DEF Account, Taken, SucceedsIffItFits
  <2> QED BY <2>4, <2>5
<1>5. CASE NotAnArray
  <2>1. pc = "members" /\ ~conv.isArray /\ pc' = "done" /\ conv' = conv
    BY <1>5 DEF NotAnArray, Finish, caller
  <2>2. conv.kind = "group"
    BY <2>1 DEF Account, Taken
  <2> QED BY <2>1, <2>2 DEF Account, Taken, SucceedsIffItFits
<1>6. CASE NoRoomForPointers
  <2>1. /\ pc = "members" /\ buflen < PtrSize /\ UNCHANGED <<conv, base, size>>
        /\ pc' = "done" /\ status' = "TRYAGAIN" /\ errnop' = "ERANGE"
    BY <1>6 DEF NoRoomForPointers, Finish, caller
  <2>2. conv.kind = "group" /\ buffer = base + Room(conv.strings)
    BY <2>1 DEF Account, Taken
  <2>3. buffer + buflen = base + size
    BY <2>1 DEF IInv, Phase, Counted
  <2>4. PtrSize \in Nat /\ RoundedPtrSize \in Nat /\ PtrSize <= RoundedPtrSize
    BY <1>1, PointersAreRounded
  <2>5. /\ Room(conv.strings) \in Nat /\ Room(conv.members) \in Nat /\ Needed \in Nat
        /\ ArrayEnd \in Nat /\ base + Room(conv.strings) + RoundedPtrSize <= ArrayEnd
        /\ base + Needed = ArrayEnd + Room(conv.members)
    BY <1>2, <2>2
  <2>6. size < Needed
    BY <1>1, <2>1, <2>2, <2>3, <2>4, <2>5
  <2> QED BY <1>1, <2>1, <2>6, FailsRightly
<1>7. CASE ReservePointers
  <2>1. /\ pc = "members" /\ pc' = "loop" /\ index' = 1 /\ conv.isArray
        /\ buffer' = buffer + Padding + RoundedPtrSize
        /\ UNCHANGED <<conv, base, size>>
    BY <1>7 DEF ReservePointers, caller
  <2>2. conv.kind = "group" /\ buffer = base + Room(conv.strings)
    BY <2>1 DEF Account, Taken
  <2>3. buffer' = ArrayEnd
    BY <2>1, <2>2 DEF ArrayEnd, Padding
  <2>4. Rooms(conv.members)[0] = 0
    BY <1>1, RoomsAreSums DEF Sums
  <2>5. index' - 1 = 0 /\ index' <= Len(conv.members) + 1
    BY <1>1, <2>1
  <2>6. buffer' = ArrayEnd + Rooms(conv.members)[index' - 1]
    BY <1>2, <2>2, <2>3, <2>4, <2>5
  <2>7. ArrayEnd' = ArrayEnd
    BY <2>1, NeededStays
  <2> QED BY <2>1, <2>2, <2>5, <2>6, <2>7 DEF Account, Taken, SucceedsIffItFits
<1>8. CASE CopyMember
  <2> DEFINE length == conv.members[index]
  <2>1. /\ pc = "loop" /\ index \in 1 .. Len(conv.members)
        /\ UNCHANGED <<conv, base, size, tight>>
    BY <1>1, <1>8 DEF CopyMember, caller
  <2>2. \/ (Skip(length) \/ Copy(length)) /\ index' = index + 1
        \/ NoRoom(length)
    BY <1>8 DEF CopyMember
  <2>3. /\ length \in Nat \cup {NIL} /\ RoomOf(length) \in Nat
        /\ Rooms(conv.members)[index] = Rooms(conv.members)[index - 1] + RoomOf(length)
        /\ Rooms(conv.members)[index - 1] \in Nat
        /\ Rooms(conv.members)[index] <= Room(conv.members)
    BY <1>1, <2>1, NextRoom
  <2>4. /\ conv.kind = "group" /\ conv.isArray
        /\ buffer = ArrayEnd + Rooms(conv.members)[index - 1]
    BY <2>1 DEF Account, Taken
  <2> HIDE DEF length
  <2>5. CASE (Skip(length) \/ Copy(length)) /\ index' = index + 1
    <3>1. buffer' = buffer + RoomOf(length) /\ pc' = "loop"
      BY <1>1, <2>1, <2>3, <2>5, CopyTakesRoom DEF Skip, Copy
    <3>2. index' - 1 = index /\ index' <= Len(conv.members) + 1
      BY <1>1, <2>1, <2>5
    <3>3. buffer' = ArrayEnd + Rooms(conv.members)[index]
      BY <1>2, <2>3, <2>4, <3>1
    <3>4. buffer' = ArrayEnd' + Rooms(conv'.members)[index' - 1]
      BY <2>1, <3>2, <3>3, NeededStays
    <3> QED BY <2>1, <2>4, <3>1, <3>2, <3>4 DEF Account, Taken, SucceedsIffItFits
  <2>6. CASE NoRoom(length)
    <3>1. /\ buflen < RoomOf(length)
          /\ pc' = "done" /\ status' = "TRYAGAIN" /\ errnop' = "ERANGE"
      BY <1>1, <2>3, <2>6, CopyTakesRoom
    <3>2. ~tight => buffer + buflen = base + size
      BY DEF IInv, Counted
    <3>3. /\ Room(conv.members) \in Nat /\ Needed \in Nat /\ ArrayEnd \in Nat
          /\ base + Needed = ArrayEnd + Room(conv.members)
      BY <1>2, <2>4
    <3>4. ASSUME ~tight PROVE size < Needed
      <4>1. buffer + buflen = base + size
        BY <3>2, <3>4
      <4> DEFINE done == Rooms(conv.members)[index - 1]
                 all == Room(conv.members)
                 one == RoomOf(length)
      <4>2. done \in Nat /\ one \in Nat /\ all \in Nat /\ done + one <= all
        BY <2>3, <3>3
      <4>3. buffer = ArrayEnd + done /\ buflen < one /\ base + Needed = ArrayEnd + all
        BY <2>4, <3>1, <3>3
      <4> HIDE DEF done, all, one
      <4> QED BY <1>1, <3>3, <4>1, <4>2, <4>3
    <3> QED BY <1>1, <2>1, <3>1, <3>4, FailsRightly
  <2> QED BY <2>2, <2>5, <2>6
<1>9. CASE Terminate
  <2>1. /\ pc = "loop" /\ index > Len(conv.members) /\ pc' = "done" /\ status' = "SUCCESS"
        /\ UNCHANGED <<conv, base, size, tight>>
    BY <1>9 DEF Terminate, Finish, caller
  <2>2. conv.kind = "group" /\ index - 1 = Len(conv.members)
    BY <1>1, <2>1 DEF Account, Taken
  <2>3. buffer = ArrayEnd + Room(conv.members)
    BY <2>1, <2>2 DEF Account, Taken, Room
  <2>4. ~tight => buffer + buflen = base + size
    BY DEF IInv, Counted
  <2>5. ~tight => Needed <= size
    BY <1>1, <1>2, <2>2, <2>3, <2>4
  <2>6. ~tight' => Needed' <= size'
    BY <2>1, <2>5, NeededStays
  <2> QED BY <2>1, <2>6 DEF Account, Taken, SucceedsIffItFits
<1>10. CASE UNCHANGED conversionVars
  <2>1. UNCHANGED <<conv, base, size, pc, index, buffer, status, errnop, tight>>
    BY <1>10 DEF conversionVars
  <2>2. Needed' = Needed /\ ArrayEnd' = ArrayEnd
    BY <2>1, NeededStays
  <2> QED BY <2>1, <2>2 DEF Account, Taken, SucceedsIffItFits
<1> QED BY <1>3, <1>4, <1>5, <1>6, <1>7, <1>8, <1>9, <1>10 DEF ConversionNext

\* A conversion succeeds exactly when the caller's buffer has the room that it
\* needs, and says ERANGE otherwise, for every record and every buffer.
THEOREM SucceedsWithRoom == ConversionSpec => []SucceedsIffItFits
<1>1. Account => SucceedsIffItFits
  BY DEF Account
<1> QED BY <1>1, AccountInit, AccountStep, InvariantHolds, PTL DEF ConversionSpec
=============================================================================
