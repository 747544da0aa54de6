---------------------------- MODULE NssBindings ----------------------------
(***************************************************************************)
(* Filling a caller's struct and buffer: copy_nss_string, json2pwd,        *)
(* json2grp with getgroupmem, and json2shadow of nss-json-bindings.c.      *)
(*                                                                         *)
(* The caller passes a buffer of size bytes at address base.  The code     *)
(* moves its pointer buffer and its count buflen together and writes what  *)
(* lies behind buffer, so a string is abstracted to its length and a write *)
(* to the range of addresses it covers.  buflen is a size_t and wraps.     *)
(***************************************************************************)
EXTENDS Integers, Sequences

CONSTANTS
  NIL,           \* the null pointer
  Conversions,   \* the JSON objects to convert, see ConversionsAssumption
  Bases,         \* the addresses of the caller's buffers
  Sizes,         \* their sizes
  PTR,           \* sizeof(const char *)
  SIZE_MAX       \* the largest size_t

\* strings holds the length of each string of the struct in the order in
\* which it is copied, NIL for one that is missing or not a string.  So
\* does members for a group; isArray says whether members is an array.
ASSUME ConversionsAssumption ==
  /\ NIL \notin Nat /\ NIL \notin [first : Nat, last : Nat]
  /\ \A c \in Conversions :
       /\ c.kind \in {"passwd", "group", "shadow"}
       /\ c.strings \in Seq(Nat \cup {NIL})
       /\ c.members \in Seq(Nat \cup {NIL})
       /\ c.isArray \in BOOLEAN

ASSUME BufferAssumption ==
  /\ PTR \in Nat \ {0}
  /\ SIZE_MAX \in Nat /\ (SIZE_MAX + 1) % 4 = 0
  /\ Bases \subseteq Nat
  /\ Sizes \subseteq 0 .. SIZE_MAX

VARIABLES
  conv,     \* the object being converted
  base,     \* address of the caller's buffer
  size,     \* its size
  pc,       \* what is done next
  index,    \* the string or the member that is copied next
  buffer,   \* address of the free part of the buffer
  buflen,   \* its size, as the code counts it
  fields,   \* the string pointers of the struct, as written ranges or NIL
  grMem,    \* the range of the array of member pointers, or NIL
  memPtrs,  \* the member pointers in it, as written ranges or NIL
  status,   \* what the conversion answers
  errnop,   \* what it leaves in *errnop
  tight     \* history: there was no room for the alignment of the array

conversionVars == <<conv, base, size, pc, index, buffer, buflen, fields, grMem,
                    memPtrs, status, errnop, tight>>

caller == <<conv, base, size>>

\* The addresses first .. last - 1.
Extent(first, last) == [first |-> first, last |-> last]

\* Subtraction of size_t.
Minus(a, b) == IF a >= b THEN a - b ELSE a - b + SIZE_MAX + 1

PtrSize == (Len(conv.members) + 1) * PTR

RoundedPtrSize == ((PtrSize + 3) \div 4) * 4

\* The distance to the next 4-byte boundary; on a boundary it is 4, not 0.
Padding == 4 - (buffer % 4)

ConversionInit ==
  /\ conv \in Conversions
  /\ base \in Bases
  /\ size \in Sizes
  /\ pc = "strings"
  /\ index = 1
  /\ buffer = base
  /\ buflen = size
  /\ fields = <<>>
  /\ grMem = NIL
  /\ memPtrs = <<>>
  /\ status = "NOTFOUND"
  /\ errnop = "unset"
  /\ tight = FALSE

-----------------------------------------------------------------------------

Finish(answer, error) ==
  /\ pc' = "done"
  /\ status' = answer
  /\ errnop' = error

\* A variant of Copy that asks for the room of the string without its end.
CopyWithoutEnd(length) ==
  /\ length # NIL
  /\ buflen >= length
  /\ buffer' = buffer + length + 1
  /\ buflen' = Minus(buflen, length + 1)
  /\ status' = "SUCCESS"
  /\ UNCHANGED <<pc, errnop>>

\* A variant of Skip that asks for that end although there is no string.
SkipWithEnd(length) ==
  /\ length = NIL
  /\ buflen >= 1
  /\ buffer' = buffer + 1
  /\ buflen' = buflen - 1
  /\ status' = "SUCCESS"
  /\ UNCHANGED <<pc, errnop>>

\* copy_nss_string: a string that is not there takes no room.
Skip(length) ==
  /\ length = NIL
  /\ status' = "SUCCESS"
  /\ UNCHANGED <<pc, buffer, buflen, errnop>>

Copy(length) ==
  /\ length # NIL
  /\ buflen >= length + 1
  /\ buffer' = buffer + length + 1
  /\ buflen' = buflen - (length + 1)
  /\ status' = "SUCCESS"
  /\ UNCHANGED <<pc, errnop>>

NoRoom(length) ==
  /\ length # NIL
  /\ buflen < length + 1
  /\ Finish("TRYAGAIN", "ERANGE")
  /\ UNCHANGED <<buffer, buflen>>

\* The pointer that copy_nss_string stores.
Stored(length) ==
  IF length = NIL THEN NIL ELSE Extent(buffer, buffer + length + 1)

\* One string of the struct.
CopyField ==
  /\ pc = "strings"
  /\ index <= Len(conv.strings)
  /\ LET length == conv.strings[index]
     IN  \/ /\ Skip(length) \/ Copy(length)
            /\ fields' = Append(fields, Stored(length))
            /\ index' = index + 1
         \/ NoRoom(length) /\ UNCHANGED <<fields, index>>
  /\ UNCHANGED <<caller, grMem, memPtrs, tight>>

\* The numbers of the struct take no room in the buffer.
CopyNumbers ==
  /\ pc = "strings"
  /\ index > Len(conv.strings)
  /\ IF conv.kind = "group"
       THEN pc' = "members" /\ status' = "NOTFOUND" /\ UNCHANGED errnop
       ELSE Finish("SUCCESS", errnop)
  /\ UNCHANGED <<caller, index, buffer, buflen, fields, grMem, memPtrs, tight>>

\* getgroupmem, before its loop.
NotAnArray ==
  /\ pc = "members"
  /\ ~conv.isArray
  /\ Finish("NOTFOUND", errnop)
  /\ UNCHANGED <<caller, index, buffer, buflen, fields, grMem, memPtrs, tight>>

NoRoomForPointers ==
  /\ pc = "members"
  /\ conv.isArray
  /\ buflen < PtrSize
  /\ Finish("TRYAGAIN", "ERANGE")
  /\ UNCHANGED <<caller, index, buffer, buflen, fields, grMem, memPtrs, tight>>

\* The room was checked without the padding that is taken here.
ReservePointers ==
  /\ pc = "members"
  /\ conv.isArray
  /\ buflen >= PtrSize
  /\ grMem' = Extent(buffer + Padding, buffer + Padding + PtrSize)
  /\ buffer' = buffer + Padding + RoundedPtrSize
  /\ buflen' = Minus(Minus(buflen, Padding), RoundedPtrSize)
  /\ tight' = (buflen < Padding + RoundedPtrSize)
  /\ pc' = "loop"
  /\ index' = 1
  /\ UNCHANGED <<caller, fields, memPtrs, status, errnop>>

\* One member.  A member that is no string leaves a NIL in the array.
CopyMember ==
  /\ pc = "loop"
  /\ index <= Len(conv.members)
  /\ LET length == conv.members[index]
     IN  \/ /\ Skip(length) \/ Copy(length)
            /\ memPtrs' = Append(memPtrs, Stored(length))
            /\ index' = index + 1
         \/ NoRoom(length) /\ UNCHANGED <<memPtrs, index>>
  /\ UNCHANGED <<caller, fields, grMem, tight>>

\* gr_mem[n] = NIL
Terminate ==
  /\ pc = "loop"
  /\ index > Len(conv.members)
  /\ Finish("SUCCESS", IF conv.members = <<>> THEN "0" ELSE errnop)
  /\ memPtrs' = Append(memPtrs, NIL)
  /\ UNCHANGED <<caller, index, buffer, buflen, fields, grMem, tight>>

ConversionNext ==
  \/ CopyField \/ CopyNumbers
  \/ NotAnArray \/ NoRoomForPointers \/ ReservePointers \/ CopyMember \/ Terminate

ConversionSpec == ConversionInit /\ [][ConversionNext]_conversionVars

-----------------------------------------------------------------------------
(* Properties                                                              *)

OptionalRanges == [first : Nat, last : Nat] \cup {NIL}

CallerOK == conv \in Conversions /\ base \in Bases /\ size \in Sizes

ProgressOK ==
  /\ pc \in {"strings", "members", "loop", "done"}
  /\ index \in Nat \ {0}
  /\ status \in {"SUCCESS", "NOTFOUND", "TRYAGAIN"}
  /\ errnop \in {"unset", "ERANGE", "0"}
  /\ tight \in BOOLEAN

MemoryOK ==
  /\ buffer \in Nat
  /\ buflen \in 0 .. SIZE_MAX
  /\ fields \in Seq(OptionalRanges)
  /\ grMem \in OptionalRanges
  /\ memPtrs \in Seq(OptionalRanges)

ConversionOK == CallerOK /\ ProgressOK /\ MemoryOK

\* Everything that has been written, in the order in which it was.
Written == (fields \o <<grMem>>) \o memPtrs

Positions == {i \in DOMAIN Written : Written[i] # NIL}

\* No write leaves the caller's buffer.
InBounds ==
  \A i \in Positions : base <= Written[i].first /\ Written[i].last <= base + size

\* No write reaches into what an earlier one has left there.
NoOverlap ==
  \A i, j \in Positions : i < j => Written[i].last <= Written[j].first

\* Both hold for users and shadow records, and for a group unless the room
\* that is left when its members are reached is too small for the pointers
\* by no more than their alignment.
SafeUnlessTight == ConversionOK /\ (~tight => InBounds /\ NoOverlap)

\* The room that the first n of the strings need, for each n, and all of them.
RoomOf(length) == IF length = NIL THEN 0 ELSE length + 1

Rooms(lengths) ==
  LET sum[n \in 0 .. Len(lengths)] ==
        IF n = 0 THEN 0 ELSE sum[n - 1] + RoomOf(lengths[n])
  IN  sum

Room(lengths) == Rooms(lengths)[Len(lengths)]

\* What the strings need, and what a whole group needs behind them.
Needed ==
  IF conv.kind = "group"
    THEN Room(conv.strings) + (4 - ((base + Room(conv.strings)) % 4))
           + RoundedPtrSize + Room(conv.members)
    ELSE Room(conv.strings)

\* A conversion succeeds exactly when the buffer has the room it needs, so a
\* caller who is told ERANGE and comes back with a larger one gets through,
\* unless the members of a group are not an array.
SucceedsIffItFits ==
  pc = "done" /\ ~tight /\ (conv.kind = "group" => conv.isArray)
    => /\ status = "SUCCESS" <=> Needed <= size
       /\ status = "TRYAGAIN" => errnop = "ERANGE"

\* bindings.c: there is enough room for the array of pointers.
PointersFit == grMem # NIL => grMem.last <= base + size
=============================================================================
