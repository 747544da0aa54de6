--------------------------- MODULE NssConfig_proofs ---------------------------
(***************************************************************************)
(* What holds of the configuration table for every file, every set of keys *)
(* and every number of threads: as long as no thread begins a request or   *)
(* exits during another's, the table is one thread's at a time, its values *)
(* are freed once, and each request goes where the file says.              *)
(***************************************************************************)
EXTENDS NssConfig, TLAPS

-----------------------------------------------------------------------------
(* Facts about the operators of the model                                  *)

\* A remainder is a slot of the table, unless it is negative.
LEMMA HashIsSlotOrNegative ==
  ASSUME NEW key \in Keys
  PROVE  /\ TextHash(key) \in Slots \/ TextHash(key) < 0
         /\ CharSum[key] >= 0 => TextHash(key) \in Slots
<1> DEFINE n == CharSum[key]
<1>1. n \in Int /\ HASHMAX \in Nat /\ HASHMAX > 0
  <2>1. CharSum \in [Keys -> Int]
    BY ConfigAssumption
  <2>2. HASHMAX \in Nat \ {0}
    BY ConfigAssumption
  <2> QED BY <2>1, <2>2
<1>2. TextHash(key) = IF n >= 0 THEN n % HASHMAX ELSE -((-n) % HASHMAX)
  BY DEF TextHash
<1> HIDE DEF n
<1>3. n % HASHMAX \in 0 .. HASHMAX - 1 /\ (-n) % HASHMAX \in 0 .. HASHMAX - 1
  BY <1>1
<1>4. Slots = 0 .. HASHMAX - 1
  BY DEF Slots
<1>5. CASE n >= 0
  BY <1>2, <1>3, <1>4, <1>5
<1>6. CASE ~(n >= 0)
  <2> DEFINE r == (-n) % HASHMAX
  <2>1. TextHash(key) = -r /\ r \in 0 .. HASHMAX - 1
    BY <1>2, <1>3, <1>6
  <2> HIDE DEF r
  <2>2. CASE r = 0
    BY <1>1, <1>4, <2>1, <2>2
  <2>3. CASE r > 0
    BY <1>1, <1>6, <2>1, <2>3 DEF n
  <2> QED BY <1>1, <2>1, <2>2, <2>3
<1> QED BY <1>5, <1>6 DEF n

\* The three options of the library have slots.
LEMMA OptionsHaveSlots ==
  \A key \in {"url", "includeRequestArg", "verbose"} :
    key \in Keys /\ TextHash(key) \in Slots
<1>1. \A key \in {"url", "includeRequestArg", "verbose"} : key \in Keys /\ CharSum[key] >= 0
  BY ConfigAssumption
<1> QED BY <1>1, HashIsSlotOrNegative

\* What is left of a sequence from one place on has the rest as its tail.
LEMMA TailOfRest ==
  ASSUME NEW S, NEW s \in Seq(S), NEW i \in 1 .. Len(s)
  PROVE  Tail(SubSeq(s, i, Len(s))) = SubSeq(s, i + 1, Len(s))
OBVIOUS

\* What a lookup returns is in the table.
LEMMA LookupIsStored ==
  ASSUME TypeOK, NEW key \in {"url", "includeRequestArg", "verbose"}
  PROVE  Cfg(key) \in Ptr \cup {NULL} /\ (Cfg(key) # NULL => Cfg(key) \in Stored)
<1>1. TextHash(key) \in Slots
  BY OptionsHaveSlots
<1>2. options \in [Slots -> Ptr \cup {NULL}]
  BY DEF TypeOK, TableOK
<1> QED BY <1>1, <1>2 DEF Cfg, Stored, Range

-----------------------------------------------------------------------------
(* Types                                                                   *)

\* The initial state is well typed.
LEMMA TypeInit == Init => TypeOK
<1> SUFFICES ASSUME Init PROVE TypeOK
  OBVIOUS
<1>1. TableOK
  BY DEF Init, TableOK
<1>2. LocalsOK
  BY DEF Init, LocalsOK
<1>3. FlagsOK
  BY DEF Init, FlagsOK
<1> QED BY <1>1, <1>2, <1>3 DEF TypeOK

\* The free loops keep the heap a heap.
LEMMA FreeKeepsTypes ==
  ASSUME TypeOK, FreeIfOpen
  PROVE  heap' \in [Ptr -> Values \cup {NULL}] /\ fault' \in BOOLEAN
<1>1. heap \in [Ptr -> Values \cup {NULL}] /\ fault \in BOOLEAN
  BY DEF TypeOK, TableOK, FlagsOK
<1>2. CASE confisopen
  <2>1. heap' = [p \in Ptr |-> IF p \in Stored THEN NULL ELSE heap[p]]
    BY <1>2 DEF FreeIfOpen, FreeOptions
  <2>2. fault' \in BOOLEAN
    BY <1>2 DEF FreeIfOpen, FreeOptions
  <2> QED BY <1>1, <2>1, <2>2
<1>3. CASE ~confisopen
  BY <1>1, <1>3 DEF FreeIfOpen
<1> QED BY <1>2, <1>3

\* So is every state after it: each action assigns what it should.
LEMMA TypeStep == TypeOK /\ [Next]_vars => TypeOK'
<1> SUFFICES ASSUME TypeOK, [Next]_vars PROVE TypeOK'
  OBVIOUS
<1> USE DEF TypeOK, locals, unseen
<1>1. ASSUME NEW t \in Thread, Free(t) PROVE TypeOK'
  <2>1. heap' \in [Ptr -> Values \cup {NULL}] /\ fault' \in BOOLEAN
    BY <1>1, FreeKeepsTypes DEF Free
  <2>2. TableOK' /\ LocalsOK'
    BY <1>1, <2>1 DEF Free, Moves, TableOK, LocalsOK
  <2>3. FlagsOK'
    BY <1>1, <2>1 DEF Free, FlagsOK
  <2> QED BY <2>2, <2>3
<1>2. ASSUME NEW t \in Thread, Forget(t) PROVE TypeOK'
  BY <1>2 DEF Forget, Moves, TableOK, LocalsOK, FlagsOK
<1>3. ASSUME NEW t \in Thread, Open(t) PROVE TypeOK'
  <2>1. TableOK' /\ FlagsOK'
    BY <1>3 DEF Open, TableOK, FlagsOK
  <2>2. file = NULL \/ file \in Seq(Lines)
    BY FilesAssumption DEF TableOK, Lines
  <2>3. LocalsOK'
    BY <1>3, <2>2 DEF Open, Moves, TableOK, LocalsOK
  <2> QED BY <2>1, <2>3
<1>4. ASSUME NEW t \in Thread, ReadLine(t) PROVE TypeOK'
  <2>1. lines[t] \in Seq(Lines) /\ lines[t] # <<>>
    BY <1>4 DEF ReadLine, LocalsOK
  <2>2. Tail(lines[t]) \in Seq(Lines) /\ Head(lines[t]) \in Lines
    BY <2>1
  <2>3. LocalsOK'
    BY <1>4, <2>2 DEF ReadLine, Moves, LocalsOK
  <2> DEFINE line == Head(lines[t])
             h == TextHash(line.key)
  <2>4. CASE line = NULL
    <3>1. UNCHANGED <<file, heap, options, confisopen, registered, exited, fault, starved,
                      strange, raced>>
      BY <1>4, <2>4 DEF ReadLine
    <3> QED BY <2>3, <3>1 DEF TableOK, FlagsOK
  <2>5. CASE line # NULL
    <3>1. line.val \in Values
      BY <2>2, <2>5 DEF Lines
    <3>2. /\ UNCHANGED <<file, confisopen, registered, exited, raced>>
          /\ strange' = (strange \/ h < 0)
          /\ IF h \in Slots THEN Store(h, line.val)
             ELSE fault' = TRUE /\ UNCHANGED <<heap, options, starved>>
      BY <1>4, <2>5 DEF ReadLine
    <3> HIDE DEF h, line
    <3>3. CASE h \in Slots /\ \E p \in Fresh :
                 /\ heap' = [heap EXCEPT ![p] = line.val]
                 /\ options' = [options EXCEPT ![h] = p]
                 /\ UNCHANGED <<fault, starved>>
      <4>1. TableOK'
        BY <3>1, <3>2, <3>3 DEF TableOK, Fresh
      <4>2. FlagsOK'
        BY <3>2, <3>3 DEF FlagsOK
      <4> QED BY <2>3, <4>1, <4>2
    <3>4. CASE fault' \in BOOLEAN /\ starved' \in BOOLEAN /\ UNCHANGED <<heap, options>>
      <4>1. TableOK'
        BY <3>2, <3>4 DEF TableOK
      <4>2. FlagsOK'
        BY <3>2, <3>4 DEF FlagsOK
      <4> QED BY <2>3, <4>1, <4>2
    <3> QED BY <3>2, <3>3, <3>4 DEF Store, FlagsOK
  <2> QED BY <2>4, <2>5
<1>5. ASSUME NEW t \in Thread, EndOfFile(t) PROVE TypeOK'
  <2>1. TableOK' /\ FlagsOK'
    BY <1>5 DEF EndOfFile, TableOK, FlagsOK
  <2>2. LocalsOK'
    BY <1>5 DEF EndOfFile, Moves, LocalsOK
  <2> QED BY <2>1, <2>2
<1>6. ASSUME NEW t \in Thread, GetUrl(t) PROVE TypeOK'
  <2>1. Cfg("url") \in Ptr \cup {NULL}
    BY LookupIsStored
  <2>2. TableOK' /\ FlagsOK'
    BY <1>6 DEF GetUrl, TableOK, FlagsOK
  <2>3. LocalsOK'
    BY <1>6, <2>1 DEF GetUrl, Moves, LocalsOK
  <2> QED BY <2>2, <2>3
<1>7. ASSUME NEW t \in Thread, GetFlags(t) PROVE TypeOK'
  <2>1. TableOK' /\ LocalsOK'
    BY <1>7 DEF GetFlags, Moves, TableOK, LocalsOK
  <2>2. FlagsOK'
    BY <1>7 DEF GetFlags, FlagsOK
  <2> QED BY <2>1, <2>2
<1>8. ASSUME NEW t \in Thread, UseUrl(t) PROVE TypeOK'
  <2>1. TableOK'
    BY <1>8 DEF UseUrl, TableOK
  <2>2. url[t] = NULL \/ heap[url[t]] \in Values \cup {NULL}
    BY DEF TableOK, LocalsOK
  <2>3. LocalsOK'
    BY <1>8, <2>2 DEF UseUrl, Moves, LocalsOK
  <2>4. FlagsOK'
    BY <1>8 DEF UseUrl, FlagsOK, Dangles
  <2> QED BY <2>1, <2>3, <2>4
<1>9. ASSUME NEW t \in Thread, Clean(t) PROVE TypeOK'
  <2>1. heap' \in [Ptr -> Values \cup {NULL}] /\ fault' \in BOOLEAN
    BY <1>9, FreeKeepsTypes DEF Clean, CleanupConfig
  <2>2. TableOK'
    BY <1>9, <2>1 DEF Clean, CleanupConfig, TableOK
  <2>3. LocalsOK'
    <3>1. (lines \in [Thread -> Seq(Lines)])'
      <4> DEFINE Rest == Seq(Lines)
      <4>1. <<>> \in Rest
        OBVIOUS
      <4>2. lines \in [Thread -> Rest]
        BY DEF LocalsOK
      <4> HIDE DEF Rest
      <4>3. lines' \in [Thread -> Rest]
        BY <1>9, <4>1, <4>2 DEF Clean
      <4> QED BY <4>3 DEF Rest
    <3>2. (/\ seen \in [Thread -> Files \cup {NULL}]
           /\ url \in [Thread -> Ptr \cup {NULL}]
           /\ used \in [Thread -> Values \cup {"", NULL}])'
      BY <1>9 DEF Clean, LocalsOK
    <3> QED BY <1>9, <3>1, <3>2 DEF Clean, Moves, LocalsOK
  <2>4. FlagsOK'
    BY <1>9, <2>1 DEF Clean, CleanupConfig, FlagsOK
  <2> QED BY <2>2, <2>3, <2>4
<1>10. ASSUME NEW t \in Thread, Exit(t) PROVE TypeOK'
  <2>1. TableOK' /\ LocalsOK'
    BY <1>10 DEF Exit, TableOK, LocalsOK
  <2>2. FlagsOK'
    BY <1>10 DEF Exit, FlagsOK
  <2> QED BY <2>1, <2>2
<1>11. ASSUME RunHandler PROVE TypeOK'
  <2>1. heap' \in [Ptr -> Values \cup {NULL}] /\ fault' \in BOOLEAN
    BY <1>11, FreeKeepsTypes DEF RunHandler, CleanupConfig
  <2>2. TableOK'
    BY <1>11, <2>1 DEF RunHandler, CleanupConfig, TableOK
  <2>4. LocalsOK'
    BY <1>11 DEF RunHandler, LocalsOK
  <2>3. FlagsOK'
    BY <1>11, <2>1 DEF RunHandler, CleanupConfig, FlagsOK
  <2> QED BY <2>2, <2>3, <2>4
<1>12. CASE Edit
  BY <1>12 DEF Edit, TableOK, LocalsOK, FlagsOK
<1>13. CASE UNCHANGED vars
  BY <1>13 DEF vars, TableOK, LocalsOK, FlagsOK
<1> QED BY <1>1, <1>2, <1>3, <1>4, <1>5, <1>6, <1>7, <1>8, <1>9, <1>10, <1>11, <1>12, <1>13
        DEF Next

-----------------------------------------------------------------------------
(* The inductive invariant                                                 *)

\* One thread is in delegate at a time, and none after exit.
Alone ==
  /\ \A t, u \in Thread : Inside(t) /\ Inside(u) => t = u
  /\ exited => (\A t \in Thread : ~Inside(t)) /\ \E t \in Thread : pc[t] = "gone"

\* The table is open between the end of the file and cleanupconfig; its
\* values are live while it is in use; and until exit no others are.
InUse(t) == pc[t] \in {"get", "flags", "use", "clean"}

ValuesAreHeld ==
  /\ confisopen => exited \/ \E t \in Thread : InUse(t)
  /\ confisopen \/ (\E t \in Thread : InUse(t) \/ pc[t] \in {"open", "lines"})
       => \A p \in Stored : heap[p] # NULL
  /\ ~exited
       => \A p \in Ptr : heap[p] # NULL
            => p \in Stored /\ (confisopen \/ \E t \in Thread : pc[t] = "lines")

\* The value at p is that of the first of the lines S of the file.
IsFirst(t, S, p) ==
  IF S = {} THEN p = NULL
  ELSE p # NULL /\ \E i \in S : (\A j \in S : i <= j) /\ heap[p] = seen[t][i].val

\* The lines that go into the slot of url.
SlotLines(t) ==
  IF seen[t] = NULL THEN {}
  ELSE {i \in DOMAIN seen[t] :
          seen[t][i] # NULL /\ TextHash(seen[t][i].key) = TextHash("url")}

\* The url is the first of them in what t has read of its file, up to its use.
LinesRead(t) == Len(seen[t]) - Len(lines[t])

FileIsFollowed(t) ==
  /\ pc[t] = "open" => Stored = {}
  /\ pc[t] = "lines" =>
       /\ seen[t] \in Files \ {NULL}
       /\ Len(lines[t]) <= Len(seen[t])
       /\ lines[t] = SubSeq(seen[t], LinesRead(t) + 1, Len(seen[t]))
       /\ IsFirst(t, {i \in SlotLines(t) : i <= LinesRead(t)}, Cfg("url"))
  /\ pc[t] \in {"get", "flags", "use"} => IsFirst(t, SlotLines(t), Cfg("url"))
  /\ pc[t] \in {"flags", "use"} => url[t] = Cfg("url")
  /\ pc[t] = "clean" =>
       IF SlotLines(t) = {} THEN used[t] = ""
       ELSE \E i \in SlotLines(t) :
              (\A j \in SlotLines(t) : i <= j) /\ used[t] = seen[t][i].val

Orderly == Alone /\ ValuesAreHeld /\ \A t \in Thread : FileIsFollowed(t)

IInv ==
  /\ OnlyTheTableIsUsed
  /\ ~raced /\ ~fault => Orderly

\* What a step does that is neither a race nor runs out of memory.
StaysOrderly == (fault' => starved' \/ strange') /\ (~fault' => Orderly')

\* An address is in the table if it is in one of its slots.
LEMMA StoredInSlot ==
  ASSUME TypeOK, NEW p
  PROVE  p \in Stored <=> p # NULL /\ \E h \in Slots : options[h] = p
BY DEF TypeOK, TableOK, Stored, Range

\* While a thread is in delegate the others are not.
LEMMA OthersAreOutside ==
  ASSUME TypeOK, Orderly, NEW t \in Thread, Inside(t)
  PROVE  /\ ~exited
         /\ \A u \in Thread \ {t} : pc[u] \in {"idle", "gone"}
BY DEF Orderly, Alone, Inside

\* So a step of its own leaves them as they are.
LEMMA AloneAfterStep ==
  ASSUME TypeOK, Orderly, NEW t \in Thread, Inside(t),
         NEW next, pc' = [pc EXCEPT ![t] = next], exited' = exited
  PROVE  /\ Alone'
         /\ pc'[t] = next
         /\ \A u \in Thread \ {t} : pc'[u] \in {"idle", "gone"}
         /\ \A u \in Thread \ {t} : FileIsFollowed(u)'
<1>1. ~exited /\ \A u \in Thread \ {t} : pc[u] \in {"idle", "gone"}
  BY OthersAreOutside
<1>2. pc'[t] = next /\ \A u \in Thread \ {t} : pc'[u] \in {"idle", "gone"}
  BY <1>1 DEF TypeOK, LocalsOK
<1>3. Alone'
  BY <1>1, <1>2 DEF Alone, Inside
<1>4. \A u \in Thread \ {t} : FileIsFollowed(u)'
  BY <1>2 DEF FileIsFollowed
<1> QED BY <1>2, <1>3, <1>4

-----------------------------------------------------------------------------
(* Each step keeps it                                                      *)

\* There is nothing to free when a request begins.
LEMMA FreeStep ==
  ASSUME TypeOK, Orderly, NEW t \in Thread, Free(t), ~raced'
  PROVE  StaysOrderly
<1>1. ~exited /\ (\A u \in Thread : ~Inside(u)) /\ ~fault /\ pc' = [pc EXCEPT ![t] = "forget"]
  BY DEF Free, Moves
<1>2. pc[t] = "idle" /\ \A u \in Thread : pc[u] \in {"idle", "gone"}
  BY <1>1 DEF Free, Moves, Inside
<1>3. ~confisopen /\ \A p \in Ptr : heap[p] = NULL
  BY <1>1, <1>2 DEF Orderly, ValuesAreHeld, InUse
<1>4. UNCHANGED <<heap, fault, options, confisopen, exited>>
  BY <1>3 DEF Free, FreeIfOpen
<1>5. pc'[t] = "forget" /\ \A u \in Thread \ {t} : pc'[u] \in {"idle", "gone"}
  BY <1>1, <1>2 DEF TypeOK, LocalsOK
<1>6. Alone'
  BY <1>1, <1>4, <1>5 DEF Alone, Inside
<1>7. ValuesAreHeld'
  BY <1>1, <1>3, <1>4, <1>5 DEF ValuesAreHeld, InUse
<1>8. \A u \in Thread : FileIsFollowed(u)'
  BY <1>5 DEF FileIsFollowed
<1> QED BY <1>1, <1>4, <1>6, <1>7, <1>8 DEF StaysOrderly, Orderly

\* No pointer is left in the table.
LEMMA ForgetStep ==
  ASSUME TypeOK, Orderly, NEW t \in Thread, Forget(t)
  PROVE  StaysOrderly
<1>1. pc[t] = "forget" /\ Inside(t) /\ ~fault /\ pc' = [pc EXCEPT ![t] = "open"]
      /\ UNCHANGED <<heap, confisopen, exited, fault>>
      /\ options' = [h \in Slots |-> NULL]
  BY DEF Forget, Moves, Inside
<1>2. ~exited /\ \A u \in Thread \ {t} : pc[u] \in {"idle", "gone"}
  BY <1>1, OthersAreOutside
<1>3. /\ Alone' /\ pc'[t] = "open"
      /\ \A u \in Thread \ {t} : pc'[u] \in {"idle", "gone"} /\ FileIsFollowed(u)'
  BY <1>1, AloneAfterStep
<1>4. ~confisopen /\ \A p \in Ptr : heap[p] = NULL
  BY <1>1, <1>2 DEF Orderly, ValuesAreHeld, InUse
<1>5. Stored' = {}
  BY <1>1 DEF Stored, Range
<1>6. ValuesAreHeld'
  BY <1>1, <1>2, <1>3, <1>4, <1>5 DEF ValuesAreHeld
<1>7. FileIsFollowed(t)'
  BY <1>3, <1>5 DEF FileIsFollowed
<1> QED BY <1>1, <1>3, <1>6, <1>7 DEF StaysOrderly, Orderly

\* The file is opened at its first line, or there is none.
LEMMA OpenStep ==
  ASSUME TypeOK, Orderly, NEW t \in Thread, Open(t)
  PROVE  StaysOrderly
<1> DEFINE next == IF file = NULL THEN "get" ELSE "lines"
<1>1. pc[t] = "open" /\ Inside(t) /\ ~fault /\ pc' = [pc EXCEPT ![t] = next]
      /\ UNCHANGED <<heap, options, confisopen, exited, fault>>
      /\ seen' = [seen EXCEPT ![t] = file]
      /\ lines' = [lines EXCEPT ![t] = IF file = NULL THEN @ ELSE file]
  BY DEF Open, Moves, Inside
<1>2. ~exited /\ \A u \in Thread \ {t} : pc[u] \in {"idle", "gone"}
  BY <1>1, OthersAreOutside
<1>3. /\ Alone' /\ pc'[t] = next
      /\ \A u \in Thread \ {t} : pc'[u] \in {"idle", "gone"} /\ FileIsFollowed(u)'
  <2> HIDE DEF next
  <2> QED BY <1>1, AloneAfterStep
<1>4. Stored = {} /\ Stored' = {}
  BY <1>1 DEF Orderly, FileIsFollowed, Stored
<1>5. ~confisopen /\ \A p \in Ptr : heap[p] = NULL
  BY <1>1, <1>2, <1>4 DEF Orderly, ValuesAreHeld, InUse
<1>6. ValuesAreHeld'
  BY <1>1, <1>2, <1>4, <1>5 DEF ValuesAreHeld
<1>7. Cfg("url") = NULL /\ Cfg("url")' = NULL
  BY <1>1, <1>4, LookupIsStored DEF Cfg
<1>8. seen'[t] = file /\ (file # NULL => lines'[t] = file)
  BY <1>1 DEF TypeOK, LocalsOK
<1>9. FileIsFollowed(t)'
  <2>1. CASE file = NULL
    <3>1. SlotLines(t)' = {}
      BY <1>8, <2>1 DEF SlotLines
    <3>2. IsFirst(t, SlotLines(t), Cfg("url"))'
      BY <1>7, <3>1 DEF IsFirst
    <3> QED BY <1>3, <2>1, <3>2 DEF FileIsFollowed
  <2>2. CASE file # NULL
    <3>1. file \in Files \ {NULL} /\ file \in Seq(Lines)
      BY <2>2, FilesAssumption DEF TypeOK, TableOK, Lines
    <3>2. LinesRead(t)' = 0
      BY <1>8, <2>2, <3>1 DEF LinesRead
    <3>3. {i \in SlotLines(t) : i <= LinesRead(t)}' = {}
      BY <1>8, <2>2, <3>1, <3>2 DEF SlotLines
    <3>4. file = SubSeq(file, 1, Len(file)) /\ Len(file) <= Len(file)
      BY <3>1
    <3>5. IsFirst(t, {i \in SlotLines(t) : i <= LinesRead(t)}, Cfg("url"))'
      BY <1>7, <3>3 DEF IsFirst
    <3>6. lines'[t] = SubSeq(seen'[t], LinesRead(t)' + 1, Len(seen'[t]))
          /\ Len(lines'[t]) <= Len(seen'[t])
      BY <1>8, <2>2, <3>2, <3>4
    <3> QED BY <1>3, <1>8, <2>2, <3>1, <3>5, <3>6 DEF FileIsFollowed
  <2> QED BY <2>1, <2>2
<1> QED BY <1>1, <1>3, <1>6, <1>9 DEF StaysOrderly, Orderly

\* The table is open from here on.
LEMMA EndOfFileStep ==
  ASSUME TypeOK, Orderly, NEW t \in Thread, EndOfFile(t)
  PROVE  StaysOrderly
<1>1. pc[t] = "lines" /\ Inside(t) /\ ~fault /\ pc' = [pc EXCEPT ![t] = "get"]
      /\ UNCHANGED <<heap, options, exited, fault, seen>> /\ confisopen'
      /\ lines[t] = <<>>
  BY DEF EndOfFile, Moves, Inside, locals
<1>2. ~exited
  BY <1>1, OthersAreOutside
<1>3. /\ Alone' /\ pc'[t] = "get"
      /\ \A u \in Thread \ {t} : pc'[u] \in {"idle", "gone"} /\ FileIsFollowed(u)'
  BY <1>1, AloneAfterStep
<1>4. ValuesAreHeld'
  BY <1>1, <1>2, <1>3 DEF Orderly, ValuesAreHeld, InUse, Stored
<1>5. SlotLines(t)' = SlotLines(t) /\ Cfg("url")' = Cfg("url")
  BY <1>1 DEF SlotLines, Cfg
<1>6. seen[t] \in Seq(Lines) /\ seen[t] # NULL
  BY <1>1, FilesAssumption DEF Orderly, FileIsFollowed, Lines
<1>7. {i \in SlotLines(t) : i <= LinesRead(t)} = SlotLines(t)
  BY <1>1, <1>6 DEF LinesRead, SlotLines
<1>8. IsFirst(t, SlotLines(t), Cfg("url"))
  BY <1>1, <1>7 DEF Orderly, FileIsFollowed
<1>9. FileIsFollowed(t)'
  <2>1. IsFirst(t, SlotLines(t), Cfg("url"))'
    BY <1>1, <1>5, <1>8 DEF IsFirst
  <2> QED BY <1>3, <2>1 DEF FileIsFollowed
<1> QED BY <1>1, <1>3, <1>4, <1>9 DEF StaysOrderly, Orderly

\* The url is a pointer to a value of the table.
LEMMA GetUrlStep ==
  ASSUME TypeOK, Orderly, NEW t \in Thread, GetUrl(t)
  PROVE  StaysOrderly
<1>1. pc[t] = "get" /\ Inside(t) /\ ~fault /\ pc' = [pc EXCEPT ![t] = "flags"]
      /\ UNCHANGED <<heap, options, confisopen, exited, fault, seen>>
      /\ url' = [url EXCEPT ![t] = Cfg("url")]
  BY DEF GetUrl, Moves, Inside
<1>2. /\ Alone' /\ pc'[t] = "flags"
      /\ \A u \in Thread \ {t} : pc'[u] \in {"idle", "gone"} /\ FileIsFollowed(u)'
  BY <1>1, AloneAfterStep
<1>3. ValuesAreHeld'
  BY <1>1, <1>2, OthersAreOutside DEF Orderly, ValuesAreHeld, InUse, Stored
<1>4. SlotLines(t)' = SlotLines(t) /\ Cfg("url")' = Cfg("url") /\ url'[t] = Cfg("url")
  BY <1>1 DEF SlotLines, Cfg, TypeOK, LocalsOK
<1>5. IsFirst(t, SlotLines(t), Cfg("url"))'
  <2>1. IsFirst(t, SlotLines(t), Cfg("url"))
    BY <1>1 DEF Orderly, FileIsFollowed
  <2> QED BY <1>1, <1>4, <2>1 DEF IsFirst
<1>6. FileIsFollowed(t)'
  BY <1>2, <1>4, <1>5 DEF FileIsFollowed
<1> QED BY <1>1, <1>2, <1>3, <1>6 DEF StaysOrderly, Orderly

\* The other options are values of the table, too.
LEMMA GetFlagsStep ==
  ASSUME TypeOK, Orderly, NEW t \in Thread, GetFlags(t)
  PROVE  StaysOrderly
<1>1. pc[t] = "flags" /\ Inside(t) /\ ~fault /\ pc' = [pc EXCEPT ![t] = "use"]
      /\ UNCHANGED <<heap, options, confisopen, exited, seen, url>>
      /\ fault' = (Dangles(Cfg("includeRequestArg")) \/ Dangles(Cfg("verbose")))
  BY DEF GetFlags, Moves, Inside, locals
<1>2. /\ Alone' /\ pc'[t] = "use"
      /\ \A u \in Thread \ {t} : pc'[u] \in {"idle", "gone"} /\ FileIsFollowed(u)'
  BY <1>1, AloneAfterStep
<1>3. \A p \in Stored : heap[p] # NULL
  BY <1>1 DEF Orderly, ValuesAreHeld, InUse
<1>4. ~fault'
  BY <1>1, <1>3, LookupIsStored DEF Dangles
<1>5. ValuesAreHeld'
  BY <1>1, <1>2, OthersAreOutside DEF Orderly, ValuesAreHeld, InUse, Stored
<1>6. SlotLines(t)' = SlotLines(t) /\ Cfg("url")' = Cfg("url")
  BY <1>1 DEF SlotLines, Cfg
<1>7. url[t] = Cfg("url") /\ IsFirst(t, SlotLines(t), Cfg("url"))
  BY <1>1 DEF Orderly, FileIsFollowed
<1>8. IsFirst(t, SlotLines(t), Cfg("url"))'
  BY <1>1, <1>6, <1>7 DEF IsFirst
<1>9. FileIsFollowed(t)'
  BY <1>1, <1>2, <1>6, <1>7, <1>8 DEF FileIsFollowed
<1> QED BY <1>2, <1>4, <1>5, <1>9 DEF StaysOrderly, Orderly

\* The request goes to the value that the pointer leads to.
LEMMA UseUrlStep ==
  ASSUME TypeOK, Orderly, NEW t \in Thread, UseUrl(t)
  PROVE  StaysOrderly
<1>1. pc[t] = "use" /\ Inside(t) /\ ~fault /\ pc' = [pc EXCEPT ![t] = "clean"]
      /\ UNCHANGED <<heap, options, confisopen, exited, seen, url>>
      /\ used' = [used EXCEPT ![t] = IF url[t] = NULL THEN "" ELSE heap[url[t]]]
      /\ fault' = Dangles(url[t])
  BY DEF UseUrl, Moves, Inside
<1>2. /\ Alone' /\ pc'[t] = "clean"
      /\ \A u \in Thread \ {t} : pc'[u] \in {"idle", "gone"} /\ FileIsFollowed(u)'
  BY <1>1, AloneAfterStep
<1>3. url[t] = Cfg("url") /\ IsFirst(t, SlotLines(t), Cfg("url"))
  BY <1>1 DEF Orderly, FileIsFollowed
<1>4. ~fault'
  <2>1. \A p \in Stored : heap[p] # NULL
    BY <1>1 DEF Orderly, ValuesAreHeld, InUse
  <2> QED BY <1>1, <1>3, <2>1, LookupIsStored DEF Dangles
<1>5. ValuesAreHeld'
  BY <1>1, <1>2, OthersAreOutside DEF Orderly, ValuesAreHeld, InUse, Stored
<1>6. SlotLines(t)' = SlotLines(t)
  BY <1>1 DEF SlotLines
<1>7. used'[t] = IF url[t] = NULL THEN "" ELSE heap[url[t]]
  BY <1>1 DEF TypeOK, LocalsOK
<1>8. IF SlotLines(t)' = {} THEN used'[t] = ""
      ELSE \E i \in SlotLines(t)' :
             (\A j \in SlotLines(t)' : i <= j) /\ used'[t] = seen'[t][i].val
  BY <1>1, <1>3, <1>6, <1>7 DEF IsFirst
<1>9. FileIsFollowed(t)'
  BY <1>2, <1>8 DEF FileIsFollowed
<1> QED BY <1>2, <1>4, <1>5, <1>9 DEF StaysOrderly, Orderly

\* All values are freed, each of them once.
LEMMA CleanStep ==
  ASSUME TypeOK, Orderly, NEW t \in Thread, Clean(t)
  PROVE  StaysOrderly
<1>1. pc[t] = "clean" /\ Inside(t) /\ ~fault /\ pc' = [pc EXCEPT ![t] = "idle"]
      /\ UNCHANGED <<options, exited>> /\ ~confisopen' /\ FreeIfOpen
  BY DEF Clean, CleanupConfig, Moves, Inside
<1>2. ~exited /\ \A u \in Thread \ {t} : pc[u] \in {"idle", "gone"}
  BY <1>1, OthersAreOutside
<1>3. /\ Alone' /\ pc'[t] = "idle"
      /\ \A u \in Thread \ {t} : pc'[u] \in {"idle", "gone"} /\ FileIsFollowed(u)'
  BY <1>1, AloneAfterStep
<1>4. /\ \A p \in Stored : heap[p] # NULL
      /\ \A p \in Ptr : heap[p] # NULL => p \in Stored /\ confisopen
  BY <1>1, <1>2 DEF Orderly, ValuesAreHeld, InUse
<1>5. ~fault' /\ \A p \in Ptr : heap'[p] = NULL
  BY <1>1, <1>4 DEF FreeIfOpen, FreeOptions
<1>6. ValuesAreHeld'
  BY <1>1, <1>3, <1>5 DEF ValuesAreHeld, InUse
<1>7. FileIsFollowed(t)'
  BY <1>3 DEF FileIsFollowed
<1> QED BY <1>3, <1>5, <1>6, <1>7 DEF StaysOrderly, Orderly

\* Whoever exits leaves the table to the handlers.
LEMMA ExitStep ==
  ASSUME TypeOK, Orderly, NEW t \in Thread, Exit(t), ~raced'
  PROVE  StaysOrderly
<1>1. ~fault /\ pc' = [pc EXCEPT ![t] = "gone"] /\ exited'
      /\ UNCHANGED <<heap, options, confisopen, fault>>
      /\ \A u \in Thread \ {t} : ~Inside(u)
  BY DEF Exit
<1>2. \A u \in Thread : pc'[u] \in {"idle", "gone"}
  BY <1>1 DEF Inside, TypeOK, LocalsOK
<1>3. Alone'
  <2>1. pc'[t] = "gone"
    BY <1>1 DEF TypeOK, LocalsOK
  <2> QED BY <1>2, <2>1 DEF Alone, Inside
<1>4. confisopen => \A p \in Stored : heap[p] # NULL
  BY DEF Orderly, ValuesAreHeld
<1>5. ValuesAreHeld'
  BY <1>1, <1>2, <1>4 DEF ValuesAreHeld, InUse, Stored
<1>6. \A u \in Thread : FileIsFollowed(u)'
  BY <1>2 DEF FileIsFollowed
<1> QED BY <1>1, <1>3, <1>5, <1>6 DEF StaysOrderly, Orderly

\* The first handler closes the table, the others find it closed.
LEMMA RunHandlerStep ==
  ASSUME TypeOK, Orderly, RunHandler
  PROVE  StaysOrderly
<1>1. ~fault /\ exited /\ ~confisopen' /\ FreeIfOpen
      /\ UNCHANGED <<pc, exited, options>>
  BY DEF RunHandler, CleanupConfig
<1>2. \A u \in Thread : ~Inside(u) /\ pc[u] \in {"idle", "gone"}
  BY <1>1 DEF Orderly, Alone, Inside
<1>3. ~fault'
  BY <1>1 DEF Orderly, ValuesAreHeld, FreeIfOpen, FreeOptions
<1>4. Alone'
  BY <1>1, <1>2 DEF Orderly, Alone, Inside
<1>5. ValuesAreHeld'
  BY <1>1, <1>2 DEF ValuesAreHeld, InUse
<1>6. \A u \in Thread : FileIsFollowed(u)'
  BY <1>1, <1>2 DEF FileIsFollowed
<1> QED BY <1>3, <1>4, <1>5, <1>6 DEF StaysOrderly, Orderly

\* What no thread has in hand may change.
LEMMA EditStep ==
  ASSUME TypeOK, Orderly, ~fault,
         UNCHANGED <<heap, options, confisopen, registered, pc, locals, exited, fault>>
  PROVE  StaysOrderly
<1>1. UNCHANGED <<heap, options, confisopen, pc, lines, seen, url, used, exited, fault>>
  BY DEF locals
<1>2. Alone' /\ ValuesAreHeld'
  BY <1>1 DEF Orderly, Alone, Inside, ValuesAreHeld, InUse, Stored
<1>3. ASSUME NEW u \in Thread PROVE FileIsFollowed(u)'
  <2>1. /\ SlotLines(u)' = SlotLines(u) /\ LinesRead(u)' = LinesRead(u)
        /\ Cfg("url")' = Cfg("url") /\ Stored' = Stored
    BY <1>1 DEF SlotLines, LinesRead, Cfg, Stored
  <2>2. FileIsFollowed(u)
    BY DEF Orderly
  <2> QED BY <1>1, <2>1, <2>2 DEF FileIsFollowed, IsFirst
<1> QED BY <1>1, <1>2, <1>3 DEF StaysOrderly, Orderly

\* An empty slot that gets an address adds it to the table.
LEMMA StoredAfterStore ==
  ASSUME TypeOK, TypeOK', NEW h \in Slots, options[h] = NULL, NEW p \in Ptr,
         options'[h] = p, \A g \in Slots \ {h} : options'[g] = options[g]
  PROVE  Stored' = Stored \cup {p}
<1>1. p # NULL
  BY ConfigAssumption
<1>2. ASSUME NEW q PROVE q \in Stored' <=> q \in Stored \cup {p}
  <2>1. q \in Stored' <=> q # NULL /\ \E g \in Slots : options'[g] = q
    BY DEF TypeOK, TableOK, Stored, Range
  <2>2. q \in Stored <=> q # NULL /\ \E g \in Slots : options[g] = q
    BY StoredInSlot
  <2> QED BY <1>1, <2>1, <2>2
<1> QED BY <1>2

\* A line fills its slot if that is empty: the first line of a slot counts.
LEMMA ReadLineStep ==
  ASSUME TypeOK, Orderly, NEW t \in Thread, ReadLine(t)
  PROVE  StaysOrderly
<1> DEFINE line == Head(lines[t])
           k == LinesRead(t)
           h == TextHash(line.key)
           u == TextHash("url")
           S == {i \in SlotLines(t) : i <= k}
<1>1. pc[t] = "lines" /\ Inside(t) /\ ~fault /\ pc' = [pc EXCEPT ![t] = "lines"]
      /\ lines[t] # <<>> /\ lines' = [lines EXCEPT ![t] = Tail(lines[t])]
      /\ UNCHANGED <<confisopen, exited, seen>>
  BY DEF ReadLine, Moves, Inside
<1>2. ~exited /\ \A v \in Thread \ {t} : pc[v] \in {"idle", "gone"}
  BY <1>1, OthersAreOutside
<1>3. /\ Alone' /\ pc'[t] = "lines"
      /\ \A v \in Thread \ {t} : pc'[v] \in {"idle", "gone"} /\ FileIsFollowed(v)'
  BY <1>1, AloneAfterStep
<1>4. /\ seen[t] \in Files \ {NULL}
      /\ Len(lines[t]) <= Len(seen[t])
      /\ lines[t] = SubSeq(seen[t], k + 1, Len(seen[t]))
      /\ IsFirst(t, S, Cfg("url"))
  BY <1>1 DEF Orderly, FileIsFollowed
<1>5. seen[t] \in Seq(Lines) /\ lines[t] \in Seq(Lines) /\ lines'[t] = Tail(lines[t])
  BY <1>1, <1>4, FilesAssumption DEF TypeOK, LocalsOK, Lines
<1>6. k \in Nat /\ k + 1 \in 1 .. Len(seen[t]) /\ line = seen[t][k + 1] /\ line \in Lines
  <2>1. /\ Len(lines[t]) \in Nat \ {0} /\ Len(seen[t]) \in Nat
        /\ Len(lines[t]) <= Len(seen[t])
    BY <1>1, <1>4, <1>5
  <2>2. k \in Nat /\ k + 1 \in 1 .. Len(seen[t])
    <3> DEFINE a == Len(seen[t])
               b == Len(lines[t])
    <3>1. k = a - b
      BY DEF LinesRead
    <3> HIDE DEF a, b, k
    <3>2. a \in Nat /\ b \in Nat \ {0} /\ b <= a
      BY <2>1 DEF a, b
    <3>3. k \in Nat /\ k + 1 \in 1 .. a
      BY <3>1, <3>2
    <3> QED BY <3>3 DEF a
  <2>3. line = seen[t][k + 1]
    <3> HIDE DEF k
    <3>1. lines[t][1] = seen[t][k + 1]
      BY <1>4, <1>5, <2>1, <2>2
    <3> QED BY <3>1
  <2>4. line \in Lines
    BY <1>5, <2>2, <2>3
  <2> QED BY <2>2, <2>3, <2>4
<1>7. /\ LinesRead(t)' = k + 1
      /\ Len(lines'[t]) <= Len(seen'[t])
      /\ lines'[t] = SubSeq(seen'[t], k + 2, Len(seen'[t]))
  <2>1. Len(lines'[t]) = Len(lines[t]) - 1 /\ Len(lines[t]) \in Nat
    <3>1. ASSUME NEW s \in Seq(Lines), s # <<>>
          PROVE  Len(Tail(s)) = Len(s) - 1 /\ Len(s) \in Nat
      BY <3>1
    <3> QED BY <1>1, <1>5, <3>1
  <2>2. LinesRead(t)' = k + 1 /\ Len(lines'[t]) <= Len(seen'[t])
    <3>1. seen' = seen /\ Len(seen[t]) \in Nat /\ Len(lines[t]) <= Len(seen[t])
      BY <1>1, <1>4, <1>5
    <3> QED BY <2>1, <3>1 DEF LinesRead
  <2>3. Tail(SubSeq(seen[t], k + 1, Len(seen[t]))) = SubSeq(seen[t], k + 2, Len(seen[t]))
    <3> HIDE DEF k
    <3>1. k + 1 \in 1 .. Len(seen[t]) /\ k + 1 + 1 = k + 2
      BY <1>6
    <3> QED BY <1>5, <3>1, TailOfRest
  <2> QED BY <1>1, <1>4, <1>5, <2>2, <2>3
<1>8. /\ SlotLines(t)' = SlotLines(t)
      /\ k + 1 \in SlotLines(t) <=> line # NULL /\ h = u
  <2>1. seen[t] # NULL
    BY <1>4
  <2> HIDE DEF k, line
  <2> QED BY <1>1, <1>5, <1>6, <2>1 DEF SlotLines
<1>9. {i \in SlotLines(t) : i <= LinesRead(t)}'
        = IF line # NULL /\ h = u THEN S \cup {k + 1} ELSE S
  <2>1. SlotLines(t) \subseteq Nat
    BY <1>5 DEF SlotLines
  <2>2. \A i \in SlotLines(t) : i <= k + 1 <=> i <= k \/ i = k + 1
    <3> HIDE DEF k
    <3> QED BY <1>6, <2>1
  <2> HIDE DEF h, k, line
  <2> QED BY <1>7, <1>8, <2>2
<1>10. S \subseteq 1 .. k
  <2>1. SlotLines(t) \subseteq Nat \ {0}
    BY <1>5 DEF SlotLines
  <2> HIDE DEF k
  <2> QED BY <1>6, <2>1
<1>11. \A p \in Stored : heap[p] # NULL
  BY <1>1 DEF Orderly, ValuesAreHeld
<1>12. \A p \in Ptr : heap[p] # NULL => p \in Stored
  BY <1>2 DEF Orderly, ValuesAreHeld
<1>13. ~confisopen
  BY <1>1, <1>2 DEF Orderly, ValuesAreHeld, InUse
<1>14. /\ UNCHANGED raced
       /\ IF line = NULL THEN UNCHANGED <<heap, options, fault, unseen>>
          ELSE /\ strange' = (strange \/ h < 0)
               /\ IF h \in Slots THEN Store(h, line.val)
                  ELSE fault' = TRUE /\ UNCHANGED <<heap, options, starved>>
  BY DEF ReadLine
<1>15. u \in Slots /\ Cfg("url") = options[u]
  BY OptionsHaveSlots DEF Cfg
<1>16. ASSUME IsFirst(t, {i \in SlotLines(t) : i <= LinesRead(t)}, Cfg("url"))'
       PROVE  FileIsFollowed(t)'
  <2>1. k + 1 + 1 = k + 2
    <3> HIDE DEF k
    <3> QED BY <1>6
  <2> QED BY <1>1, <1>3, <1>4, <1>7, <1>16, <2>1 DEF FileIsFollowed
<1> HIDE DEF line, k, h, u, S
<1>17. ASSUME UNCHANGED <<heap, options, fault>>,
              line # NULL /\ h = u => options[h] # NULL
       PROVE  StaysOrderly
  <2>1. ValuesAreHeld'
    BY <1>3, <1>11, <1>12, <1>13, <1>17, <1>1 DEF ValuesAreHeld, Stored
  <2>2. Cfg("url")' = Cfg("url")
    BY <1>17 DEF Cfg
  <2>3. IsFirst(t, {i \in SlotLines(t) : i <= LinesRead(t)}, Cfg("url"))'
    <3>1. CASE line # NULL /\ h = u
      <4>1. S # {}
        BY <1>4, <1>15, <1>17, <3>1 DEF IsFirst
      <4>2. PICK i \in S : (\A j \in S : i <= j) /\ heap[Cfg("url")] = seen[t][i].val
        BY <1>4, <4>1 DEF IsFirst
      <4>3. i <= k + 1
        BY <1>6, <1>10
      <4>4. \A j \in S \cup {k + 1} : i <= j
        BY <4>2, <4>3
      <4>5. {j \in SlotLines(t) : j <= LinesRead(t)}' = S \cup {k + 1}
        BY <1>9, <3>1
      <4>6. i \in S \cup {k + 1} /\ Cfg("url")' # NULL
        BY <1>15, <1>17, <2>2, <3>1
      <4>7. heap'[Cfg("url")'] = seen'[t][i].val
        BY <1>1, <1>17, <2>2, <4>2
      <4> QED BY <4>4, <4>5, <4>6, <4>7 DEF IsFirst
    <3>2. CASE ~(line # NULL /\ h = u)
      <4>1. {i \in SlotLines(t) : i <= LinesRead(t)}' = S
        BY <1>9, <3>2
      <4> QED BY <1>1, <1>4, <1>17, <2>2, <4>1 DEF IsFirst
    <3> QED BY <3>1, <3>2
  <2>4. FileIsFollowed(t)'
    BY <1>16, <2>3
  <2> QED BY <1>1, <1>3, <1>17, <2>1, <2>4 DEF StaysOrderly, Orderly
<1>18. ASSUME line # NULL, h \in Slots, options[h] = NULL, NEW p \in Fresh,
              heap' = [heap EXCEPT ![p] = line.val], options' = [options EXCEPT ![h] = p],
              UNCHANGED fault
       PROVE  StaysOrderly
  <2>1. line.val \in Values /\ line.val # NULL
    BY <1>6, <1>18, ConfigAssumption DEF Lines
  <2>2. /\ Stored' = Stored \cup {p} /\ heap'[p] = line.val
        /\ \A q \in Ptr \ {p} : heap'[q] = heap[q]
        /\ p \notin Stored /\ p # NULL
    <3>1. p \in Ptr /\ p \notin Stored /\ p # NULL
      BY ConfigAssumption DEF Fresh
    <3>2. heap'[p] = line.val /\ \A q \in Ptr \ {p} : heap'[q] = heap[q]
      BY <1>18, <3>1 DEF TypeOK, TableOK
    <3>3. options'[h] = p /\ \A g \in Slots \ {h} : options'[g] = options[g]
      BY <1>18, <3>1 DEF TypeOK, TableOK
    <3>4. TypeOK'
      BY TypeStep DEF Next
    <3>5. Stored' = Stored \cup {p}
      BY <1>18, <3>1, <3>3, <3>4, StoredAfterStore
    <3> QED BY <3>1, <3>2, <3>5
  <2>3. Stored \subseteq Ptr /\ options \in [Slots -> Ptr \cup {NULL}]
    BY DEF TypeOK, TableOK, Stored, Range
  <2>4. ValuesAreHeld'
    <3>1. \A q \in Stored' : heap'[q] # NULL
      BY <1>11, <2>1, <2>2, <2>3
    <3>2. \A q \in Ptr : heap'[q] # NULL => q \in Stored'
      BY <1>12, <2>2
    <3> QED BY <1>1, <1>3, <1>13, <3>1, <3>2 DEF ValuesAreHeld
  <2>5. CASE h = u
    <3>1. S = {}
      BY <1>4, <1>15, <1>18, <2>5 DEF IsFirst
    <3>2. Cfg("url")' = p
      <4>1. options'[u] = p
        BY <1>15, <1>18, <2>3, <2>5
      <4> QED BY <4>1 DEF Cfg, u
    <3>3. {i \in SlotLines(t) : i <= LinesRead(t)}' = {k + 1}
      BY <1>9, <1>18, <2>5, <3>1
    <3>4. heap'[p] = seen'[t][k + 1].val
      BY <1>1, <1>6, <2>2
    <3>5. IsFirst(t, {i \in SlotLines(t) : i <= LinesRead(t)}, Cfg("url"))'
      <4> DEFINE m == k + 1
      <4>1. m \in Nat /\ \A j \in {m} : m <= j
        BY <1>6
      <4> HIDE DEF m
      <4>2. {i \in SlotLines(t) : i <= LinesRead(t)}' = {m}
        BY <3>3 DEF m
      <4>3. heap'[p] = seen'[t][m].val
        BY <3>4 DEF m
      <4> QED BY <2>2, <3>2, <4>1, <4>2, <4>3 DEF IsFirst
    <3>6. FileIsFollowed(t)'
      BY <1>16, <3>5
    <3> QED BY <1>1, <1>3, <1>18, <2>4, <3>6 DEF StaysOrderly, Orderly
  <2>6. CASE h # u
    <3>1. Cfg("url")' = Cfg("url")
      <4>1. options'[u] = options[u]
        BY <1>15, <1>18, <2>3, <2>6
      <4> QED BY <1>15, <4>1 DEF Cfg, u
    <3>2. Cfg("url") # NULL => heap'[Cfg("url")] = heap[Cfg("url")]
      BY <2>2, <2>3, LookupIsStored
    <3>3. {i \in SlotLines(t) : i <= LinesRead(t)}' = S
      BY <1>9, <2>6
    <3>4. IsFirst(t, {i \in SlotLines(t) : i <= LinesRead(t)}, Cfg("url"))'
      BY <1>1, <1>4, <3>1, <3>2, <3>3 DEF IsFirst
    <3>5. FileIsFollowed(t)'
      BY <1>16, <3>4
    <3> QED BY <1>1, <1>3, <1>18, <2>4, <3>5 DEF StaysOrderly, Orderly
  <2> QED BY <2>5, <2>6
<1>19. CASE line = NULL
  BY <1>14, <1>17, <1>19
<1>20. CASE line # NULL /\ h \notin Slots
  <2>1. line.key \in Keys
    BY <1>6, <1>20 DEF Lines
  <2>2. h < 0
    BY <1>20, <2>1, HashIsSlotOrNegative DEF h
  <2> QED BY <1>14, <1>20, <2>2 DEF StaysOrderly
<1>21. CASE line # NULL /\ h \in Slots /\ options[h] # NULL
  BY <1>14, <1>17, <1>21 DEF Store
<1>22. CASE line # NULL /\ h \in Slots /\ options[h] = NULL
  <2>1. CASE \E p \in Fresh :
               /\ heap' = [heap EXCEPT ![p] = line.val]
               /\ options' = [options EXCEPT ![h] = p]
               /\ UNCHANGED <<fault, starved>>
    BY <1>18, <1>22, <2>1
  <2>2. CASE fault' = TRUE /\ starved' = TRUE
    BY <2>2 DEF StaysOrderly
  <2> QED BY <1>14, <1>22, <2>1, <2>2 DEF Store
<1> QED BY <1>19, <1>20, <1>21, <1>22

-----------------------------------------------------------------------------
(* The invariant is inductive                                              *)

\* Nothing is in the table at the start.
LEMMA InvariantInit == Init => IInv
<1> SUFFICES ASSUME Init PROVE IInv
  OBVIOUS
<1>1. TypeOK /\ ~fault
  BY TypeInit DEF Init
<1>2. Alone
  BY DEF Init, Alone, Inside
<1>3. ValuesAreHeld
  BY DEF Init, ValuesAreHeld, InUse
<1>4. \A t \in Thread : FileIsFollowed(t)
  BY DEF Init, FileIsFollowed
<1> QED BY <1>1, <1>2, <1>3, <1>4 DEF IInv, OnlyTheTableIsUsed, Orderly

\* Every step keeps the invariant.
LEMMA InvariantStep == IInv /\ [Next]_vars => IInv'
<1> SUFFICES ASSUME IInv, [Next]_vars PROVE IInv'
  OBVIOUS
<1>1. TypeOK /\ TypeOK'
  BY TypeStep DEF IInv, OnlyTheTableIsUsed
<1>2. CASE raced'
  BY <1>1, <1>2 DEF IInv, OnlyTheTableIsUsed
<1>3. CASE UNCHANGED vars
  <2>1. /\ UNCHANGED <<heap, options, confisopen, registered, pc, locals, exited, fault>>
        /\ UNCHANGED <<starved, strange, raced>>
    BY <1>3 DEF vars, locals
  <2>2. ~raced' /\ ~fault' => Orderly'
    BY <1>1, <2>1, EditStep DEF IInv, StaysOrderly
  <2> QED BY <1>1, <2>1, <2>2 DEF IInv, OnlyTheTableIsUsed
<1>4. ASSUME Next, ~raced' PROVE IInv'
  <2>1. ~fault /\ ~raced
    <3>1. ASSUME NEW t \in Thread,
                 \/ Free(t) \/ Forget(t) \/ Open(t) \/ ReadLine(t) \/ EndOfFile(t)
                 \/ GetUrl(t) \/ GetFlags(t) \/ UseUrl(t) \/ Clean(t)
          PROVE  ~fault /\ ~raced
      <4>1. raced' = raced \/ raced' = (raced \/ exited \/ \E u \in Thread : Inside(u))
        BY <3>1 DEF Free, Forget, Open, ReadLine, EndOfFile, GetUrl, GetFlags, UseUrl, Clean
      <4>2. ~fault
        BY <3>1 DEF Free, Forget, Open, ReadLine, EndOfFile, GetUrl, GetFlags, UseUrl, Clean,
                    Moves
      <4>3. raced \in BOOLEAN
        BY <1>1 DEF TypeOK, FlagsOK
      <4> QED BY <1>4, <4>1, <4>2, <4>3
    <3>2. ASSUME NEW t \in Thread, Exit(t) PROVE ~fault /\ ~raced
      BY <1>4, <3>2 DEF Exit
    <3>3. CASE RunHandler \/ Edit
      BY <1>4, <3>3 DEF RunHandler, Edit
    <3> QED BY <1>4, <3>1, <3>2, <3>3 DEF Next
  <2>2. Orderly
    BY <2>1 DEF IInv
  <2>3. StaysOrderly
    <3>1. ASSUME Edit PROVE StaysOrderly
      BY <1>1, <2>1, <2>2, <3>1, EditStep DEF Edit
    <3> QED BY <1>1, <1>4, <2>2, <3>1, FreeStep, ForgetStep, OpenStep, ReadLineStep,
               EndOfFileStep, GetUrlStep, GetFlagsStep, UseUrlStep, CleanStep, ExitStep,
               RunHandlerStep DEF Next
  <2> QED BY <1>1, <2>3 DEF IInv, OnlyTheTableIsUsed, StaysOrderly
<1> QED BY <1>2, <1>3, <1>4

\* The invariant holds in every state of every behaviour.
LEMMA InvariantHolds == Spec => []IInv
<1> QED BY InvariantInit, InvariantStep, PTL DEF Spec

-----------------------------------------------------------------------------
(* The properties                                                          *)

\* No value is used or freed after it was freed, for any file, unless memory
\* runs out, a key hashes to a negative slot, or requests overlap.
THEOREM TableIsSafe == Spec => []OnlyTheTableIsUsed
<1>1. IInv => OnlyTheTableIsUsed
  BY DEF IInv
<1> QED BY <1>1, InvariantHolds, PTL

\* cleanupconfig leaves no value in memory, whatever file was read.
THEOREM TableIsEmptied == Spec => []NothingIsLeft
<1>1. IInv => NothingIsLeft
  <2> SUFFICES ASSUME IInv, \A t \in Thread : pc[t] = "idle", ~fault, ~raced,
                      NEW p \in Ptr
               PROVE  heap[p] = NULL
    BY DEF NothingIsLeft
  <2>1. Alone /\ ValuesAreHeld
    BY DEF IInv, Orderly
  <2>2. ~exited
    BY <2>1 DEF Alone
  <2> QED BY <2>1, <2>2 DEF ValuesAreHeld, InUse
<1> QED BY <1>1, InvariantHolds, PTL

\* Each request goes to the first url that the file sets as it was when the
\* request opened it, unless a line that shares its slot comes before.
THEOREM RequestsFollowTheFile == Spec => []FollowsTheFile
<1>1. IInv => FollowsTheFile
  <2> SUFFICES ASSUME IInv, NEW t \in Thread, pc[t] = "clean", ~fault, ~raced, ~Hidden(t)
               PROVE  used[t] = UrlOf(t)
    BY DEF FollowsTheFile
  <2>1. FileIsFollowed(t)
    BY DEF IInv, Orderly
  <2>2. CASE seen[t] = NULL
    BY <2>1, <2>2 DEF FileIsFollowed, SlotLines, UrlOf, UrlLines, LinesWith
  <2>3. CASE seen[t] # NULL
    <3>1. seen[t] \in Files \ {NULL}
      BY <2>3 DEF IInv, OnlyTheTableIsUsed, TypeOK, LocalsOK
    <3>2. seen[t] \in Seq(Lines)
      BY <3>1, FilesAssumption DEF Lines
    <3>3. \A i \in DOMAIN seen[t] : seen[t][i] # NULL => seen[t][i].key \in Keys
      BY <3>2 DEF Lines
    <3>4. SlotLines(t) = UrlLines(t) \cup LinesWith(t, Homonyms)
      BY <2>3, <3>3, ConfigAssumption DEF SlotLines, UrlLines, LinesWith, Homonyms
    <3>5. SlotLines(t) \subseteq Nat
      BY <3>2 DEF SlotLines
    <3>6. \A i \in LinesWith(t, Homonyms) : \E j \in UrlLines(t) : j <= i
      BY <3>4, <3>5 DEF Hidden
    <3>7. CASE UrlLines(t) = {}
      BY <2>1, <3>4, <3>6, <3>7 DEF FileIsFollowed, UrlOf
    <3>8. CASE UrlLines(t) # {}
      <4>1. PICK i \in SlotLines(t) :
              (\A j \in SlotLines(t) : i <= j) /\ used[t] = seen[t][i].val
        BY <2>1, <3>4, <3>8 DEF FileIsFollowed
      <4>2. i \in UrlLines(t)
        <5>1. CASE i \in LinesWith(t, Homonyms)
          <6>1. PICK j \in UrlLines(t) : j <= i
            BY <3>6, <5>1
          <6>2. j = i
            BY <3>4, <3>5, <4>1, <6>1
          <6> QED BY <6>1, <6>2
        <5> QED BY <3>4, <5>1
      <4>3. UrlLines(t) \subseteq Nat /\ \A j \in UrlLines(t) : i <= j
        BY <3>4, <3>5, <4>1
      <4>4. Min(UrlLines(t)) = i
        BY <4>2, <4>3 DEF Min
      <4> QED BY <3>8, <4>1, <4>4 DEF UrlOf
    <3> QED BY <3>7, <3>8
  <2> QED BY <2>2, <2>3
<1> QED BY <1>1, InvariantHolds, PTL
=============================================================================
