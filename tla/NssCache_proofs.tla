--------------------------- MODULE NssCache_proofs ---------------------------
(***************************************************************************)
(* What holds of the cache for every number of threads and every memory.   *)
(* Copies always belong to their caller alone.  As long as no call is      *)
(* under way during another's refill, no memory is lost or used after it   *)
(* was freed, every call is answered with the outcome of the last fetch    *)
(* unless its own copy ran out of memory, and fetches are at least         *)
(* INTERVAL apart.                                                         *)
(***************************************************************************)
EXTENDS NssCache, TLAPS

\* The actions of one thread.
Step(t) ==
  \/ Enter(t) \/ TestFirstRun(t) \/ ClearFirstRun(t) \/ DeleteCache(t)
  \/ NullCache(t) \/ Fetch(t) \/ SetStatus(t) \/ Stamp(t)
  \/ ReadCache(t) \/ CopyTree(t) \/ Return(t) \/ Release(t)

-----------------------------------------------------------------------------
(* Types                                                                   *)

\* The clocks start at zero.
LEMMA ZeroIsATime == 0 \in Times
BY ParameterAssumption DEF Times

\* The initial state is well typed.
LEMMA TypeInit == Init => TypeOK
<1> SUFFICES ASSUME Init PROVE TypeOK
  OBVIOUS
<1>1. now \in [Thread -> Times] /\ time \in Times
  BY ZeroIsATime DEF Init
<1>2. heap \in [Ptr -> [live : BOOLEAN, born : Times]]
  BY ZeroIsATime DEF Init, FREE
<1>3. pc \in [Thread -> InCall \cup {"idle", "hold"}]
  BY DEF Init
<1>4. before \in 0 .. MaxCpu
  BY ParameterAssumption DEF Init
<1> QED BY <1>1, <1>2, <1>3, <1>4 DEF Init, TypeOK, Statuses

\* So is every state after it: each action assigns what it should.
LEMMA TypeStep == TypeOK /\ [Next]_vars => TypeOK'
<1> SUFFICES ASSUME TypeOK, [Next]_vars PROVE TypeOK'
  OBVIOUS
<1> USE DEF TypeOK, Goes, statics, locals, histories
<1>1. ASSUME NEW t \in Thread, Step(t) PROVE TypeOK'
  <2>1. pc' \in [Thread -> InCall \cup {"idle", "hold"}]
    BY <1>1
    DEF Step, Enter, TestFirstRun, ClearFirstRun, DeleteCache, NullCache, Fetch,
        SetStatus, Stamp, ReadCache, CopyTree, Return, Release, InCall, Refilling
  <2>2. CASE Enter(t)
    BY <2>1, <2>2, ParameterAssumption DEF Enter, Overlap, Times
  <2>3. CASE TestFirstRun(t)
    BY <2>1, <2>3, ParameterAssumption DEF TestFirstRun, Overlap, Times, InCall, Refilling
  <2>4. CASE ClearFirstRun(t)
    BY <2>1, <2>4, ParameterAssumption DEF ClearFirstRun, Overlap, Times
  <2>5. CASE DeleteCache(t)
    BY <2>1, <2>5, ParameterAssumption DEF DeleteCache, Overlap, Times, FREE
  <2>6. CASE NullCache(t)
    BY <2>1, <2>6, ParameterAssumption DEF NullCache, Overlap, Times
  <2>7. CASE Fetch(t)
    <3>1. heap' \in [Ptr -> [live : BOOLEAN, born : Times]]
      <4>1. Tree(time) \in [live : BOOLEAN, born : Times]
        BY DEF Tree
      <4>2. CASE FetchDocument(t)
        BY <4>1, <4>2 DEF FetchDocument
      <4>3. CASE FetchNothing(t)
        BY <4>3 DEF FetchNothing
      <4> QED BY <2>7, <4>2, <4>3 DEF Fetch
    <3>2. jsonCache' \in Ptr \cup {NULL} /\ answered' \in BOOLEAN
      BY <2>7 DEF Fetch, FetchDocument, FetchNothing
    <3> QED BY <2>1, <2>7, <3>1, <3>2 DEF Fetch, Overlap
  <2>8. CASE SetStatus(t)
    BY <2>1, <2>8, ParameterAssumption DEF SetStatus, Overlap, Times, DelegateStatus, Statuses
  <2>9. CASE Stamp(t)
    BY <2>1, <2>9, ParameterAssumption DEF Stamp, Overlap, Times
  <2>10. CASE ReadCache(t)
    BY <2>1, <2>10, ParameterAssumption DEF ReadCache, Overlap, Times
  <2>11. CASE CopyTree(t)
    <3>1. CASE Copied(t)
      <4>1. heap[source[t]] \in [live : BOOLEAN, born : Times]
        BY <3>1 DEF Copied, Live
      <4>2. PICK p \in Ptr : /\ heap' = [heap EXCEPT ![p] = heap[source[t]]]
                             /\ response' = [response EXCEPT ![t] = p]
        BY <3>1 DEF Copied
      <4>3. heap' \in [Ptr -> [live : BOOLEAN, born : Times]]
        BY <4>1, <4>2
      <4>4. response' \in [Thread -> Ptr \cup {NULL}]
        BY <4>2
      <4> QED BY <2>1, <2>11, <3>1, <4>3, <4>4 DEF CopyTree, Copied, Overlap
    <3>2. CASE NotCopied(t)
      BY <2>1, <2>11, <3>2 DEF CopyTree, NotCopied, Overlap
    <3>3. CASE CopyFailed(t)
      BY <2>1, <2>11, <3>3 DEF CopyTree, CopyFailed, Overlap
    <3> QED BY <2>11, <3>1, <3>2, <3>3 DEF CopyTree
  <2>12. CASE Return(t)
    BY <2>1, <2>12, ParameterAssumption DEF Return, Overlap, Times, Statuses
  <2>13. CASE Release(t)
    BY <2>1, <2>13, ParameterAssumption DEF Release, Overlap, Times, FREE
  <2> QED BY <1>1, <2>2, <2>3, <2>4, <2>5, <2>6, <2>7, <2>8, <2>9, <2>10, <2>11, <2>12, <2>13 DEF Step
<1>2. CASE Tick
  BY <1>2, ParameterAssumption DEF Tick, Times
<1>3. CASE UNCHANGED vars
  BY <1>3 DEF vars
<1> QED BY <1>1, <1>2, <1>3 DEF Next, Step

\* The variables stay what they are meant to be.
THEOREM TypeCorrect == Spec => []TypeOK
BY TypeInit, TypeStep, PTL DEF Spec
-----------------------------------------------------------------------------
(* Copies                                                                  *)

\* Without a condition on the schedule: a copy is live and its caller's.
Private ==
  \A t \in Thread : response[t] # NULL =>
    /\ Live(response[t])
    /\ response[t] # jsonCache
    /\ \A u \in Thread : source[u] # response[t]
    /\ \A u \in Thread : u # t => response[u] # response[t]

\* A new tree has an address that no one holds.
LEMMA PrivateStep == TypeOK /\ Private /\ [Next]_vars => Private'
<1> SUFFICES ASSUME TypeOK, Private, [Next]_vars PROVE Private'
  OBVIOUS
<1> USE ParameterAssumption DEF Private, Live, Goes, statics, locals, histories
<1>1. ASSUME NEW t \in Thread, Step(t) PROVE Private'
  <2>1. CASE Enter(t)
    BY <2>1 DEF Enter
  <2>2. CASE TestFirstRun(t)
    BY <2>2 DEF TestFirstRun
  <2>3. CASE ClearFirstRun(t)
    BY <2>3 DEF ClearFirstRun
  <2>4. CASE DeleteCache(t)
    BY <2>4 DEF DeleteCache, TypeOK
  <2>5. CASE NullCache(t)
    BY <2>5 DEF NullCache
  <2>6. CASE Fetch(t)
    <3>1. CASE FetchDocument(t)
      BY <2>6, <3>1 DEF Fetch, FetchDocument, Available, TypeOK
    <3>2. CASE FetchNothing(t)
      BY <2>6, <3>2 DEF Fetch, FetchNothing
    <3> QED BY <2>6, <3>1, <3>2 DEF Fetch
  <2>7. CASE SetStatus(t)
    BY <2>7 DEF SetStatus
  <2>8. CASE Stamp(t)
    BY <2>8 DEF Stamp
  <2>9. CASE ReadCache(t)
    BY <2>9 DEF ReadCache, TypeOK
  <2>10. CASE CopyTree(t)
    <3>1. source' = [source EXCEPT ![t] = NULL] /\ UNCHANGED jsonCache
      BY <2>10 DEF CopyTree
    <3>2. CASE Copied(t)
      <4>1. PICK p \in Ptr : /\ Available(p)
                             /\ heap' = [heap EXCEPT ![p] = heap[source[t]]]
                             /\ response' = [response EXCEPT ![t] = p]
        BY <3>2 DEF Copied
      <4> QED BY <3>1, <3>2, <4>1 DEF Available, Copied, TypeOK
    <3>3. CASE NotCopied(t)
      BY <3>1, <3>3 DEF NotCopied, TypeOK
    <3>4. CASE CopyFailed(t)
      BY <3>1, <3>4 DEF CopyFailed, TypeOK
    <3> QED BY <2>10, <3>2, <3>3, <3>4 DEF CopyTree
  <2>11. CASE Return(t)
    BY <2>11 DEF Return
  <2>12. CASE Release(t)
    BY <2>12 DEF Release, TypeOK
  <2> QED BY <1>1, <2>1, <2>2, <2>3, <2>4, <2>5, <2>6, <2>7, <2>8, <2>9, <2>10, <2>11, <2>12 DEF Step
<1>2. CASE Tick
  BY <1>2 DEF Tick
<1>3. CASE UNCHANGED vars
  BY <1>3 DEF vars
<1> QED BY <1>1, <1>2, <1>3 DEF Next, Step

\* A copy is live and its caller's alone, whatever the schedule.
THEOREM CopiesArePrivate == Spec => []PrivateCopies
<1>1. Init => TypeOK /\ Private
  BY TypeInit DEF Init, Private
<1>2. TypeOK /\ Private /\ [Next]_vars => TypeOK' /\ Private'
  BY TypeStep, PrivateStep
<1>3. TypeOK /\ Private => PrivateCopies
  BY DEF Private, PrivateCopies
<1> QED BY <1>1, <1>2, <1>3, PTL DEF Spec

-----------------------------------------------------------------------------
(* Behaviours whose refills overlap with no other call                     *)

Serial == ~Overlap /\ ~fault

\* Except between the deletion of the old document and the arrival of the
\* new one, the cache holds what the last fetch brought.
CacheIsCurrent ==
  (\A t \in Thread : pc[t] \notin {"null", "fetch"}) =>
    IF answered
      THEN Live(jsonCache) /\ heap[jsonCache].born = asked
      ELSE jsonCache = NULL

CacheIsGone ==
  \A t \in Thread :
    /\ pc[t] = "null" => ~Live(jsonCache)
    /\ pc[t] = "fetch" => jsonCache = NULL

SourceIsCache ==
  \A t \in Thread : source[t] = IF pc[t] = "copy" THEN jsonCache ELSE NULL

CopiesAreHeld ==
  \A t \in Thread : response[t] # NULL => pc[t] \in {"ret", "hold"}

NothingLeaks ==
  \A p \in Ptr : heap[p].live => p = jsonCache \/ \E t \in Thread : response[t] = p

CopyIsLatest ==
  \A t \in Thread : pc[t] = "ret" =>
    IF answered /\ ~starved[t]
      THEN Live(response[t]) /\ heap[response[t]].born = asked
      ELSE response[t] = NULL

\* Until it copies the document no call can have run out of memory for it.
OnlyCopiesStarve ==
  \A t \in Thread : starved[t] => pc[t] \in {"ret", "hold"}

Orderly ==
  /\ Serial
  /\ CacheIsCurrent
  /\ CacheIsGone
  /\ SourceIsCache
  /\ CopiesAreHeld
  /\ NothingLeaks
  /\ CopyIsLatest
  /\ OnlyCopiesStarve

\* A thread that refills the cache is the only one in a call.
LEMMA Alone ==
  ASSUME ~Overlap, NEW t \in Thread, pc[t] \in Refilling
  PROVE  \A u \in Thread : u # t => pc[u] \notin InCall
BY DEF Overlap

\* Each step of a thread keeps the cache and the copies what they are meant
\* to be, as long as it does not overlap with another's refill.
LEMMA OrderlyStep ==
  ASSUME TypeOK, Private, Orderly, ~Overlap', NEW t \in Thread, Step(t)
  PROVE  Orderly'
<1> USE ParameterAssumption
        DEF Goes, statics, locals, histories, TypeOK, Orderly, Serial, Live
<1>1. ASSUME pc[t] \in Refilling PROVE \A u \in Thread : u # t => pc[u] \notin InCall
  BY <1>1, Alone
<1> USE DEF InCall, Refilling, CacheIsCurrent, CacheIsGone, SourceIsCache,
            CopiesAreHeld, NothingLeaks, CopyIsLatest, OnlyCopiesStarve
<1>2. CASE Enter(t)
  BY <1>2 DEF Enter
<1>3. CASE TestFirstRun(t)
  BY <1>3 DEF TestFirstRun
<1>4. CASE ClearFirstRun(t)
  BY <1>4 DEF ClearFirstRun
<1>5. CASE DeleteCache(t)
  BY <1>1, <1>5 DEF DeleteCache, Private, FREE
<1>6. CASE NullCache(t)
  BY <1>1, <1>6 DEF NullCache
<1>7. CASE Fetch(t)
  <2>1. /\ pc[t] = "fetch" /\ jsonCache = NULL
        /\ \A u \in Thread : u # t => pc[u] \notin InCall
        /\ pc' = [pc EXCEPT ![t] = "status"]
        /\ asked' = time /\ UNCHANGED <<source, response, fault, starved>>
    BY <1>1, <1>7 DEF Fetch
  <2>2. CASE FetchDocument(t)
    <3>1. PICK p \in Ptr : /\ Available(p)
                           /\ heap' = [heap EXCEPT ![p] = Tree(time)]
                           /\ jsonCache' = p
      BY <2>2 DEF FetchDocument
    <3>2. heap'[p] = Tree(time) /\ \A q \in Ptr : q # p => heap'[q] = heap[q]
      BY <3>1
    <3>3. answered'
      BY <2>2 DEF FetchDocument
    <3> QED BY <2>1, <3>1, <3>2, <3>3 DEF Available, Tree
  <2>3. CASE FetchNothing(t)
    BY <2>1, <2>3 DEF FetchNothing
  <2> QED BY <1>7, <2>2, <2>3 DEF Fetch
<1>8. CASE SetStatus(t)
  BY <1>1, <1>8 DEF SetStatus
<1>9. CASE Stamp(t)
  BY <1>1, <1>9 DEF Stamp
<1>10. CASE ReadCache(t)
  BY <1>10 DEF ReadCache
<1>11. CASE CopyTree(t)
  \* No one refills the cache meanwhile, so that it is current.
  <2>1. /\ pc[t] = "copy" /\ source[t] = jsonCache /\ response[t] = NULL /\ ~starved[t]
        /\ \A u \in Thread : pc[u] \notin {"null", "fetch"}
    BY <1>11 DEF CopyTree, Overlap
  <2>2. IF answered THEN Live(jsonCache) /\ heap[jsonCache].born = asked ELSE jsonCache = NULL
    BY <2>1
  <2>3. /\ pc' = [pc EXCEPT ![t] = "ret"] /\ source' = [source EXCEPT ![t] = NULL]
        /\ UNCHANGED <<jsonCache, asked, answered>>
    BY <1>11 DEF CopyTree
  <2>4. CASE Copied(t)
    <3>1. PICK p \in Ptr : /\ Available(p)
                           /\ heap' = [heap EXCEPT ![p] = heap[jsonCache]]
                           /\ response' = [response EXCEPT ![t] = p]
      BY <2>1, <2>4 DEF Copied
    <3>2. answered /\ UNCHANGED <<fault, starved>>
      BY <2>1, <2>2, <2>4 DEF Copied
    <3> QED BY <2>1, <2>2, <2>3, <3>1, <3>2 DEF Available
  <2>5. CASE NotCopied(t)
    <3>1. ~answered /\ jsonCache = NULL
      BY <2>1, <2>2, <2>5 DEF NotCopied
    <3>2. ~fault' /\ UNCHANGED <<heap, response, starved>>
      BY <2>1, <2>5, <3>1 DEF NotCopied
    <3> QED BY <2>1, <2>3, <3>1, <3>2
  <2>6. CASE CopyFailed(t)
    <3>1. /\ starved' = [starved EXCEPT ![t] = TRUE]
          /\ UNCHANGED <<heap, response, fault>>
      BY <2>6 DEF CopyFailed
    <3> QED BY <2>1, <2>2, <2>3, <3>1
  <2> QED BY <1>11, <2>4, <2>5, <2>6 DEF CopyTree
<1>12. CASE Return(t)
  BY <1>12 DEF Return
<1>13. CASE Release(t)
  BY <1>13 DEF Release, Private, FREE
<1> QED BY <1>2, <1>3, <1>4, <1>5, <1>6, <1>7, <1>8, <1>9, <1>10, <1>11, <1>12, <1>13 DEF Step

-----------------------------------------------------------------------------
(* The status                                                              *)

\* From the first fetch on the status is that of a fetch.
StatusIsKnown ==
  /\ \A t \in Thread : pc[t] \notin {"idle", "first", "mark"} => ~firstRun
  /\ ~firstRun /\ (\A t \in Thread : pc[t] \notin {"clear", "null", "fetch", "status"})
       => retvalCache = DelegateStatus
  /\ \A t \in Thread : pc[t] = "hold" => status[t] = DelegateStatus

\* Each step of a thread keeps that so, under the same condition.
LEMMA StatusStep ==
  ASSUME TypeOK, StatusIsKnown, ~Overlap, NEW t \in Thread, Step(t)
  PROVE  StatusIsKnown'
<1> USE DEF Goes, statics, locals, histories, TypeOK, StatusIsKnown
<1>1. CASE Enter(t)
  BY <1>1 DEF Enter
<1>2. CASE TestFirstRun(t)
  BY <1>2 DEF TestFirstRun
<1>3. CASE ClearFirstRun(t)
  BY <1>3 DEF ClearFirstRun
<1>4. CASE DeleteCache(t)
  BY <1>4 DEF DeleteCache
<1>5. CASE NullCache(t)
  BY <1>5 DEF NullCache
<1>6. CASE Fetch(t)
  BY <1>6 DEF Fetch
<1>7. CASE SetStatus(t)
  BY <1>7 DEF SetStatus
<1>8. CASE Stamp(t)
  BY <1>8 DEF Stamp
<1>9. CASE ReadCache(t)
  BY <1>9 DEF ReadCache
<1>10. CASE CopyTree(t)
  BY <1>10 DEF CopyTree
<1>11. CASE Return(t)
  \* No one refills the cache meanwhile.
  <2>1. \A u \in Thread : pc[u] \notin {"clear", "null", "fetch", "status"}
    BY <1>11 DEF Return, Overlap, Refilling, InCall
  <2> QED BY <1>11, <2>1 DEF Return
<1>12. CASE Release(t)
  BY <1>12 DEF Release
<1> QED BY <1>1, <1>2, <1>3, <1>4, <1>5, <1>6, <1>7, <1>8, <1>9, <1>10, <1>11, <1>12 DEF Step

-----------------------------------------------------------------------------
(* Time                                                                    *)

\* The first run ends before the first fetch.
FirstRunIsFirst ==
  /\ firstRun => asked = NULL
  /\ \A t \in Thread :
       /\ pc[t] = "mark" => asked = NULL
       /\ pc[t] \in {"clear", "null", "fetch"} => ~firstRun

\* A fetch is followed by the stamp.
StampFollows ==
  asked # NULL /\ (\A t \in Thread : pc[t] \notin {"status", "stamp"})
    => asked <= before

\* Neither clock reading is in the future.
NotInTheFuture ==
  /\ asked # NULL => asked <= time
  /\ \A t \in Thread : now[t] <= time

\* A thread on its way to a fetch has found the interval over.
IntervalIsOver ==
  \A t \in Thread : pc[t] \in {"clear", "null", "fetch"} /\ asked # NULL
    => now[t] - asked >= INTERVAL

Punctual == FirstRunIsFirst /\ StampFollows /\ IntervalIsOver

\* Each step of a thread keeps to the interval, under the same condition.
LEMMA PunctualStep ==
  ASSUME TypeOK, NotInTheFuture, Punctual, ~Overlap, ~Overlap', NEW t \in Thread, Step(t)
  PROVE  Punctual'
<1> USE ParameterAssumption
        DEF Goes, statics, locals, histories, TypeOK, Times, Punctual
<1>1. ASSUME pc[t] \in Refilling PROVE \A u \in Thread : u # t => pc[u] \notin InCall
  BY <1>1, Alone
<1>2. ASSUME pc'[t] \in Refilling PROVE \A u \in Thread : u # t => pc'[u] \notin InCall
  BY <1>2 DEF Overlap
<1> USE DEF InCall, Refilling, FirstRunIsFirst, StampFollows, IntervalIsOver
<1>3. CASE Enter(t)
  BY <1>3 DEF Enter
<1>4. CASE TestFirstRun(t)
  BY <1>2, <1>4 DEF TestFirstRun, Expired
<1>5. CASE ClearFirstRun(t)
  BY <1>1, <1>5 DEF ClearFirstRun
<1>6. CASE DeleteCache(t)
  BY <1>6 DEF DeleteCache
<1>7. CASE NullCache(t)
  BY <1>7 DEF NullCache
<1>8. CASE Fetch(t)
  BY <1>1, <1>8 DEF Fetch, FetchDocument, FetchNothing
<1>9. CASE SetStatus(t)
  BY <1>9 DEF SetStatus
<1>10. CASE Stamp(t)
  BY <1>1, <1>10 DEF Stamp, NotInTheFuture
<1>11. CASE ReadCache(t)
  BY <1>11 DEF ReadCache
<1>12. CASE CopyTree(t)
  BY <1>12 DEF CopyTree
<1>13. CASE Return(t)
  BY <1>13 DEF Return
<1>14. CASE Release(t)
  BY <1>14 DEF Release
<1> QED BY <1>3, <1>4, <1>5, <1>6, <1>7, <1>8, <1>9, <1>10, <1>11, <1>12, <1>13, <1>14 DEF Step

\* Time only goes on.
LEMMA FutureStep == TypeOK /\ NotInTheFuture /\ [Next]_vars => NotInTheFuture'
<1> SUFFICES ASSUME TypeOK, NotInTheFuture, [Next]_vars PROVE NotInTheFuture'
  OBVIOUS
<1> USE ParameterAssumption DEF NotInTheFuture, TypeOK, Times, Goes, statics, locals, histories
<1>1. ASSUME NEW t \in Thread, Step(t) PROVE NotInTheFuture'
  <2>1. CASE Enter(t)
    BY <2>1 DEF Enter
  <2>2. CASE Fetch(t)
    BY <2>2 DEF Fetch
  <2>3. CASE ~Enter(t) /\ ~Fetch(t)
    <3> UNCHANGED <<asked, now, time>>
      BY <1>1, <2>3
      DEF Step, TestFirstRun, ClearFirstRun, DeleteCache, NullCache, SetStatus,
          Stamp, ReadCache, CopyTree, Return, Release
    <3> QED OBVIOUS
  <2> QED BY <2>1, <2>2, <2>3
<1>2. CASE Tick
  BY <1>2 DEF Tick
<1>3. CASE UNCHANGED vars
  BY <1>3 DEF vars
<1> QED BY <1>1, <1>2, <1>3 DEF Next, Step
-----------------------------------------------------------------------------
(* The invariant                                                           *)

Calm == ~raced => Orderly /\ StatusIsKnown /\ Punctual

IInv == TypeOK /\ Private /\ NotInTheFuture /\ Calm

\* At the start nothing is cached and no one is in a call.
LEMMA InvariantInit == Init => IInv
<1> SUFFICES ASSUME Init PROVE IInv
  OBVIOUS
<1>1. TypeOK
  BY TypeInit
<1>2. Orderly
  BY DEF Init, Orderly, Serial, Overlap, CacheIsCurrent, CacheIsGone, SourceIsCache,
         CopiesAreHeld, NothingLeaks, CopyIsLatest, OnlyCopiesStarve, FREE, Live, Refilling
<1>3. Punctual /\ NotInTheFuture /\ StatusIsKnown
  BY DEF Init, Punctual, FirstRunIsFirst, StampFollows, IntervalIsOver,
         NotInTheFuture, StatusIsKnown
<1>4. Private
  BY DEF Init, Private
<1> QED BY <1>1, <1>2, <1>3, <1>4 DEF IInv, Calm

\* Time that passes disturbs nothing.
LEMMA CalmTick == Calm /\ (Tick \/ UNCHANGED vars) => Calm'
<1> SUFFICES ASSUME Calm, Tick \/ UNCHANGED vars PROVE Calm'
  OBVIOUS
<1>1. UNCHANGED <<statics, heap, pc, locals, fault, histories, raced>>
  BY DEF Tick, vars, statics, locals, histories
<1> QED
  BY <1>1
  DEF statics, locals, histories, Calm, Orderly, Serial, Overlap, CacheIsCurrent,
      CacheIsGone, SourceIsCache, CopiesAreHeld, NothingLeaks, CopyIsLatest, OnlyCopiesStarve,
      StatusIsKnown, Live,
      Punctual, FirstRunIsFirst, StampFollows, IntervalIsOver

\* No step of any thread breaks the invariant.
LEMMA InvariantStep == IInv /\ [Next]_vars => IInv'
<1> SUFFICES ASSUME IInv, [Next]_vars PROVE IInv'
  OBVIOUS
<1>1. TypeOK' /\ Private' /\ NotInTheFuture'
  BY TypeStep, PrivateStep, FutureStep DEF IInv
<1>2. Calm'
  <2>1. ASSUME NEW t \in Thread, Step(t), ~raced' PROVE Orderly' /\ StatusIsKnown' /\ Punctual'
    <3>1. ~raced /\ ~Overlap'
      BY <2>1
      DEF Step, Goes, Enter, TestFirstRun, ClearFirstRun, DeleteCache, NullCache, Fetch,
          SetStatus, Stamp, ReadCache, CopyTree, Return, Release, IInv, TypeOK
    <3>2. Orderly /\ StatusIsKnown /\ Punctual /\ ~Overlap
      BY <3>1 DEF IInv, Calm, Orderly, Serial
    <3> QED BY <2>1, <3>1, <3>2, OrderlyStep, StatusStep, PunctualStep DEF IInv
  <2> QED BY <2>1, CalmTick DEF Next, Step, IInv, Calm
<1> QED BY <1>1, <1>2 DEF IInv

\* So it holds throughout, for any number of threads.
LEMMA Invariant == Spec => []IInv
BY InvariantInit, InvariantStep, PTL DEF Spec

\* As long as no call is under way during another's refill, no freed memory
\* is read or freed again.
THEOREM SafeUnlessRaced == Spec => []NoFaultUnlessRaced
<1>1. IInv => NoFaultUnlessRaced
  BY DEF IInv, TypeOK, Calm, Orderly, Serial, NoFaultUnlessRaced
<1> QED BY <1>1, Invariant, PTL

\* Nor is a tree lost.
THEOREM TidyUnlessRaced == Spec => []NoLeakUnlessRaced
<1>1. IInv => NoLeakUnlessRaced
  BY DEF IInv, Calm, Orderly, NothingLeaks, NoLeakUnlessRaced
<1> QED BY <1>1, Invariant, PTL

\* Nor is a call answered with anything but the outcome of the last fetch, or
\* with no document when its own copy ran out of memory.
THEOREM CurrentUnlessRaced == Spec => []LatestFetchUnlessRaced
<1>1. IInv => LatestFetchUnlessRaced
  BY DEF IInv, Calm, Orderly, CopyIsLatest, StatusIsKnown, LatestFetchUnlessRaced
<1> QED BY <1>1, Invariant, PTL

\* Nor is the backend asked twice in an interval of CPU time.
THEOREM FetchesAreSpaced == Spec => FetchSpacing
<1>1. IInv /\ [Next]_vars =>
        [Asks /\ asked # NULL /\ ~raced' => time - asked >= INTERVAL]_vars
  <2> SUFFICES ASSUME IInv, Next, Asks, asked # NULL, ~raced'
               PROVE  time - asked >= INTERVAL
    BY DEF Asks
  <2>1. PICK t \in Thread : pc[t] = "fetch" /\ pc'[t] # "fetch"
    BY DEF Asks
  <2>2. ~raced
    BY DEF Next, Goes, Enter, TestFirstRun, ClearFirstRun, DeleteCache, NullCache, Fetch,
           SetStatus, Stamp, ReadCache, CopyTree, Return, Release, Tick, IInv, TypeOK
  <2>3. now[t] - asked >= INTERVAL /\ now[t] <= time
    BY <2>1, <2>2 DEF IInv, Calm, Punctual, IntervalIsOver, NotInTheFuture
  <2>4. asked \in Int /\ now[t] \in Int /\ time \in Int
    BY <2>1 DEF IInv, TypeOK, Times
  <2> QED BY <2>3, <2>4, ParameterAssumption
<1> QED BY <1>1, Invariant, PTL DEF Spec, FetchSpacing
=============================================================================
