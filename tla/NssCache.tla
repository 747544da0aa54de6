------------------------------ MODULE NssCache ------------------------------
(***************************************************************************)
(* The in-memory cache of nss-json-impl.c: _nss_json_handle_request, and   *)
(* delegate and performRequest behind it, one action per access to shared  *)
(* memory.  The statics have no lock and the calls that reach them come    *)
(* from any thread of the process, so that threads interleave between any  *)
(* two of those accesses.                                                  *)
(*                                                                         *)
(* A tree is identified with the moment the backend was asked for it: a    *)
(* copy made by cJSON_Duplicate was born when its original was.  The time  *)
(* is that of clock(), the CPU time the process has used; it is behind the *)
(* wall clock when the process sleeps, and ahead of it when several        *)
(* threads work.                                                           *)
(*                                                                         *)
(* The histories asked, answered, starved and raced are read by properties *)
(* only.                                                                   *)
(***************************************************************************)
EXTENDS Integers

CONSTANTS
  NULL,       \* the null pointer
  Thread,     \* the threads of the process
  Ptr,        \* the addresses of trees, which bound what can leak
  INTERVAL,   \* CACHE_INTERVAL_IN_SEC, in ticks of clock()
  MaxCpu      \* bound on the CPU time of a behaviour

ASSUME ParameterAssumption ==
  /\ NULL \notin Ptr
  /\ INTERVAL \in Nat \ {0}
  /\ MaxCpu \in Nat

VARIABLES
  firstRun,      \* static
  before,        \* static: CPU time after the last fetch
  jsonCache,     \* static: address of the cached document, or NULL
  retvalCache,   \* static: the status to answer with
  heap,          \* what each address holds
  pc,            \* where each thread is
  now,           \* local: the time at which the call began
  source,        \* local: the tree that cJSON_Duplicate reads
  response,      \* local: the copy that the caller owns
  status,        \* local: the status that the caller was given
  time,          \* the CPU time, in ticks of clock()
  fault,         \* freed memory has been read or freed again
  asked,         \* history: when the backend was last asked, or NULL
  answered,      \* history: whether that produced a document
  starved,       \* history: the copy of a thread's call ran out of memory
  raced          \* history: a call was under way during another's refill

statics == <<firstRun, before, jsonCache, retvalCache>>
locals == <<now, source, response, status>>
histories == <<asked, answered, starved>>

vars == <<firstRun, before, jsonCache, retvalCache, heap, pc, now, source,
          response, status, time, fault, asked, answered, starved, raced>>

Times == 0 .. MaxCpu

FREE == [live |-> FALSE, born |-> 0]

Tree(born) == [live |-> TRUE, born |-> born]

Live(p) == p # NULL /\ heap[p].live

\* Addresses the allocator can hand out without hiding a dangling pointer.
Available(p) ==
  /\ ~heap[p].live
  /\ jsonCache # p
  /\ \A t \in Thread : source[t] # p /\ response[t] # p

Refilling == {"mark", "clear", "null", "fetch", "status", "stamp"}

InCall == Refilling \cup {"first", "dup", "copy", "ret"}

Overlap ==
  \E t, u \in Thread : t # u /\ pc[t] \in Refilling /\ pc[u] \in InCall

Init ==
  /\ firstRun = TRUE
  /\ before = 0
  /\ jsonCache = NULL
  /\ retvalCache = "NOTFOUND"
  /\ heap = [p \in Ptr |-> FREE]
  /\ pc = [t \in Thread |-> "idle"]
  /\ now = [t \in Thread |-> 0]
  /\ source = [t \in Thread |-> NULL]
  /\ response = [t \in Thread |-> NULL]
  /\ status = [t \in Thread |-> "NOTFOUND"]
  /\ time = 0
  /\ fault = FALSE
  /\ asked = NULL
  /\ answered = FALSE
  /\ starved = [t \in Thread |-> FALSE]
  /\ raced = FALSE

-----------------------------------------------------------------------------
(* _nss_json_handle_request                                                *)

\* A thread moves on, unless the process is in ruins.
Goes(t, from, to) ==
  /\ ~fault
  /\ pc[t] = from
  /\ pc' = [pc EXCEPT ![t] = to]
  /\ raced' = (raced \/ Overlap')
  /\ UNCHANGED time

\* now = clock()
Enter(t) ==
  /\ Goes(t, "idle", "first")
  /\ now' = [now EXCEPT ![t] = time]
  /\ UNCHANGED <<statics, heap, source, response, status, fault, histories>>

\* The first run counts as the whole interval.  The branch is decided on
\* the time since the last fetch, in whole seconds; so is the test.
Expired(t) == now[t] - before >= INTERVAL

TestFirstRun(t) ==
  /\ Goes(t, "first", IF firstRun THEN "mark" ELSE IF Expired(t) THEN "clear" ELSE "dup")
  /\ UNCHANGED <<statics, heap, locals, fault, histories>>

\* firstRun = 0
ClearFirstRun(t) ==
  /\ Goes(t, "mark", "clear")
  /\ firstRun' = FALSE
  /\ UNCHANGED <<before, jsonCache, retvalCache, heap, locals, fault, histories>>

\* A variant of DeleteCache that forgets to.
DeleteNothing(t) ==
  /\ Goes(t, "clear", "null")
  /\ UNCHANGED <<statics, heap, locals, fault, histories>>

\* cJSON_Delete(jsonCache)
DeleteCache(t) ==
  /\ Goes(t, "clear", "null")
  /\ heap' = [p \in Ptr |-> IF p = jsonCache THEN FREE ELSE heap[p]]
  /\ fault' = (jsonCache # NULL /\ ~Live(jsonCache))
  /\ UNCHANGED <<statics, locals, histories>>

\* jsonCache = NULL
NullCache(t) ==
  /\ Goes(t, "null", "fetch")
  /\ jsonCache' = NULL
  /\ UNCHANGED <<firstRun, before, retvalCache, heap, locals, fault, histories>>

\* A variant of FetchDocument that does not pass the document on.
FetchUnstored(t) ==
  /\ \E p \in Ptr : Available(p) /\ heap' = [heap EXCEPT ![p] = Tree(time)]
  /\ answered' = TRUE
  /\ UNCHANGED jsonCache

\* delegate: with no url the answer is an empty array; with one it is what
\* the transfer brought, if that can be parsed.  The request plays no part.
FetchDocument(t) ==
  /\ \E p \in Ptr :
       /\ Available(p)
       /\ heap' = [heap EXCEPT ![p] = Tree(time)]
       /\ jsonCache' = p
  /\ answered' = TRUE

FetchNothing(t) ==
  /\ jsonCache' = NULL
  /\ answered' = FALSE
  /\ UNCHANGED heap

Fetch(t) ==
  /\ Goes(t, "fetch", "status")
  /\ FetchDocument(t) \/ FetchNothing(t)
  /\ asked' = time
  /\ UNCHANGED <<firstRun, before, retvalCache, locals, fault, starved>>

\* The status that delegate returns: it compares the address of jsonCache
\* with NULL, never what jsonCache holds.
DelegateStatus == "SUCCESS"

SetStatus(t) ==
  /\ Goes(t, "status", "stamp")
  /\ retvalCache' = DelegateStatus
  /\ UNCHANGED <<firstRun, before, jsonCache, heap, locals, fault, histories>>

\* Variants of Stamp: the time before the fetch, or that of the next one.
StampBegin(t) ==
  /\ Goes(t, "stamp", "dup")
  /\ before' = now[t]
  /\ UNCHANGED <<firstRun, jsonCache, retvalCache, heap, locals, fault, histories>>

StampNext(t) ==
  /\ Goes(t, "stamp", "dup")
  /\ before' = time + INTERVAL
  /\ UNCHANGED <<firstRun, jsonCache, retvalCache, heap, locals, fault, histories>>

\* before = clock()
Stamp(t) ==
  /\ Goes(t, "stamp", "dup")
  /\ before' = time
  /\ UNCHANGED <<firstRun, jsonCache, retvalCache, heap, locals, fault, histories>>

\* cJSON_Duplicate takes jsonCache, then walks and copies the tree there.
ReadCache(t) ==
  /\ Goes(t, "dup", "copy")
  /\ source' = [source EXCEPT ![t] = jsonCache]
  /\ UNCHANGED <<statics, heap, now, response, status, fault, histories>>

\* A variant of CopyTree that hands out the cached tree itself.
ShareTree(t) ==
  /\ Goes(t, "copy", "ret")
  /\ response' = [response EXCEPT ![t] = source[t]]
  /\ source' = [source EXCEPT ![t] = NULL]
  /\ fault' = (source[t] # NULL /\ ~Live(source[t]))
  /\ UNCHANGED <<statics, heap, now, status, histories>>

\* The copy is complete; or there is nothing to copy; or an allocation has
\* failed, and what was copied until then is deleted.
Copied(t) ==
  /\ Live(source[t])
  /\ \E p \in Ptr :
       /\ Available(p)
       /\ heap' = [heap EXCEPT ![p] = heap[source[t]]]
       /\ response' = [response EXCEPT ![t] = p]
  /\ UNCHANGED <<fault, starved>>

NotCopied(t) ==
  /\ ~Live(source[t])
  /\ fault' = (source[t] # NULL)
  /\ UNCHANGED <<heap, response, starved>>

CopyFailed(t) ==
  /\ source[t] # NULL
  /\ starved' = [starved EXCEPT ![t] = TRUE]
  /\ UNCHANGED <<heap, response, fault>>

CopyTree(t) ==
  /\ Goes(t, "copy", "ret")
  /\ Copied(t) \/ NotCopied(t) \/ CopyFailed(t)
  /\ source' = [source EXCEPT ![t] = NULL]
  /\ UNCHANGED <<statics, now, status, asked, answered>>

\* return retvalCache
Return(t) ==
  /\ Goes(t, "ret", "hold")
  /\ status' = [status EXCEPT ![t] = retvalCache]
  /\ UNCHANGED <<statics, heap, now, source, response, fault, histories>>

\* The caller is done with its copy and deletes it.
Release(t) ==
  /\ Goes(t, "hold", "idle")
  /\ heap' = [p \in Ptr |-> IF p = response[t] THEN FREE ELSE heap[p]]
  /\ fault' = (response[t] # NULL /\ ~Live(response[t]))
  /\ response' = [response EXCEPT ![t] = NULL]
  /\ starved' = [starved EXCEPT ![t] = FALSE]
  /\ UNCHANGED <<statics, now, source, status, asked, answered>>

\* The process uses CPU time.
Tick ==
  /\ ~fault
  /\ time < MaxCpu
  /\ time' = time + 1
  /\ UNCHANGED <<statics, heap, pc, locals, fault, histories, raced>>

Next ==
  \/ \E t \in Thread :
       \/ Enter(t) \/ TestFirstRun(t) \/ ClearFirstRun(t) \/ DeleteCache(t)
       \/ NullCache(t) \/ Fetch(t) \/ SetStatus(t) \/ Stamp(t)
       \/ ReadCache(t) \/ CopyTree(t) \/ Return(t) \/ Release(t)
  \/ Tick

Spec == Init /\ [][Next]_vars

-----------------------------------------------------------------------------
(* Properties                                                              *)

Statuses == {"SUCCESS", "NOTFOUND"}

TypeOK ==
  /\ firstRun \in BOOLEAN
  /\ before \in 0 .. MaxCpu
  /\ jsonCache \in Ptr \cup {NULL}
  /\ retvalCache \in Statuses
  /\ heap \in [Ptr -> [live : BOOLEAN, born : Times]]
  /\ pc \in [Thread -> InCall \cup {"idle", "hold"}]
  /\ now \in [Thread -> Times]
  /\ source \in [Thread -> Ptr \cup {NULL}]
  /\ response \in [Thread -> Ptr \cup {NULL}]
  /\ status \in [Thread -> Statuses]
  /\ time \in Times
  /\ fault \in BOOLEAN
  /\ asked \in Times \cup {NULL}
  /\ answered \in BOOLEAN
  /\ starved \in [Thread -> BOOLEAN]
  /\ raced \in BOOLEAN

\* As long as no call is under way while another one refills the cache, no
\* freed memory is read or freed again.
NoFaultUnlessRaced == fault => raced

\* Nor is a tree lost: each is the cache or a copy that its caller deletes.
NoLeakUnlessRaced ==
  ~raced => \A p \in Ptr : heap[p].live =>
              p = jsonCache \/ \E t \in Thread : response[t] = p

\* Nor is a call answered with anything but the outcome of the last fetch:
\* not with an older document, with none exactly when that fetch has failed or
\* there was no memory for the copy, and not with the status that retvalCache
\* holds before the first fetch.
LatestFetchUnlessRaced ==
  ~raced => \A t \in Thread :
    /\ pc[t] = "ret" => IF answered /\ ~starved[t]
                          THEN Live(response[t]) /\ heap[response[t]].born = asked
                          ELSE response[t] = NULL
    /\ pc[t] = "hold" => status[t] = DelegateStatus

\* A copy belongs to its caller alone, whatever the other threads do to the
\* cache meanwhile.
PrivateCopies ==
  \A t \in Thread : response[t] # NULL /\ ~fault =>
    /\ Live(response[t])
    /\ response[t] # jsonCache
    /\ \A u \in Thread : u # t => response[u] # response[t] /\ source[u] # response[t]

\* A thread asks the backend.
Asks == \E t \in Thread : pc[t] = "fetch" /\ pc'[t] # "fetch"

\* The backend is asked at most once in each interval of CPU time, also
\* when it fails, as long as refills do not overlap with other calls.
FetchSpacing ==
  [][Asks /\ asked # NULL /\ ~raced' => time - asked >= INTERVAL]_vars

=============================================================================
