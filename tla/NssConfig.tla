------------------------------ MODULE NssConfig ------------------------------
(***************************************************************************)
(* The configuration of the default backend: the hash table of config.c,   *)
(* and delegate of nss-json-impl.c, which reads the file into it at each   *)
(* request, looks its options up, and empties it again.  Any number of     *)
(* threads may do so, each at its own place, on the same table.            *)
(*                                                                         *)
(* A value is a string on the heap at an address.  A key is known to the   *)
(* table by nothing but the sum of its characters, which are signed.       *)
(***************************************************************************)
EXTENDS Integers, Sequences, Functions, FiniteSetsExt

CONSTANTS
  NULL,       \* the null pointer, and a file that cannot be opened
  HASHMAX,    \* the size of the table
  Keys,       \* the keys that a file may set
  CharSum,    \* the sum of the characters of each key
  Values,     \* the values it may set them to
  Files,      \* the contents that the file may have, see FilesAssumption
  Ptr,        \* the addresses of values
  Thread,     \* the threads that make requests
  MaxReads    \* bound on the number of times the file is read

\* A file is a sequence of lines: what sscanf makes of a line that sets an
\* option, or NULL for a line that is empty, a comment, or unparseable.
ASSUME FilesAssumption ==
  \A f \in Files \ {NULL} :
    f \in Seq([key : Keys, val : Values] \cup {NULL})

ASSUME ConfigAssumption ==
  /\ HASHMAX \in Nat \ {0}
  /\ {"url", "includeRequestArg", "verbose"} \subseteq Keys
  /\ CharSum \in [Keys -> Int]
  /\ \A key \in {"url", "includeRequestArg", "verbose"} : CharSum[key] >= 0
  /\ NULL \notin Ptr /\ NULL \notin Values /\ NULL \notin [key : Keys, val : Values]
  /\ "" \notin Values
  /\ MaxReads \in Nat

VARIABLES
  file,         \* the file, as it is now
  heap,         \* the value at each address, or NULL
  options,      \* static _options
  confisopen,   \* static _confisopen
  registered,   \* how often cleanupconfig was registered with atexit
  pc,           \* where each thread is in delegate
  lines,        \* the lines of its open file that it has not read
  seen,         \* history: the file as it was when the thread opened it
  url,          \* local: what getcfg returned for url
  used,         \* the url that its request was sent to
  exited,       \* exit was called
  fault,        \* memory that is not the table's has been used
  starved,      \* history: malloc has failed
  strange,      \* history: a key had a negative remainder
  raced         \* history: two threads were in delegate, or one at exit

vars == <<file, heap, options, confisopen, registered, pc, lines, seen, url, used,
          exited, fault, starved, strange, raced>>

locals == <<lines, seen, url, used>>
unseen == <<starved, strange>>

Slots == 0 .. HASHMAX - 1

Init ==
  /\ file \in Files
  /\ heap = [p \in Ptr |-> NULL]
  /\ options = [h \in Slots |-> NULL]
  /\ confisopen = FALSE
  /\ registered = 0
  /\ pc = [t \in Thread |-> "idle"]
  /\ lines = [t \in Thread |-> <<>>]
  /\ seen = [t \in Thread |-> NULL]
  /\ url = [t \in Thread |-> NULL]
  /\ used = [t \in Thread |-> NULL]
  /\ exited = FALSE
  /\ fault = FALSE
  /\ starved = FALSE
  /\ strange = FALSE
  /\ raced = FALSE

\* texthash: the remainder of a negative sum is negative or zero.
TextHash(key) ==
  IF CharSum[key] >= 0 THEN CharSum[key] % HASHMAX ELSE -((-CharSum[key]) % HASHMAX)

Stored == Range(options) \ {NULL}

\* The free loops of readconfig and cleanupconfig: all values of the table.
FreeOptions ==
  /\ heap' = [p \in Ptr |-> IF p \in Stored THEN NULL ELSE heap[p]]
  /\ fault' = (\E p \in Stored : heap[p] = NULL)

\* The table is freed where it is open.
FreeIfOpen == IF confisopen THEN FreeOptions ELSE UNCHANGED <<heap, fault>>

\* A step of thread t from one place to another.
Moves(t, place, next) ==
  /\ ~fault /\ pc[t] = place
  /\ pc' = [pc EXCEPT ![t] = next]

Inside(t) == pc[t] \notin {"idle", "gone"}

-----------------------------------------------------------------------------
(* readconfig                                                              *)

\* A variant of Forget that leaves the table as it is.
ForgetNothing(t) ==
  /\ Moves(t, "forget", "open")
  /\ UNCHANGED <<file, heap, options, confisopen, registered, locals, exited, fault,
                 unseen, raced>>

\* The values of a table that is open are freed,
Free(t) ==
  /\ Moves(t, "idle", "forget") /\ registered < MaxReads
  /\ FreeIfOpen
  /\ raced' = (raced \/ exited \/ \E u \in Thread : Inside(u))
  /\ UNCHANGED <<file, options, confisopen, registered, locals, exited, unseen>>

\* and the table is emptied.
Forget(t) ==
  /\ Moves(t, "forget", "open")
  /\ options' = [h \in Slots |-> NULL]
  /\ UNCHANGED <<file, heap, confisopen, registered, locals, exited, fault,
                 unseen, raced>>

\* Without the file the table stays empty, and is not opened.
Open(t) ==
  /\ Moves(t, "open", IF file = NULL THEN "get" ELSE "lines")
  /\ seen' = [seen EXCEPT ![t] = file]
  /\ lines' = [lines EXCEPT ![t] = IF file = NULL THEN @ ELSE file]
  /\ UNCHANGED <<file, heap, options, confisopen, registered, url, used, exited, fault,
                 unseen, raced>>

\* An address that malloc may return.
Fresh == {p \in Ptr \ Stored : heap[p] = NULL}

\* A variant of Store in which the last line of a slot counts.
StoreLast(h, val) ==
  \E p \in Fresh :
    /\ heap' = [heap EXCEPT ![p] = val]
    /\ options' = [options EXCEPT ![h] = p]
    /\ UNCHANGED <<fault, starved>>

\* A slot is filled once.  The result of malloc is not looked at.
Store(h, val) ==
  IF options[h] # NULL THEN UNCHANGED <<heap, options, fault, starved>>
  ELSE \/ \E p \in Fresh :
            /\ heap' = [heap EXCEPT ![p] = val]
            /\ options' = [options EXCEPT ![h] = p]
            /\ UNCHANGED <<fault, starved>>
       \/ fault' = TRUE /\ starved' = TRUE /\ UNCHANGED <<heap, options>>

ReadLine(t) ==
  /\ Moves(t, "lines", "lines") /\ lines[t] # <<>>
  /\ lines' = [lines EXCEPT ![t] = Tail(@)]
  /\ LET line == Head(lines[t])
     IN  IF line = NULL THEN UNCHANGED <<heap, options, fault, unseen>>
         ELSE /\ strange' = (strange \/ TextHash(line.key) < 0)
              /\ IF TextHash(line.key) \in Slots
                   THEN Store(TextHash(line.key), line.val)
                   ELSE fault' = TRUE /\ UNCHANGED <<heap, options, starved>>
  /\ UNCHANGED <<file, confisopen, registered, seen, url, used, exited, raced>>

EndOfFile(t) ==
  /\ Moves(t, "lines", "get") /\ lines[t] = <<>>
  /\ confisopen' = TRUE
  /\ registered' = registered + 1
  /\ UNCHANGED <<file, heap, options, locals, exited, fault, unseen, raced>>

-----------------------------------------------------------------------------
(* delegate, between readconfig and its return                             *)

\* What getcfg returns for a key: an address, or NULL for the literal "".
Cfg(key) == options[TextHash(key)]
Dangles(p) == p # NULL /\ heap[p] = NULL

GetUrl(t) ==
  /\ Moves(t, "get", "flags")
  /\ url' = [url EXCEPT ![t] = Cfg("url")]
  /\ UNCHANGED <<file, heap, options, confisopen, registered, lines, seen, used, exited,
                 fault, unseen, raced>>

\* The other two options are compared with "true" at once.
GetFlags(t) ==
  /\ Moves(t, "flags", "use")
  /\ fault' = (Dangles(Cfg("includeRequestArg")) \/ Dangles(Cfg("verbose")))
  /\ UNCHANGED <<file, heap, options, confisopen, registered, locals, exited, unseen, raced>>

\* strcmp, and performRequest for all but the empty url.
UseUrl(t) ==
  /\ Moves(t, "use", "clean")
  /\ used' = [used EXCEPT ![t] = IF url[t] = NULL THEN "" ELSE heap[url[t]]]
  /\ fault' = Dangles(url[t])
  /\ UNCHANGED <<file, heap, options, confisopen, registered, lines, seen, url, exited,
                 unseen, raced>>

\* A variant of CleanupConfig that frees nothing.
CleanupFlag ==
  /\ confisopen' = FALSE
  /\ UNCHANGED <<heap, fault, options>>

\* cleanupconfig: pointers to the values stay in the table.
CleanupConfig ==
  /\ FreeIfOpen
  /\ confisopen' = FALSE
  /\ UNCHANGED options

Clean(t) ==
  /\ Moves(t, "clean", "idle")
  /\ CleanupConfig
  /\ lines' = [lines EXCEPT ![t] = <<>>]
  /\ seen' = [seen EXCEPT ![t] = NULL]
  /\ url' = [url EXCEPT ![t] = NULL]
  /\ used' = [used EXCEPT ![t] = NULL]
  /\ UNCHANGED <<file, registered, exited, unseen, raced>>

\* exit, which writefunc calls when it is out of memory: the thread goes no
\* further, others may.
Exit(t) ==
  /\ ~fault /\ ~exited
  /\ pc' = [pc EXCEPT ![t] = "gone"]
  /\ exited' = TRUE
  /\ raced' = (raced \/ \E u \in Thread \ {t} : Inside(u))
  /\ UNCHANGED <<file, heap, options, confisopen, registered, locals, fault, unseen>>

\* The handlers run once for each time that one was registered.
RunHandler ==
  /\ ~fault /\ exited /\ registered > 0
  /\ CleanupConfig
  /\ registered' = registered - 1
  /\ UNCHANGED <<file, pc, locals, exited, unseen, raced>>

\* The administrator edits the file.
Edit ==
  /\ ~fault /\ ~exited
  /\ file' \in Files
  /\ UNCHANGED <<heap, options, confisopen, registered, pc, locals, exited, fault,
                 unseen, raced>>

Next ==
  \/ \E t \in Thread :
       \/ Free(t) \/ Forget(t) \/ Open(t) \/ ReadLine(t) \/ EndOfFile(t)
       \/ GetUrl(t) \/ GetFlags(t) \/ UseUrl(t) \/ Clean(t) \/ Exit(t)
  \/ RunHandler \/ Edit

Spec == Init /\ [][Next]_vars

-----------------------------------------------------------------------------
(* Properties                                                              *)

Lines == [key : Keys, val : Values] \cup {NULL}

TableOK ==
  /\ file \in Files
  /\ heap \in [Ptr -> Values \cup {NULL}]
  /\ options \in [Slots -> Ptr \cup {NULL}]
  /\ registered \in Nat

LocalsOK ==
  /\ pc \in [Thread -> {"idle", "forget", "open", "lines", "get", "flags", "use", "clean", "gone"}]
  /\ lines \in [Thread -> Seq(Lines)]
  /\ seen \in [Thread -> Files \cup {NULL}]
  /\ url \in [Thread -> Ptr \cup {NULL}]
  /\ used \in [Thread -> Values \cup {"", NULL}]

FlagsOK ==
  /\ confisopen \in BOOLEAN /\ exited \in BOOLEAN
  /\ fault \in BOOLEAN /\ starved \in BOOLEAN /\ strange \in BOOLEAN /\ raced \in BOOLEAN

TypeOK == TableOK /\ LocalsOK /\ FlagsOK

\* Values are freed once and not used afterwards, although cleanupconfig
\* leaves its pointers in the table and runs again at exit, and although the
\* file may come, go and change between any two steps: only when memory runs
\* out, when a key's remainder is negative, or when a thread begins a request
\* or exits during another's, is other memory touched.
OnlyTheTableIsUsed == TypeOK /\ (fault => starved \/ strange \/ raced)

\* Between requests nothing of the configuration is left in memory.
NothingIsLeft ==
  (\A t \in Thread : pc[t] = "idle") /\ ~fault /\ ~raced => \A p \in Ptr : heap[p] = NULL

\* The lines that set the url in the file that t has read, and whether a line
\* in front of them has a key that the table cannot tell from url.
LinesWith(t, keys) ==
  IF seen[t] = NULL THEN {}
  ELSE {i \in DOMAIN seen[t] : seen[t][i] # NULL /\ seen[t][i].key \in keys}

UrlLines(t) == LinesWith(t, {"url"})

Homonyms == {key \in Keys \ {"url"} : TextHash(key) = TextHash("url")}

Hidden(t) == \E i \in LinesWith(t, Homonyms) : \A j \in UrlLines(t) : i < j

UrlOf(t) == IF UrlLines(t) = {} THEN "" ELSE seen[t][Min(UrlLines(t))].val

\* Each request goes to the url of the file as it is when the request is
\* made, that is to the first one it sets, or to none if it sets none; never
\* to that of an earlier request, nor, unless they overlap, to what another
\* thread has read.  Files are left out in which a line for another key with
\* the remainder of url comes first.
FollowsTheFile ==
  \A t \in Thread :
    pc[t] = "clean" /\ ~fault /\ ~raced /\ ~Hidden(t) => used[t] = UrlOf(t)

\* config.c: get value for 'key' from the hashmap.  The value of url is the
\* one that the file sets url to.
UrlIsTheUrl ==
  \A t \in Thread : pc[t] = "clean" /\ ~fault /\ ~raced => used[t] = UrlOf(t)
=============================================================================
