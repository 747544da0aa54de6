------------------------------ MODULE NssEnum ------------------------------
(***************************************************************************)
(* The enumeration calls of nss-json.c: setpwent, getpwent_r, endpwent and *)
(* their group twins, one action per call.  All six work on the same three *)
(* statics, so a call is a parameterised by its database, and what it does *)
(* to memory is explicit: heap says what each address holds, and deleting  *)
(* a tree frees its address while pointers to it may survive.              *)
(*                                                                         *)
(* openResponse owns the duplicate of the cached document; openMatches     *)
(* owns an array of references, each of which points into that duplicate;  *)
(* cursor is the reference to hand out next.  A caller's allocator may     *)
(* reuse an address; here an address that some pointer still holds is not  *)
(* reused, so that a read through a dangling pointer is always noticed.    *)
(***************************************************************************)
EXTENDS NssMatch, FiniteSetsExt

CONSTANT Ptr   \* the addresses of trees, which bound what can leak

ASSUME PtrAssumption == NULL \notin Ptr /\ NULL \notin [block : Ptr, pos : Nat]

VARIABLES
  heap,          \* what each address holds
  openResponse,  \* static: address of the response, or NULL
  openMatches,   \* static: address of the reference array, or NULL
  cursor,        \* static: a reference in an array, or NULL
  session,       \* the database the caller has successfully opened, or NULL
  reply,         \* what the last call told its caller
  fault          \* freed memory has been read or freed again

vars == <<heap, openResponse, openMatches, cursor, session, reply, fault>>

-----------------------------------------------------------------------------
(* Memory                                                                  *)

Block(kind, doc, tree, refs) ==
  [kind |-> kind, doc |-> doc, tree |-> tree, refs |-> refs]

FREE == Block("free", NoDocument, NULL, {})

Live(p) == p # NULL /\ heap[p].kind # "free"

\* Addresses the allocator can hand out without hiding a dangling pointer.
Available(p) ==
  /\ heap[p].kind = "free"
  /\ cursor # NULL => cursor.block # p
  /\ openMatches # NULL => heap[openMatches].tree # p

\* The heap after _cJSON_SafeDelete of each of these pointers.
Deleted(ps) == [p \in Ptr |-> IF p \in ps THEN FREE ELSE heap[p]]

\* A non-NULL pointer that is deleted must point to something.
BadDelete(ps) == \E p \in ps \ {NULL} : ~Live(p)

Entry(block, pos) == [block |-> block, pos |-> pos]

\* Variants of First: an empty list is not noticed, or leaves the cursor as it is.
FirstUnchecked(block, refs) == Entry(block, IF refs = {} THEN NULL ELSE Min(refs))
FirstKept(block, refs) == IF refs = {} THEN cursor ELSE Entry(block, Min(refs))

\* The first reference of a list.
First(block, refs) == IF refs = {} THEN NULL ELSE Entry(block, Min(refs))

\* A variant of Following that stays where it is.
FollowingSame(c) == First(c.block, {i \in heap[c.block].refs : i >= c.pos})

\* The reference behind a given one.
Following(c) == First(c.block, {i \in heap[c.block].refs : i > c.pos})

\* A reference is read together with the children of the item it names.
Dangling(c) == ~Live(c.block) \/ ~Live(heap[c.block].tree)

ItemAt(c) == heap[heap[c.block].tree].doc.items[c.pos]

-----------------------------------------------------------------------------
(* Calls                                                                   *)

Reply(op, db, status, item, filled) ==
  [op |-> op, db |-> db, status |-> status, item |-> item, filled |-> filled]

NoReply == Reply("none", NULL, NULL, NULL, FALSE)

Init ==
  /\ heap = [p \in Ptr |-> FREE]
  /\ openResponse = NULL
  /\ openMatches = NULL
  /\ cursor = NULL
  /\ session = NULL
  /\ reply = NoReply
  /\ fault = FALSE

\* What setpwent and setgrent free before they ask; a variant forgets to.
NotCleared == heap
Cleared == Deleted({openResponse})

\* The heap with the response at r, if there is one.
Answered(doc, r) ==
  IF r = NULL THEN Cleared ELSE [Cleared EXCEPT ![r] = Block("tree", doc, NULL, {})]

\* The request is answered with doc, which is stored at r, and status; on
\* success the references are collected at m and the cursor set to the first.
Opens(db, doc, status, r, m) ==
  /\ IF doc.type = NULL THEN r = NULL ELSE r \in Ptr /\ Available(r)
  /\ openResponse' = r
  /\ openMatches' = m
  /\ \/ /\ status = "SUCCESS"
        /\ m \in Ptr \ {r} /\ Available(m)
        /\ LET refs == EnumerationMatches(db, doc)
           IN  /\ heap' = [Answered(doc, r) EXCEPT ![m] = Block("refs", NoDocument, r, refs)]
               /\ cursor' = First(m, refs)
        /\ session' = db
     \/ /\ status # "SUCCESS"
        /\ m = openMatches
        /\ heap' = Answered(doc, r)
        /\ UNCHANGED <<cursor, session>>
  /\ reply' = Reply("setent", db, status, NULL, FALSE)

\* setpwent, setgrent.  Only openResponse is deleted first; openMatches is
\* overwritten when the request succeeds.
SetEnt(db) ==
  /\ ~fault
  /\ \E doc \in Docs, status \in HandlerStatuses, r, m \in Ptr \cup {NULL} :
       Opens(db, doc, status, r, m)
  /\ fault' = BadDelete({openResponse})

\* getpwent_r, getgrent_r: at the end of the list.
GetEntAtEnd(db) ==
  /\ ~fault
  /\ cursor = NULL
  /\ reply' = Reply("getent", db, "NOTFOUND", NULL, FALSE)
  /\ UNCHANGED <<heap, openResponse, openMatches, cursor, session, fault>>

\* getpwent_r, getgrent_r: the status of the conversion is not looked at, so
\* the cursor moves on and the caller is told SUCCESS whatever was copied.
GetEntEntry(db) ==
  /\ ~fault
  /\ cursor # NULL
  /\ ~Dangling(cursor)
  /\ \E fits \in BOOLEAN :
       reply' = Reply("getent", db, "SUCCESS", ItemAt(cursor),
                      ConversionStatus(db, ItemAt(cursor), fits) = "SUCCESS")
  /\ cursor' = Following(cursor)
  /\ UNCHANGED <<heap, openResponse, openMatches, session, fault>>

\* getpwent_r, getgrent_r: the cursor points to freed memory.
GetEntDangling(db) ==
  /\ ~fault
  /\ cursor # NULL
  /\ Dangling(cursor)
  /\ fault' = TRUE
  /\ UNCHANGED <<heap, openResponse, openMatches, cursor, session, reply>>

GetEnt(db) == GetEntAtEnd(db) \/ GetEntEntry(db) \/ GetEntDangling(db)

\* endpwent, endgrent, in terms of what is freed and what is set to NULL.
Ends(db, freed, nulled) ==
  /\ ~fault
  /\ heap' = Deleted(freed)
  /\ fault' = BadDelete(freed)
  /\ openResponse' = IF openResponse \in nulled THEN NULL ELSE openResponse
  /\ openMatches' = IF openMatches \in nulled THEN NULL ELSE openMatches
  /\ session' = NULL
  /\ reply' = Reply("endent", db, "SUCCESS", NULL, FALSE)
  /\ UNCHANGED cursor

\* Variants of EndEnt: a pointer to what was freed stays behind, or the
\* references are not freed.
EndEntKeepsResponse(db) == Ends(db, {openResponse, openMatches}, {openMatches})
EndEntKeepsMatches(db) == Ends(db, {openResponse, openMatches}, {openResponse})
EndEntForgetsMatches(db) == Ends(db, {openResponse}, {openResponse, openMatches})

\* The cursor is left where it was.
EndEnt(db) == Ends(db, {openResponse, openMatches}, {openResponse, openMatches})

-----------------------------------------------------------------------------
(* Callers.  The interface lets a program call anything at any time.  The  *)
(* test driver, and a program that walks one database at a time, opens,    *)
(* reads and closes before it opens again.                                 *)

Next == \E db \in Databases : SetEnt(db) \/ GetEnt(db) \/ EndEnt(db)

PairedNext ==
  \E db \in Databases : \/ session = NULL /\ SetEnt(db)
                        \/ session = db /\ GetEnt(db)
                        \/ session = db /\ EndEnt(db)

Spec == Init /\ [][Next]_vars

PairedSpec == Init /\ [][PairedNext]_vars

\* The driver's loop reads until it is told that there is no more.
ReadOn == \E db \in Databases : session = db /\ GetEnt(db)

FairPairedSpec == PairedSpec /\ WF_vars(ReadOn)

-----------------------------------------------------------------------------
(* Properties                                                              *)

Entries == [block : Ptr, pos : Nat]

Blocks ==
  [kind : {"free", "tree", "refs"}, doc : Docs \cup {NoDocument},
   tree : Ptr \cup {NULL}, refs : SUBSET Nat]

Replies ==
  [op : {"none", "setent", "getent", "endent"}, db : Databases \cup {NULL},
   status : {"SUCCESS", "NOTFOUND", NULL}, item : Items \cup {NULL},
   filled : BOOLEAN]

TypeOK ==
  /\ heap \in [Ptr -> Blocks]
  /\ openResponse \in Ptr \cup {NULL}
  /\ openMatches \in Ptr \cup {NULL}
  /\ cursor \in Entries \cup {NULL}
  /\ session \in Databases \cup {NULL}
  /\ reply \in Replies
  /\ fault \in BOOLEAN

\* An address is owned when a static would free it.
Owned(p) == p \in {openResponse, openMatches}

\* A caller who closes what he opens never makes the library read or free
\* memory it has freed, although endpwent leaves the cursor dangling.
NoFault == ~fault

\* Nor does it lose memory: whatever is allocated is owned by a static, so
\* that the next set or end frees it.
NoLeak == \A p \in Ptr : heap[p].kind # "free" => Owned(p)

\* A caller who opens again without closing loses reference arrays and
\* nothing else: the copies of the backend's document are always freed.
LeaksOnlyReferences ==
  \A p \in Ptr : heap[p].kind = "tree" => Owned(p)

\* While a reference array is open, its references lead into the response
\* that is open, so reading on is safe whatever databases were opened in
\* between, as long as no request fails.
OpenMatchesAreReadable ==
  openMatches # NULL =>
    /\ Live(openMatches)
    /\ heap[openMatches].tree = openResponse
    /\ openResponse # NULL => Live(openResponse)
    /\ cursor # NULL => cursor.block = openMatches /\ ~Dangling(cursor)

\* Freed memory is read only by a caller who reads on after closing.
FaultOnlyAfterEnd == fault => openMatches = NULL

\* The code keeps the promise of module Enumeration to a paired caller.
Remaining ==
  IF session = NULL \/ cursor = NULL THEN {}
  ELSE {i \in heap[cursor.block].refs : i >= cursor.pos}

Walked ==
  IF session = NULL \/ openResponse = NULL THEN NoDocument
  ELSE heap[openResponse].doc

Promise == INSTANCE Enumeration
  WITH walking <- session, doc <- Walked, todo <- Remaining

KeepsPromise == Promise!Spec

\* A caller who keeps reading is told that there are no more records, or
\* closes: the cursor advances even when a record did not fit.
RunsDry ==
  session # NULL ~> (session = NULL \/ reply.status = "NOTFOUND")
=============================================================================
