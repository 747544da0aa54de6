------------------------------ MODULE NssTrees ------------------------------
(***************************************************************************)
(* The trees that the library itself builds with cJSON.c, one allocation   *)
(* after the other, any of which may fail: the arrays of references that   *)
(* the searches of cJSON-utils.c return, the requests of nss-json.c, and   *)
(* the objects of pwd2json, grp2json and shadow2json.                      *)
(***************************************************************************)
EXTENDS CJsonMemory

CONSTANT Tasks    \* what is to be built, see TasksAssumption

\* A search knows which items of the document match, and whether the single
\* match is extracted or the matches are walked.  A struct or a request is its
\* fields, of which some are strings, and perhaps a number of members.
ASSUME TasksAssumption ==
  \A k \in Tasks :
    \/ k.kind = "search" /\ k.document \in Seq(BOOLEAN) /\ k.extract \in BOOLEAN
    \/ k.kind = "build" /\ k.fields \in Seq({"string", "other"}) /\ k.members \in Nat \cup {NULL}

VARIABLES
  task,
  heap,      \* the memory
  place,     \* where the call is
  rest,      \* the objects, fields or members that are still to come
  matching,  \* the items of the document that match
  element,   \* the item of the document that a search is at
  response,  \* the document, NULL for a task that has none
  tree,      \* result of a search; requestJson, or result of a conversion
  members,   \* the local of grp2json
  answer     \* what ExtractSingleResult returns

document == <<matching, response>>
taskVars == <<task, heap, place, rest, document, element, tree, members, answer>>

TaskInit ==
  /\ task \in Tasks
  /\ heap = Empty
  /\ IF task.kind = "search" THEN place = "parse" /\ rest = task.document
                             ELSE place = "begin" /\ rest = task.fields
  /\ matching = {} /\ response = NULL
  /\ element = NULL /\ tree = NULL /\ members = NULL /\ answer = NULL

HeapWith(k) == [heap EXCEPT !.budget = k]

\* What a step leaves is m, but for the budget, which was for this step.
HeapBecomes(m) == heap' = [m EXCEPT !.budget = 0]

-----------------------------------------------------------------------------
(* The document: an array of objects with a member each, as the parser     *)
(* leaves it.  No document is searched like an empty one.                  *)

ParseArray ==
  /\ place = "parse" /\ response = NULL
  /\ LET array == CreateItem(HeapWith(1))
     IN  array.ptr # NULL /\ HeapBecomes(array.mem) /\ response' = array.ptr
  /\ UNCHANGED <<task, place, rest, matching, element, tree, members, answer>>

ParseObject ==
  /\ place = "parse" /\ response # NULL /\ rest # <<>>
  /\ LET object == CreateItem(HeapWith(4))
         text == CreateString(object.mem)
         whole == AddItemToObject(text.mem, object.ptr, LITERAL, text.ptr)
     IN  /\ object.ptr # NULL /\ text.ptr # NULL
         /\ HeapBecomes(AddItemToArray(whole, response, object.ptr))
         /\ matching' = matching \cup IF Head(rest) THEN {object.ptr} ELSE {}
  /\ rest' = Tail(rest)
  /\ UNCHANGED <<task, place, response, element, tree, members, answer>>

Parsed ==
  /\ place = "parse" /\ response # NULL /\ rest = <<>>
  /\ place' = "begin"
  /\ UNCHANGED <<task, heap, rest, document, element, tree, members, answer>>

\* cJSON_CreateArray in the searches, cJSON_CreateObject for the others.
Begin ==
  /\ place = "begin"
  /\ \E k \in Budgets :
       LET new == CreateItem(HeapWith(k)) IN HeapBecomes(new.mem) /\ tree' = new.ptr
  /\ IF task.kind = "search"
       THEN place' = "match" /\ element' = heap.item[response].child
       ELSE place' = (IF task.members = NULL THEN "field" ELSE "members") /\ UNCHANGED element
  /\ UNCHANGED <<task, rest, document, members, answer>>

-----------------------------------------------------------------------------
(* The searches                                                            *)

\* A variant of AddMatch that is content with the first one.
AddMatchOnce ==
  /\ place = "match" /\ element # NULL
  /\ IF element \in matching /\ tree # NULL /\ Children(heap, tree) = {}
       THEN \E k \in Budgets :
              LET new == CreateReference(HeapWith(k), element)
              IN  HeapBecomes(AddItemToArray(new.mem, tree, new.ptr))
       ELSE UNCHANGED heap
  /\ element' = heap.item[element].next
  /\ UNCHANGED <<task, place, rest, document, tree, members, answer>>

AddMatch ==
  /\ place = "match" /\ element # NULL
  /\ IF element \in matching
       THEN \E k \in Budgets :
              LET new == CreateReference(HeapWith(k), element)
              IN  HeapBecomes(AddItemToArray(new.mem, tree, new.ptr))
       ELSE UNCHANGED heap
  /\ element' = heap.item[element].next
  /\ UNCHANGED <<task, place, rest, document, tree, members, answer>>

\* The references of the array; cJSON_IsArray(NULL) is false.
Matches == IF tree = NULL THEN {} ELSE Children(heap, tree)

\* The item of the only reference, or none.
Single ==
  IF Cardinality(Matches) = 1 THEN heap.item[CHOOSE p \in Matches : TRUE].ref ELSE NULL

\* A variant of ExtractSingleResult that deletes the array only with a result.
ExtractKeeping ==
  /\ place = "match" /\ element = NULL /\ task.extract
  /\ answer' = Single
  /\ HeapBecomes(IF Single # NULL THEN Delete(heap, tree) ELSE heap)
  /\ place' = "answered"
  /\ UNCHANGED <<task, rest, document, element, tree, members>>

ExtractSingleResult ==
  /\ place = "match" /\ element = NULL /\ task.extract
  /\ answer' = Single
  /\ HeapBecomes(Delete(heap, tree))
  /\ place' = "answered"
  /\ UNCHANGED <<task, rest, document, element, tree, members>>

\* setXXent sets the cursor to openMatches->child.
Walk ==
  /\ place = "match" /\ element = NULL /\ ~task.extract
  /\ HeapBecomes(IF tree = NULL THEN Fault(heap) ELSE heap)
  /\ place' = "answered"
  /\ UNCHANGED <<task, rest, document, element, tree, members, answer>>

\* cleanup, and endXXent: there the document goes before the references.
Cleanup ==
  /\ place = "answered"
  /\ LET deleted == Delete(heap, response)
     IN  HeapBecomes(IF task.extract \/ deleted.fault THEN deleted ELSE Delete(deleted, tree))
  /\ place' = "done"
  /\ UNCHANGED <<task, rest, document, element, tree, members, answer>>

-----------------------------------------------------------------------------
(* The conversions, and the requests                                       *)

\* grp2json begins with the array for its members.
CreateMembers ==
  /\ place = "members"
  /\ \E k \in Budgets :
       LET new == CreateItem(HeapWith(k)) IN HeapBecomes(new.mem) /\ members' = new.ptr
  /\ place' = "field"
  /\ UNCHANGED <<task, rest, document, element, tree, answer>>

AddField ==
  /\ place = "field" /\ rest # <<>>
  /\ rest' = Tail(rest)
  /\ \E k \in Budgets :
       LET new == Element(HeapWith(k), Head(rest) = "string")
       IN  HeapBecomes(AddItemToObject(new.mem, tree, LITERAL, new.ptr))
  /\ UNCHANGED <<task, place, document, element, tree, members, answer>>

FieldsDone ==
  /\ place = "field" /\ rest = <<>> /\ task.members = NULL
  /\ place' = "built"
  /\ UNCHANGED <<task, heap, rest, document, element, tree, members, answer>>

AddMembers ==
  /\ place = "field" /\ rest = <<>> /\ task.members # NULL
  /\ \E k \in Budgets : HeapBecomes(AddItemToObject(HeapWith(k), tree, LITERAL, members))
  /\ rest' = [i \in 1 .. task.members |-> "string"]
  /\ place' = "member"
  /\ UNCHANGED <<task, document, element, tree, members, answer>>

AddMember ==
  /\ place = "member" /\ rest # <<>>
  /\ rest' = Tail(rest)
  /\ \E k \in Budgets :
       LET new == CreateString(HeapWith(k))
       IN  HeapBecomes(AddItemToArray(new.mem, members, new.ptr))
  /\ UNCHANGED <<task, place, document, element, tree, members, answer>>

MembersDone ==
  /\ place = "member" /\ rest = <<>>
  /\ place' = "built"
  /\ UNCHANGED <<task, heap, rest, document, element, tree, members, answer>>

ReleaseTree ==
  /\ place = "built"
  /\ HeapBecomes(Delete(heap, tree))
  /\ place' = "done"
  /\ UNCHANGED <<task, rest, document, element, tree, members, answer>>

TaskNext ==
  /\ ~heap.fault
  /\ \/ ParseArray \/ ParseObject \/ Parsed
     \/ Begin \/ AddMatch \/ ExtractSingleResult \/ Walk \/ Cleanup
     \/ CreateMembers \/ AddField \/ FieldsDone \/ AddMembers \/ AddMember \/ MembersDone
     \/ ReleaseTree

TaskSpec == TaskInit /\ [][TaskNext]_taskVars

-----------------------------------------------------------------------------
(* Properties                                                              *)

TaskOK ==
  /\ task \in Tasks
  /\ MemoryOK(heap)
  /\ place \in {"parse", "begin", "match", "answered", "members", "field", "member", "built",
                "done"}
  /\ {element, response, tree, members, answer} \subseteq Items \cup {NULL}
  /\ matching \subseteq Items
  /\ rest \in IF task.kind = "search" THEN Seq(BOOLEAN) ELSE Seq({"string", "other"})

\* Freed memory or NULL is used only when an allocation has failed.  Also then,
\* in the end nothing is left, if the process is still running and there was
\* an object or an array to begin with: without one, what was to be added to
\* it is lost.
NothingIsLost ==
  /\ TaskOK
  /\ heap.fault => heap.starved
  /\ place = "done" /\ ~heap.fault /\ tree # NULL => InUse(heap) = {} /\ heap.text = {}
=============================================================================
