----------------------------- MODULE MCNssTrees -----------------------------
(***************************************************************************)
(* NssTrees on documents of up to three items, each of which may match,    *)
(* and on structs and requests with fields of both sorts.                  *)
(***************************************************************************)
EXTENDS NssTrees, Functions

Searches ==
  {[kind |-> "search", document |-> d, extract |-> e] :
      d \in UNION {[1 .. n -> BOOLEAN] : n \in 0 .. 3}, e \in BOOLEAN}

Builds ==
  {[kind |-> "build", fields |-> f, members |-> n] :
      f \in UNION {[1 .. n -> {"string", "other"}] : n \in 1 .. 3}, n \in {NULL, 0, 1, 2}}

MCTasks == Searches \cup Builds

-----------------------------------------------------------------------------
(* Properties                                                              *)

\* The items of a list in its order.
RECURSIVE Chain(_)
Chain(c) == IF Live(heap, c) THEN <<c>> \o Chain(heap.item[c].next) ELSE <<>>

List(p) == Chain(heap.item[p].child)

Matching == SelectSeq(List(response), LAMBDA p : p \in matching)

Refs ==
  LET matches == IF tree = NULL THEN <<>> ELSE List(tree)
  IN  [i \in DOMAIN matches |-> heap.item[matches[i]].ref]

\* Unless an allocation fails, the matches are those of the document in its
\* order, and the one that is extracted is the only one.  (A reference that
\* cannot be allocated is left out without notice.)
SearchIsComplete ==
  task.kind = "search" /\ place = "answered" /\ ~heap.starved =>
    /\ Len(List(response)) = Len(task.document)
    /\ \A i \in DOMAIN task.document : List(response)[i] \in matching <=> task.document[i]
    /\ IF task.extract THEN answer = IF Len(Matching) = 1 THEN Matching[1] ELSE NULL
                       ELSE Refs = Matching

\* Also if one fails, nothing is among the references but matches, each of
\* them once, and what they show is what is in the document.
SearchIsSound ==
  task.kind = "search" /\ place = "answered" /\ ~heap.fault =>
    /\ IsInjective(Refs)
    /\ Range(Refs) \cup ({answer} \ {NULL}) \subseteq Range(Matching)
    /\ \A p \in Matches : heap.item[p].child = heap.item[heap.item[p].ref].child

\* Unless an allocation fails, an object has a name for each of its members,
\* one member for each field, and the list of a group all of its members.
ConversionIsComplete ==
  task.kind = "build" /\ place = "built" /\ ~heap.starved =>
    LET children == List(tree)
        fields == IF task.members = NULL THEN task.fields ELSE Append(task.fields, "other")
    IN  /\ Len(children) = Len(fields)
        /\ \A i \in DOMAIN children :
             LET n == heap.item[children[i]]
             IN  n.name # NULL /\ (n.value # NULL <=> fields[i] = "string")
        /\ members # NULL => Len(List(members)) = task.members

\* The three together: what a search or a conversion hands over is right, and
\* it is incomplete only if an allocation has failed.
ResultIsRight == SearchIsComplete /\ SearchIsSound /\ ConversionIsComplete
=============================================================================
