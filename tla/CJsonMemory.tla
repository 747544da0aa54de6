----------------------------- MODULE CJsonMemory -----------------------------
(***************************************************************************)
(* The memory of cJSON.c: how items are linked into trees, who owns which  *)
(* allocation, and what is given back when an allocation fails halfway.    *)
(*                                                                         *)
(* Memory is a record: what each address of an item holds, and the strings *)
(* that are allocated.  A function of the library is an operator from      *)
(* memory to memory, or to memory and the pointer it returns.  budget is   *)
(* the number of allocations that still succeed; an action chooses it, so  *)
(* that every allocation of every call fails once.                         *)
(*                                                                         *)
(* Whether an item is an array, an object or a number makes no difference  *)
(* to its memory, so items differ only in what they point to.              *)
(***************************************************************************)
EXTENDS Integers, Sequences, FiniteSets

CONSTANTS
  NULL,      \* the null pointer
  LITERAL,   \* a string that is not on the heap
  Items,     \* the addresses of items
  Texts,     \* the addresses of strings
  Budgets    \* how many allocations a step may make

ASSUME AddressAssumption ==
  /\ IsFiniteSet(Items)
  /\ Items \cap Texts = {}
  /\ NULL \notin Items \cup Texts /\ LITERAL \notin Items \cup Texts \cup {NULL}

ASSUME BudgetsAssumption == Budgets \subseteq Nat

-----------------------------------------------------------------------------
(* Memory                                                                  *)

Node(live) ==
  [live |-> live, reference |-> FALSE, constName |-> FALSE, next |-> NULL,
   prev |-> NULL, child |-> NULL, value |-> NULL, name |-> NULL, ref |-> NULL]

Empty ==
  [item |-> [p \in Items |-> Node(FALSE)], text |-> {}, budget |-> 0, fault |-> FALSE,
   starved |-> FALSE]

Live(m, p) == p \in Items /\ m.item[p].live

InUse(m) == {p \in Items : Live(m, p)}

Result(m, p) == [mem |-> m, ptr |-> p]

\* Freed memory, or NULL, is read or written.
Fault(m) == [m EXCEPT !.fault = TRUE]

Set(m, p, field, v) ==
  IF Live(m, p) THEN [m EXCEPT !.item[p][field] = v] ELSE Fault(m)

\* The pointers that an item holds.  An address that one of them still holds
\* is not handed out again, so that a dangling pointer is always noticed.
Pointers(n) == {n.next, n.prev, n.child, n.value, n.name, n.ref}

Unused(m, addresses) ==
  {a \in addresses : \A p \in Items : m.item[p].live => a \notin Pointers(m.item[p])}

\* All of them are alike: nothing holds or points to an address that is free
\* and unused.
OneOf(free) == CHOOSE a \in free : TRUE

Starved(m) == Result([m EXCEPT !.starved = TRUE], NULL)

Spent(m) == [m EXCEPT !.budget = @ - 1]

\* cJSON_New_Item
NewItem(m) ==
  LET free == {p \in Unused(m, Items) : ~m.item[p].live}
  IN  IF m.budget = 0 \/ free = {} THEN Starved(m)
      ELSE LET p == OneOf(free) IN Result([Spent(m) EXCEPT !.item[p] = Node(TRUE)], p)

\* cJSON_strdup
Strdup(m, s) ==
  LET free == Unused(m, Texts) \ m.text
  IN  IF s = NULL THEN Result(m, NULL)
      ELSE IF m.budget = 0 \/ free = {} THEN Starved(m)
      ELSE LET t == OneOf(free) IN Result([Spent(m) EXCEPT !.text = @ \cup {t}], t)

FreeText(m, s) ==
  IF s = NULL THEN m
  ELSE IF s \in m.text THEN [m EXCEPT !.text = @ \ {s}] ELSE Fault(m)

-----------------------------------------------------------------------------
(* Trees                                                                   *)

\* The items to which cJSON_Delete goes on from an item, and the strings that
\* it frees with it: a reference has its child and its value from its item.
NextOwned(n) == ({n.next} \cup IF n.reference THEN {} ELSE {n.child}) \ {NULL}

OwnedValue(n) == IF n.reference THEN NULL ELSE n.value
OwnedName(n) == IF n.constName THEN NULL ELSE n.name
OwnedTexts(n) == {OwnedValue(n), OwnedName(n)} \ {NULL}

\* The items in use to which a walk from c comes: c, those that follow it, and
\* what they own.
IsClosed(m, S) == \A p \in S : \A q \in NextOwned(m.item[p]) : Live(m, q) => q \in S

Behind(m, c) ==
  LET closed == {S \in SUBSET InUse(m) : c \in S /\ IsClosed(m, S)}
  IN  {p \in InUse(m) : \A S \in closed : p \in S}

\* A walk from c through these items finds each of them in use and comes upon
\* it only once, and so do the strings that it frees.
FreedOnce(m, c, items) ==
  /\ Live(m, c)
  /\ \A p \in items :
       LET n == m.item[p]
       IN  /\ NextOwned(n) \subseteq InUse(m) \ {c}
           /\ OwnedTexts(n) \subseteq m.text
           /\ ~n.reference /\ n.next # NULL => n.next # n.child
           /\ OwnedValue(n) # NULL => OwnedValue(n) # OwnedName(n)
  /\ \A p, q \in items :
       p # q => /\ NextOwned(m.item[p]) \cap NextOwned(m.item[q]) = {}
                /\ OwnedTexts(m.item[p]) \cap OwnedTexts(m.item[q]) = {}

FreeAll(m, items) ==
  [m EXCEPT !.item = [p \in Items |-> IF p \in items THEN Node(FALSE) ELSE m.item[p]],
            !.text = @ \ UNION {OwnedTexts(m.item[p]) : p \in items}]

FreeFrom(m, c) ==
  IF FreedOnce(m, c, Behind(m, c)) THEN FreeAll(m, Behind(m, c)) ELSE Fault(m)

\* A variant of Delete that treats a reference like any other item.
DeleteThrough(m, c) ==
  IF c = NULL THEN m
  ELSE FreeFrom([m EXCEPT !.item = [p \in Items |-> [m.item[p] EXCEPT !.reference = FALSE]]], c)

\* cJSON_Delete: also the items that follow c.
Delete(m, c) == IF c = NULL THEN m ELSE FreeFrom(m, c)

\* The items of a list.
Children(m, p) ==
  LET first == m.item[p].child
      next(q) == m.item[q].next
      closed == {S \in SUBSET InUse(m) :
                   first \in S /\ \A q \in S : Live(m, next(q)) => next(q) \in S}
  IN  IF Live(m, first) THEN {c \in InUse(m) : \A S \in closed : c \in S} ELSE {}

Last(m, p) == CHOOSE c \in Children(m, p) : m.item[c].next = NULL

-----------------------------------------------------------------------------
(* Lists                                                                   *)

\* suffix_object
Suffix(m, prev, item) == Set(Set(m, prev, "next", item), item, "prev", prev)

AddItemToArray(m, array, item) ==
  IF item = NULL \/ array = NULL THEN m
  ELSE IF m.item[array].child = NULL THEN Set(m, array, "child", item)
  ELSE Suffix(m, Last(m, array), item)

\* A variant of AddItemToObjectCS that forgets the old name.
AddItemOverName(m, object, string, item) ==
  LET named == Set(Set(m, item, "name", string), item, "constName", TRUE)
  IN  IF item = NULL THEN m ELSE AddItemToArray(named, object, item)

AddItemToObjectCS(m, object, string, item) ==
  LET n == m.item[item]
      dropped == IF n.constName THEN m ELSE FreeText(m, n.name)
      named == Set(Set(dropped, item, "name", string), item, "constName", TRUE)
  IN  IF item = NULL THEN m ELSE AddItemToArray(named, object, item)

\* The flag is cleared through item even when it is NULL.
AddItemToObject(m, object, string, item) ==
  LET copy == Strdup(m, string)
  IN  Set(AddItemToObjectCS(copy.mem, object, copy.ptr, item), item, "constName", FALSE)

CreateReference(m, item) ==
  LET new == NewItem(m)
  IN  IF new.ptr = NULL THEN new
      ELSE Result([new.mem EXCEPT !.item[new.ptr] =
                     [m.item[item] EXCEPT !.name = NULL, !.reference = TRUE,
                                          !.next = NULL, !.prev = NULL, !.ref = item]],
                  new.ptr)

\* The part of DetachItemFromArray behind its search.
Unlink(m, array, c) ==
  LET n == m.item[c]
      before == IF n.prev = NULL THEN m ELSE Set(m, n.prev, "next", n.next)
      after == IF n.next = NULL THEN before ELSE Set(before, n.next, "prev", n.prev)
      first == IF c = m.item[array].child THEN Set(after, array, "child", n.next) ELSE after
  IN  Set(Set(first, c, "prev", NULL), c, "next", NULL)

\* c is the child that the search has found, or NULL.
InsertItemInArray(m, array, c, new) ==
  LET linked == Set(Set(Set(m, new, "next", c), new, "prev", m.item[c].prev), c, "prev", new)
  IN  IF c = NULL THEN AddItemToArray(m, array, new)
      ELSE IF c = m.item[array].child THEN Set(linked, array, "child", new)
      ELSE Set(linked, linked.item[new].prev, "next", new)

ReplaceItemInArray(m, array, c, new) ==
  LET n == m.item[c]
      linked == Set(Set(m, new, "next", n.next), new, "prev", n.prev)
      after == IF n.next = NULL THEN linked ELSE Set(linked, n.next, "prev", new)
      first == IF c = m.item[array].child THEN Set(after, array, "child", new)
                                          ELSE Set(after, n.prev, "next", new)
  IN  IF c = NULL THEN m
      ELSE Delete(Set(Set(first, c, "next", NULL), c, "prev", NULL), c)

\* A constant name is not freed, and the item still counts as having one.
ReplaceItemInObject(m, object, c, string, new) ==
  LET n == m.item[new]
      dropped == IF n.constName THEN m ELSE FreeText(m, n.name)
      copy == Strdup(dropped, string)
  IN  IF c = NULL THEN m
      ELSE ReplaceItemInArray(Set(copy.mem, new, "name", copy.ptr), object, c, new)

-----------------------------------------------------------------------------
(* Creating and copying                                                    *)

\* cJSON_CreateNull and its likes.
CreateItem(m) == NewItem(m)

\* A variant of CreateString that forgets the item when the string fails.
CreateStringLosing(m) ==
  LET new == NewItem(m)
      copy == Strdup(new.mem, LITERAL)
  IN  IF new.ptr = NULL THEN new
      ELSE IF copy.ptr = NULL THEN copy
      ELSE Result(Set(copy.mem, new.ptr, "value", copy.ptr), new.ptr)

\* cJSON_CreateString, cJSON_CreateRaw
CreateString(m) ==
  LET new == NewItem(m)
      copy == Strdup(new.mem, LITERAL)
  IN  IF new.ptr = NULL THEN new
      ELSE IF copy.ptr = NULL THEN Result(Delete(copy.mem, new.ptr), NULL)
      ELSE Result(Set(copy.mem, new.ptr, "value", copy.ptr), new.ptr)

\* An element of cJSON_CreateStringArray, or of cJSON_CreateIntArray and its likes.
Element(m, strings) == IF strings THEN CreateString(m) ELSE CreateItem(m)

\* A variant of Fail that forgets what has been made.
FailKeeping(m, new) == Result(m, NULL)

\* The label fail of cJSON_Duplicate.
Fail(m, new) == Result(Delete(m, new), NULL)

\* cJSON_Duplicate up to its loop: the item without its children.
DuplicateAlone(m, i) ==
  LET n == m.item[i]
      new == NewItem(m)
      typed == Set(new.mem, new.ptr, "constName", n.constName)
      value == Strdup(typed, n.value)
      valued == Set(value.mem, new.ptr, "value", value.ptr)
      name == IF n.constName THEN Result(valued, n.name) ELSE Strdup(valued, n.name)
  IN  IF new.ptr = NULL THEN new
      ELSE IF n.value # NULL /\ value.ptr = NULL THEN Fail(valued, new.ptr)
      ELSE IF n.name # NULL /\ name.ptr = NULL THEN Fail(name.mem, new.ptr)
      ELSE Result(Set(name.mem, new.ptr, "name", name.ptr), new.ptr)

-----------------------------------------------------------------------------
(* Properties                                                              *)

Address == Items \cup {NULL}

Nodes ==
  [live : BOOLEAN, reference : BOOLEAN, constName : BOOLEAN, next : Address, prev : Address,
   child : Address, value : Texts \cup {NULL}, name : Texts \cup {NULL, LITERAL}, ref : Address]

Memory ==
  [item : [Items -> Nodes], text : SUBSET Texts, budget : Nat, fault : BOOLEAN,
   starved : BOOLEAN]

\* What memory may hold between two steps.  A name that counts as allocated is
\* not a literal.
MemoryOK(m) ==
  /\ m \in Memory
  /\ m.budget = 0
  /\ \A p \in Items : m.item[p].name = LITERAL => m.item[p].constName
=============================================================================
