------------------------------ MODULE CJsonTree ------------------------------
(***************************************************************************)
(* A client of cJSON.c that builds, changes, copies and deletes trees.  A  *)
(* call is one step, but for those that allocate items in a loop: there    *)
(* every turn of the loop is a step, with what the loop has made so far.   *)
(***************************************************************************)
EXTENDS CJsonMemory

CONSTANTS
  MaxLive,   \* bound on the allocations that are in use after a call
  MaxRoots,  \* bound on the trees that the client holds
  MaxCount   \* bound on the elements of an array that is created in one call

ASSUME BoundsAssumption == MaxLive \in Nat /\ MaxRoots \in Nat /\ MaxCount \in Nat

VARIABLES
  mem,       \* the memory
  roots,     \* the items that the client holds and nothing else owns
  pc,        \* "client", or where a call that takes several steps is
  frames,    \* the locals of that call, the innermost activation first
  left,      \* the elements of an array that are still to come
  renamed,   \* history: a constant name was replaced by ReplaceItemInObject
  origin,    \* history: the item of which an item is the copy
  before     \* history: the memory as it was when the call began

call == <<pc, frames, left, origin, before>>
vars == <<mem, roots, call, renamed>>

NoOrigin == [p \in Items |-> NULL]

Init ==
  /\ mem = Empty
  /\ roots = {}
  /\ pc = "client" /\ frames = <<>> /\ left = 0
  /\ renamed = FALSE
  /\ origin = NoOrigin /\ before = Empty

-----------------------------------------------------------------------------
(* The client                                                              *)

\* What a call has made is its own until it returns.
Holders == roots \cup {frames[k].new : k \in DOMAIN frames}

\* The items of the trees, each with its holder.
Tree(r) == Behind(mem, r)

Held == UNION {Tree(r) : r \in Holders}

\* The items that can be reached from i; a reference leads to its item.
Leads(m) ==
  {[from |-> p, to |-> Children(m, p) \cup ({m.item[p].ref} \cap InUse(m))] : p \in InUse(m)}

Reaches(m, i) ==
  LET leads == Leads(m)
      closed == {S \in SUBSET InUse(m) :
                   i \in S /\ \A l \in leads : l.from \in S => l.to \subseteq S}
  IN  {p \in InUse(m) : \A S \in closed : p \in S}

\* A reference shows what its item holds until that changes.
Intact(m, i) ==
  LET n == m.item[i]
  IN  n.reference => /\ Live(m, n.ref)
                     /\ n.child = m.item[n.ref].child /\ (n.child # NULL => Live(m, n.child))
                     /\ n.value = m.item[n.ref].value

Readable(m, i) == \A j \in Reaches(m, i) : Intact(m, j)

\* Arrays and objects that a client may change: those it holds and that
\* are not mere references.
Containers == {i \in Held : ~mem.item[i].reference /\ mem.item[i].value = NULL}

\* Those to which it may add an item, or a reference to it, without a cycle.
Places(item) == Containers \ Reaches(mem, item)

Supplied(k) == [mem EXCEPT !.budget = k]

\* A call has ended.  That one has starved is remembered only when it was the last.
Becomes(m, held) ==
  /\ Cardinality(InUse(m)) + Cardinality(m.text) <= MaxLive
  /\ Cardinality(held) <= MaxRoots
  /\ mem' = [m EXCEPT !.budget = 0, !.starved = @ /\ m.fault]
  /\ roots' = held

Create ==
  \E k \in Budgets : \E new \in {CreateItem(Supplied(k)), CreateString(Supplied(k))} :
    Becomes(new.mem, roots \cup ({new.ptr} \ {NULL}))

\* As the library's bindings do it, without a look at what was created.
CreateInObject(object) ==
  \E k \in Budgets :
    LET new == CreateString(Supplied(k))
    IN  Becomes(AddItemToObject(new.mem, object, LITERAL, new.ptr), roots)

AddToArray(array, item) ==
  Becomes(AddItemToArray(mem, array, item), roots \ {item})

AddToObject(object, item) ==
  \E k \in Budgets :
    Becomes(AddItemToObject(Supplied(k), object, LITERAL, item), roots \ {item})

AddToObjectCS(object, item) ==
  Becomes(AddItemToObjectCS(mem, object, LITERAL, item), roots \ {item})

AddReferenceToArray(array, item) ==
  \E k \in Budgets :
    LET new == CreateReference(Supplied(k), item)
    IN  Becomes(AddItemToArray(new.mem, array, new.ptr), roots)

AddReferenceToObject(object, item) ==
  \E k \in Budgets :
    LET new == CreateReference(Supplied(k), item)
    IN  Becomes(AddItemToObject(new.mem, object, LITERAL, new.ptr), roots)

Detach(array, c) == Becomes(Unlink(mem, array, c), roots \cup {c})

DeleteItem(array, c) == Becomes(Delete(Unlink(mem, array, c), c), roots)

\* Without a child at the index, the item is appended.
Insert(array, c, item) ==
  Becomes(InsertItemInArray(mem, array, c, item), roots \ {item})

\* Without a child to replace, the item stays with the client.
Replace(array, c, item) ==
  Becomes(ReplaceItemInArray(mem, array, c, item), IF c = NULL THEN roots ELSE roots \ {item})

ReplaceInObject(object, c, item) ==
  \E k \in Budgets :
    Becomes(ReplaceItemInObject(Supplied(k), object, c, LITERAL, item),
            IF c = NULL THEN roots ELSE roots \ {item})

\* cJSON_Duplicate without recurse.
CopyAlone(item) ==
  \E k \in Budgets :
    LET new == DuplicateAlone(Supplied(k), item)
    IN  Becomes(new.mem, roots \cup ({new.ptr} \ {NULL}))

Release(root) == Becomes(Delete(mem, root), roots \ {root})

Change ==
  \/ Create
  \/ \E a \in Containers : CreateInObject(a)
  \/ \E i \in roots : \E a \in Places(i) :
       \/ AddToArray(a, i) \/ AddToObject(a, i) \/ AddToObjectCS(a, i)
       \/ \E c \in Children(mem, a) \cup {NULL} : Insert(a, c, i) \/ Replace(a, c, i)
  \/ \E i \in Held : \E a \in Places(i) :
       AddReferenceToArray(a, i) \/ AddReferenceToObject(a, i)
  \/ \E a \in Containers : \E c \in Children(mem, a) : Detach(a, c) \/ DeleteItem(a, c)
  \/ \E i \in Held : Intact(mem, i) /\ CopyAlone(i)
  \/ \E r \in roots : Release(r)

Rename ==
  \E i \in roots : \E a \in Places(i) : \E c \in Children(mem, a) \cup {NULL} :
    /\ ReplaceInObject(a, c, i)
    /\ renamed' = (renamed \/ (c # NULL /\ mem.item[i].constName))

-----------------------------------------------------------------------------
(* Calls that create items in a loop                                       *)

\* The locals: the item that is made, the last of its children, and the child
\* of the original that is to be copied.
Frame(new, last, child) == [new |-> new, last |-> last, child |-> child]

Top == frames[1]

\* The allocations of this step are those of m.
Leaves(m) == mem' = [m EXCEPT !.budget = 0]

\* The call has been entered, and has made the item new or failed to.
Entered(new, first, place) ==
  /\ Leaves(new.mem)
  /\ frames' = IF new.ptr = NULL THEN <<>> ELSE <<Frame(new.ptr, NULL, first)>>
  /\ pc' = IF new.ptr = NULL THEN "failed" ELSE place
  /\ before' = mem
  /\ UNCHANGED <<roots, renamed>>

\* The parent's loop takes the new item behind the last one.
Linked(m, f, new) ==
  IF f.last = NULL THEN Set(m, f.new, "child", new) ELSE Suffix(m, f.last, new)

\* cJSON_CreateStringArray, or cJSON_CreateIntArray and its likes.
CreateArray(count, place) ==
  /\ pc = "client"
  /\ \E k \in Budgets : Entered(CreateItem(Supplied(k)), NULL, place)
  /\ left' = count
  /\ UNCHANGED origin

CreateElement ==
  /\ pc \in {"numbers", "strings"} /\ left > 0
  /\ \E k \in Budgets :
       LET new == Element(Supplied(k), pc = "strings")
       IN  IF new.ptr = NULL
             THEN Leaves(new.mem) /\ pc' = "failed" /\ UNCHANGED frames
             ELSE /\ Leaves(Linked(new.mem, Top, new.ptr))
                  /\ frames' = <<[Top EXCEPT !.last = new.ptr]>>
                  /\ UNCHANGED pc
  /\ left' = left - 1
  /\ UNCHANGED <<roots, renamed, origin, before>>

ArrayDone ==
  /\ pc \in {"numbers", "strings"} /\ left = 0
  /\ pc' = "return"
  /\ UNCHANGED <<mem, roots, renamed, frames, left, origin, before>>

\* cJSON_Duplicate with recurse.
Copy(item) ==
  /\ pc = "client"
  /\ item \in Held /\ Readable(mem, item)
  /\ \E k \in Budgets :
       LET new == DuplicateAlone(Supplied(k), item)
       IN  /\ Entered(new, mem.item[item].child, "copy")
           /\ origin' = IF new.ptr = NULL THEN origin ELSE [origin EXCEPT ![new.ptr] = item]
  /\ UNCHANGED left

\* The loop goes on to a child, for which the function calls itself.
CopyChild ==
  /\ pc = "copy" /\ Top.child # NULL
  /\ IF Live(mem, Top.child)
       THEN \E k \in Budgets :
              LET new == DuplicateAlone(Supplied(k), Top.child)
              IN  /\ Leaves(new.mem)
                  /\ IF new.ptr = NULL
                       THEN pc' = "failed" /\ UNCHANGED <<frames, origin>>
                       ELSE /\ frames' = <<Frame(new.ptr, NULL, mem.item[Top.child].child)>>
                                           \o frames
                            /\ origin' = [origin EXCEPT ![new.ptr] = Top.child]
                            /\ UNCHANGED pc
       ELSE Leaves(Fault(mem)) /\ UNCHANGED <<pc, frames, origin>>
  /\ UNCHANGED <<roots, renamed, left, before>>

\* The copy of a child is complete, and the loop moves to the next one.
CopyReturns ==
  /\ pc = "copy" /\ Top.child = NULL
  /\ IF Len(frames) = 1
       THEN pc' = "return" /\ UNCHANGED <<mem, frames>>
       ELSE LET f == frames[2]
                next == [f EXCEPT !.last = Top.new, !.child = mem.item[f.child].next]
            IN  /\ Leaves(IF Live(mem, f.child) THEN Linked(mem, f, Top.new) ELSE Fault(mem))
                /\ frames' = <<next>> \o Tail(Tail(frames))
                /\ UNCHANGED pc
  /\ UNCHANGED <<roots, renamed, left, origin, before>>

\* The label fail of cJSON_Duplicate, and in cJSON_CreateStringArray: every
\* activation deletes what it has made.
Unwind ==
  /\ pc = "failed" /\ frames # <<>>
  /\ Leaves(Delete(mem, Top.new))
  /\ frames' = Tail(frames)
  /\ UNCHANGED <<roots, renamed, pc, left, origin, before>>

\* The client has the result of the call.
Return ==
  /\ \/ pc = "return" /\ Becomes(mem, roots \cup {Top.new})
     \/ pc = "failed" /\ frames = <<>> /\ Becomes(mem, roots)
  /\ pc' = "client" /\ frames' = <<>> /\ left' = 0
  /\ origin' = NoOrigin /\ before' = Empty
  /\ UNCHANGED renamed

-----------------------------------------------------------------------------

Next ==
  /\ ~mem.fault
  /\ \/ pc = "client" /\ UNCHANGED call /\ Change /\ UNCHANGED renamed
     \/ pc = "client" /\ UNCHANGED call /\ Rename
     \/ \E n \in 1 .. MaxCount, place \in {"numbers", "strings"} : CreateArray(n, place)
     \/ CreateElement \/ ArrayDone
     \/ \E i \in Items : Copy(i)
     \/ CopyChild \/ CopyReturns
     \/ Unwind \/ Return

Spec == Init /\ [][Next]_vars

-----------------------------------------------------------------------------
(* Properties                                                              *)

TypeOK ==
  /\ MemoryOK(mem) /\ MemoryOK(before)
  /\ roots \subseteq Items
  /\ pc \in {"client", "numbers", "strings", "copy", "failed", "return"}
  /\ frames \in Seq([new : Items, last : Items \cup {NULL}, child : Items \cup {NULL}])
  /\ left \in Nat
  /\ renamed \in BOOLEAN
  /\ origin \in [Items -> Items \cup {NULL}]

\* The two directions of a list agree, and what is held is in none.
LinksAgree ==
  /\ \A p \in Held :
       LET n == mem.item[p]
       IN  /\ n.next # NULL => Live(mem, n.next) /\ mem.item[n.next].prev = p
           /\ n.prev # NULL => Live(mem, n.prev) /\ mem.item[n.prev].next = p
           /\ ~n.reference /\ n.child # NULL => mem.item[n.child].prev = NULL
  /\ \A r \in Holders : mem.item[r].next = NULL /\ mem.item[r].prev = NULL

\* A client that deletes only what it holds, and reads only references whose
\* item has not changed, may do so in any order: freed memory or NULL is used
\* only by a call one of whose allocations has failed, and every list can be
\* walked both ways.
ListsAreSound == TypeOK /\ (mem.fault => mem.starved) /\ (~mem.fault => LinksAgree)

\* Every item in use belongs to exactly one tree, and to one list of it,
\* also when allocations fail: nothing is lost, and nothing is freed twice.
EveryItemIsOwned ==
  ~mem.fault =>
    LET held == Held
        owning == {q \in held : ~mem.item[q].reference}
        lists == {[of |-> q, items |-> Children(mem, q)] : q \in owning}
    IN  /\ InUse(mem) = held
        /\ \A p \in held :
             LET owners == {l \in lists : p \in l.items}
             IN  IF p \in Holders THEN owners = {} ELSE Cardinality(owners) = 1

\* So does every string, unless ReplaceItemInObject has been given an item
\* whose name was a constant: then its new name is lost when it is deleted.
EveryTextIsOwned ==
  ~mem.fault =>
    LET held == Held
    IN  /\ \A p \in held :
             LET n == mem.item[p]
             IN  /\ OwnedTexts(n) \subseteq mem.text
                 /\ OwnedValue(n) # NULL => OwnedValue(n) # OwnedName(n)
        /\ \A p, q \in held :
             p # q => OwnedTexts(mem.item[p]) \cap OwnedTexts(mem.item[q]) = {}
        /\ ~renamed => \A t \in mem.text : \E p \in held : t \in OwnedTexts(mem.item[p])

\* What a reader sees of an item and its copy is alike, and goes on alike.
Alike(j) ==
  LET n == mem.item[j]  o == mem.item[origin[j]]
      Follow(copy, original) ==
        IF original = NULL THEN copy = NULL ELSE copy # NULL /\ origin[copy] = original
  IN  /\ n.value # NULL <=> o.value # NULL
      /\ n.name # NULL <=> o.name # NULL
      /\ Follow(n.child, o.child)
      /\ j # Top.new => Follow(n.next, o.next)

\* cJSON.h: a copy is identical to the item that was passed, in memory of its
\* own: it holds no reference, and it is in no list.  One that fails halfway
\* gives back everything that it had allocated.
CopyIsIdentical ==
  ~mem.fault =>
    /\ pc = "return" /\ origin # NoOrigin =>
         /\ \A j \in Tree(Top.new) :
              /\ ~Live(before, j) /\ ~mem.item[j].reference
              /\ Alike(j)
         /\ mem.item[Top.new].next = NULL /\ mem.item[Top.new].prev = NULL
    /\ pc \in {"copy", "failed", "return"} =>
         \A j \in Items : Live(before, j) => mem.item[j] = before.item[j]
    /\ pc = "failed" /\ frames = <<>> => mem.item = before.item /\ mem.text = before.text
=============================================================================
