------------------------- MODULE CJsonText_proofs -------------------------
(***************************************************************************)
(* What the parser does with its memory, for every text, every size of the *)
(* memory and every allocation that fails: each item and each string has   *)
(* one owner at a time, nothing is freed twice, and a parser that has      *)
(* failed has left nothing behind.  What the printer writes and what it    *)
(* allocates, for all trees and all sizes of buffers.  Then both in a row. *)
(***************************************************************************)
EXTENDS CJsonText, WellFoundedInduction, TLAPS

-----------------------------------------------------------------------------
(* Reachability along next and child, in any memory                        *)

Points(its, i, j) == j \in {its[i].next, its[i].child}
Closed(its, S) == \A i \in S, j \in Item : Points(its, i, j) => j \in S
Reach(its, c) ==
  {i \in Item : \A S \in SUBSET Item : c \in S /\ Closed(its, S) => i \in S}

TextsOf(its, i) == {its[i].valuestring, its[i].string} \ {NULL}

\* What is reached from an item holds the item and all it leads to.
LEMMA ReachIsClosed ==
  ASSUME NEW its, NEW c \in Item
  PROVE  /\ Reach(its, c) \subseteq Item /\ c \in Reach(its, c)
         /\ Closed(its, Reach(its, c))
BY DEF Reach, Closed

\* It is in every set of items that holds the item and is closed.
LEMMA ReachIsLeast ==
  ASSUME NEW its, NEW c \in Item, NEW S \in SUBSET Item, c \in S, Closed(its, S)
  PROVE  Reach(its, c) \subseteq S
BY DEF Reach

\* All of it but the item itself is led to from within.
LEMMA ReachHasPredecessor ==
  ASSUME NEW its, NEW c \in Item, NEW t \in Reach(its, c), t # c
  PROVE  \E j \in Reach(its, c) : Points(its, j, t)
<1> DEFINE S == Reach(its, c) \ {t}
<1>1. SUFFICES ASSUME \A j \in Reach(its, c) : ~Points(its, j, t) PROVE FALSE
  OBVIOUS
<1>2. S \in SUBSET Item /\ c \in S
  BY ReachIsClosed
<1>3. Closed(its, S)
  BY <1>1, ReachIsClosed DEF Closed
<1> HIDE DEF S
<1>4. Reach(its, c) \subseteq S
  BY <1>2, <1>3, ReachIsLeast
<1> QED BY <1>4 DEF S

\* More pointers reach more.
LEMMA ReachGrows ==
  ASSUME NEW its, NEW its2, NEW c \in Item,
         \A i \in Item, j \in Item : Points(its, i, j) => Points(its2, i, j)
  PROVE  Reach(its, c) \subseteq Reach(its2, c)
<1>1. Closed(its, Reach(its2, c))
  BY ReachIsClosed DEF Closed
<1> QED BY <1>1, ReachIsClosed, ReachIsLeast

\* Every non-empty set of addresses has a least one.
LEMMA MinIsMember ==
  ASSUME NEW S \in SUBSET Nat, S # {}
  PROVE  Min(S) \in S
<1>1. PICK x \in S : \A y \in S : ~ (<<y, x>> \in OpToRel(<, Nat))
  BY NatLessThanWellFounded, WFMin
<1>2. \A y \in S : ~ (y < x)
  BY <1>1 DEF OpToRel
<1>3. \A y \in S : x <= y
  BY <1>2
<1> QED BY <1>3 DEF Min

-----------------------------------------------------------------------------
(* The inductive invariant                                                 *)

Running == pc \notin {"begin", "done"}

\* An address that has not been handed out is blank.
FreshIsBlank == \A i \in FreshItems : items[i] = Node("fresh")

\* What a live item leads to is live, and led to by one field only.
LinksAreOwned ==
  /\ \A i \in Live, t \in Item : Points(items, i, t) => t \in Live
  /\ \A i \in Live, j \in Live, t \in Item : Points(items, i, t) /\ Points(items, j, t) => i = j
  /\ \A i \in Live : items[i].next = items[i].child => items[i].next = NULL

\* No live item leads to what a call holds, and all of them hang off it.
HeldIsAll ==
  /\ Held \subseteq Live
  /\ \A i \in Live, t \in Held : ~Points(items, i, t)
  /\ \A t \in Live : \E h \in Held : t \in Reach(items, h)

\* TextsOf are owned as items are.
TextsAreOwned ==
  /\ \A i \in Live : \A s \in TextsOf(items, i) : strings[s] = "live"
  /\ \A i \in Live, j \in Live : i # j => TextsOf(items, i) \cap TextsOf(items, j) = {}
  /\ \A i \in Live : items[i].valuestring = items[i].string => items[i].string = NULL
  /\ \A s \in String : strings[s] = "live" => \E i \in Live : s \in TextsOf(items, i)

\* A frame holds a list of its own, whose last item is current, for a
\* container that has no list yet: the item that the frame below is at.
FramesAreSound ==
  /\ ~Running => stack = <<>>
  /\ pc \in {"first", "element", "name", "colon"} => stack # <<>>
  /\ \A k \in DOMAIN stack :
       LET f == stack[k]
       IN  /\ f.head = NULL <=> f.current = NULL
           /\ f.head # NULL => f.current \in Reach(items, f.head) /\ items[f.current].next = NULL
           /\ f.head # Root /\ f.current # Root
           /\ f.item = IF k = 1 THEN Root ELSE stack[k - 1].current
           /\ items[f.item].child = NULL
  /\ \A k \in DOMAIN stack, l \in DOMAIN stack :
       k # l /\ stack[k].head # NULL =>
         stack[k].head # stack[l].head /\ stack[k].current # stack[l].current

\* The item that is about to be filled is blank.
TargetIsBlank ==
  /\ pc \in {"value", "name", "colon"} =>
       /\ Target # NULL
       /\ items[Target].child = NULL /\ items[Target].valuestring = NULL
  /\ pc = "name" => items[Target].string = NULL

\* Nothing is returned before the end.
NoResultYet == pc # "done" => result = NULL

IInv ==
  /\ TypeOK /\ NoFault /\ NoResultYet /\ FreshIsBlank /\ LinksAreOwned /\ HeldIsAll
  /\ TextsAreOwned /\ FramesAreSound /\ TargetIsBlank /\ ListsAreLinked
NodeTypes == {"Invalid", "Literal", "String", "Array", "Object"}
Nodes ==
  [status : {"fresh", "live", "freed"}, type : NodeTypes,
   next : Address(Item), prev : Address(Item), child : Address(Item),
   valuestring : Address(String), string : Address(String)]

Frames ==
  [type : {"Array", "Object"}, item : Item, head : Address(Item), current : Address(Item)]

\* The stack without its top, and with another one.
LEMMA StackIsShorter ==
  ASSUME NEW S, stack \in Seq(S), stack # <<>>
  PROVE  /\ Len(stack) \in Nat \ {0} /\ Len(stack) \in DOMAIN stack
         /\ Top = stack[Len(stack)] /\ Top \in S
         /\ Pop \in Seq(S) /\ Len(Pop) = Len(stack) - 1
         /\ DOMAIN Pop = 1 .. Len(stack) - 1
         /\ \A k \in 1 .. Len(stack) - 1 : Pop[k] = stack[k]
<1>1. Len(stack) \in Nat \ {0} /\ DOMAIN stack = 1 .. Len(stack)
  OBVIOUS
<1>2. Top = stack[Len(stack)] /\ Top \in S
  BY <1>1 DEF Top
<1>3. Pop \in Seq(S) /\ Len(Pop) = Len(stack) - 1
  BY <1>1 DEF Pop
<1>4. \A k \in 1 .. Len(stack) - 1 : Pop[k] = stack[k]
  BY <1>1 DEF Pop
<1> QED BY <1>1, <1>2, <1>3, <1>4

\* A free address is an address.
LEMMA FreeAddresses ==
  ASSUME ParseAssumption
  PROVE  /\ FreshItems # {} => Min(FreshItems) \in FreshItems /\ Root \in Item
         /\ FreshStrings # {} => Min(FreshStrings) \in FreshStrings
<1>1. FreshItems \in SUBSET Nat /\ FreshStrings \in SUBSET Nat
  BY DEF ParseAssumption, FreshItems, FreshStrings, Item, String
<1>2. FreshItems # {} => Root \in Item
  BY DEF ParseAssumption, FreshItems, Item, Root
<1> QED BY <1>1, <1>2, MinIsMember

-----------------------------------------------------------------------------
(* What the steps do to each item                                          *)

\* An item with other fields is an item.
LEMMA NodesAreClosed ==
  ASSUME NEW n \in Nodes, NEW t \in NodeTypes, NEW c \in Address(Item), NEW s \in Address(String)
  PROVE  /\ [n EXCEPT !.type = t, !.child = c] \in Nodes
         /\ [n EXCEPT !.type = t, !.valuestring = s] \in Nodes
         /\ [n EXCEPT !.type = t, !.string = s] \in Nodes
         /\ [n EXCEPT !.next = c] \in Nodes
         /\ [n EXCEPT !.prev = c] \in Nodes
<1>1. [n EXCEPT !.type = t, !.child = c] \in Nodes
  BY DEF Nodes
<1>2. [n EXCEPT !.type = t, !.valuestring = s] \in Nodes
  BY DEF Nodes
<1>3. [n EXCEPT !.type = t, !.string = s] \in Nodes
  BY DEF Nodes
<1>4. [n EXCEPT !.next = c] \in Nodes
  BY DEF Nodes
<1>5. [n EXCEPT !.prev = c] \in Nodes
  BY DEF Nodes
<1> QED BY <1>1, <1>2, <1>3, <1>4, <1>5

LEMMA NewNode ==
  Node("live") \in Nodes /\ Node("fresh") \in Nodes
BY DEF Node, Nodes, NodeTypes, Address

\* One item filled.
LEMMA TakeStringEffect ==
  ASSUME ParseAssumption, TypeOK, NEW field \in {"valuestring", "string"},
         FreshStrings # {},
         items' = [items EXCEPT ![Target].type = "String",
                                  ![Target][field] = Min(FreshStrings)]
  PROVE  /\ Min(FreshStrings) \in FreshStrings
         /\ items' \in [Item -> Nodes]
         /\ \A i \in Item : i # Target => items'[i] = items[i]
         /\ Target \in Item =>
              items'[Target] =
                IF field = "string"
                  THEN [items[Target] EXCEPT !.type = "String", !.string = Min(FreshStrings)]
                  ELSE [items[Target] EXCEPT !.type = "String", !.valuestring = Min(FreshStrings)]
<1> DEFINE s == Min(FreshStrings)
<1>1. items \in [Item -> Nodes]
  BY DEF TypeOK, Nodes, NodeTypes
<1>2. s \in FreshStrings /\ s \in Address(String)
  BY FreeAddresses DEF FreshStrings, Address
<1> HIDE DEF s
<1>3. items' = [items EXCEPT ![Target].type = "String", ![Target][field] = s]
  BY DEF s
<1>4. \A i \in Item : i # Target => items'[i] = items[i]
  BY <1>1, <1>3
<1>5. Target \in Item => items'[Target] = IF field = "string"
          THEN [items[Target] EXCEPT !.type = "String", !.string = s]
          ELSE [items[Target] EXCEPT !.type = "String", !.valuestring = s]
  <2>1. CASE field = "string"
    BY <1>1, <1>3, <2>1
  <2>2. CASE field = "valuestring"
    BY <1>1, <1>3, <2>2
  <2> QED BY <2>1, <2>2
<1>6. \A i \in Item : items'[i] \in Nodes
  <2> TAKE i \in Item
  <2>1. items[i] \in Nodes /\ "String" \in NodeTypes /\ NULL \in Address(Item)
    BY <1>1 DEF NodeTypes, Address
  <2>2. /\ [items[i] EXCEPT !.type = "String", !.string = s] \in Nodes
        /\ [items[i] EXCEPT !.type = "String", !.valuestring = s] \in Nodes
    BY <1>2, <2>1, NodesAreClosed
  <2> QED BY <1>4, <1>5, <2>1, <2>2
<1>7. items' = [i \in Item |-> items'[i]]
  BY <1>1, <1>3
<1> QED BY <1>2, <1>4, <1>5, <1>6, <1>7 DEF s

\* One item more at the end of a list.
LEMMA LinkedEffect ==
  ASSUME ParseAssumption, TypeOK, stack # <<>>, NEW new \in Item, Top.current # new
  PROVE  /\ Linked(new) \in [Item -> Nodes]
         /\ Linked(new)[new] = IF Top.head = NULL THEN Node("live")
                                ELSE [Node("live") EXCEPT !.prev = Top.current]
         /\ \A i \in Item \ {new} : Linked(new)[i] =
              IF Top.head # NULL /\ i = Top.current THEN [items[i] EXCEPT !.next = new] ELSE items[i]
<1>1. stack \in Seq(Frames) /\ items \in [Item -> Nodes]
  BY DEF TypeOK, Frames, Nodes, NodeTypes
<1>2. Top.current \in Address(Item)
  <2>1. Top \in Frames
    BY <1>1, StackIsShorter
  <2> QED BY <2>1 DEF Frames
<1>3. /\ Linked(new)[new] = IF Top.head = NULL THEN Node("live")
                             ELSE [Node("live") EXCEPT !.prev = Top.current]
      /\ \A i \in Item \ {new} : Linked(new)[i] =
           IF Top.head # NULL /\ i = Top.current THEN [items[i] EXCEPT !.next = new] ELSE items[i]
  BY <1>1, <1>2 DEF Linked
<1>4. \A i \in Item : Linked(new)[i] \in Nodes
  <2> TAKE i \in Item
  <2>1. items[i] \in Nodes /\ new \in Address(Item) /\ NULL \in Address(String)
    BY <1>1 DEF Address
  <2>2. "String" \in NodeTypes
    BY DEF NodeTypes
  <2>3. [Node("live") EXCEPT !.prev = Top.current] \in Nodes
    BY <1>2, <2>1, <2>2, NodesAreClosed, NewNode
  <2>4. [items[i] EXCEPT !.next = new] \in Nodes
    BY <2>1, <2>2, NodesAreClosed
  <2> QED BY <1>3, <2>1, <2>3, <2>4, NewNode
<1>5. Linked(new) = [i \in Item |-> Linked(new)[i]]
  BY <1>1 DEF Linked
<1> QED BY <1>3, <1>4, <1>5

LEMMA CloseEffect ==
  ASSUME ParseAssumption, TypeOK, stack # <<>>, Close
  PROVE  /\ Top \in Frames /\ Pop \in Seq(Frames) /\ stack' = Pop
         /\ \A i \in Item : items'[i] =
              IF i = Top.item THEN [items[i] EXCEPT !.type = Top.type, !.child = Top.head]
                              ELSE items[i]
         /\ items' \in [Item -> Nodes]
<1>1. stack \in Seq(Frames) /\ items \in [Item -> Nodes]
  BY DEF TypeOK, Frames, Nodes, NodeTypes
<1>2. Top \in Frames /\ Pop \in Seq(Frames)
  BY <1>1, StackIsShorter
<1>3. Top.item \in Item /\ Top.type \in {"Array", "Object"} /\ Top.head \in Address(Item)
  BY <1>2 DEF Frames
<1>4. \A i \in Item : items'[i] =
        IF i = Top.item THEN [items[i] EXCEPT !.type = Top.type, !.child = Top.head]
                        ELSE items[i]
  BY <1>1, <1>3 DEF Close
<1>5. \A i \in Item : items'[i] \in Nodes
  <2> TAKE i \in Item
  <2>1. items[i] \in Nodes /\ Top.type \in NodeTypes /\ NULL \in Address(String)
    BY <1>1, <1>3 DEF NodeTypes, Address
  <2>2. [items[i] EXCEPT !.type = Top.type, !.child = Top.head] \in Nodes
    BY <1>3, <2>1, NodesAreClosed
  <2> QED BY <1>4, <2>1, <2>2
<1>6. items' \in [Item -> Nodes]
  <2>1. items' = [i \in Item |-> items'[i]]
    BY <1>1 DEF Close
  <2> QED BY <1>5, <2>1
<1> QED BY <1>2, <1>4, <1>6 DEF Close

-----------------------------------------------------------------------------
(* What the invariant says of the frames                                   *)

\* What hangs off a pointer that is held is live.
LEMMA HeldTreesAreLive ==
  ASSUME IInv, NEW h \in Held
  PROVE  h \in Item /\ Reach(items, h) \subseteq Live
<1>1. h \in Live /\ Live \in SUBSET Item
  BY DEF IInv, HeldIsAll, Live
<1>2. Closed(items, Live)
  BY DEF IInv, LinksAreOwned, Closed
<1> QED BY <1>1, <1>2, ReachIsLeast

\* The root, the items of the frames and the one that is filled are live.
LEMMA FramesAreLive ==
  ASSUME ParseAssumption, IInv, Running
  PROVE  /\ Root \in Live
         /\ \A k \in DOMAIN stack :
              /\ stack[k] \in Frames /\ stack[k].item \in Live
              /\ stack[k].head # NULL => /\ stack[k].head \in Live /\ stack[k].head \in Held
                                        /\ stack[k].current \in Live
         /\ Target # NULL => Target \in Live
<1>1. Root \in Held /\ Root \in Live
  BY DEF Running, Held, IInv, HeldIsAll
<1>2. ASSUME NEW k \in DOMAIN stack
      PROVE  stack[k] \in Frames
  <2>1. stack \in Seq(Frames)
    BY DEF IInv, TypeOK, Frames
  <2> QED BY <2>1
<1>3. ASSUME NEW k \in DOMAIN stack, stack[k].head # NULL
      PROVE  /\ stack[k].head \in Live /\ stack[k].head \in Held
             /\ stack[k].current \in Live
  <2>1. stack[k].head \in Held
    BY <1>3 DEF Held, Running
  <2>2. stack[k].current \in Reach(items, stack[k].head)
    BY <1>3 DEF IInv, FramesAreSound
  <2> QED BY <2>1, <2>2, HeldTreesAreLive DEF IInv, HeldIsAll
<1>4. ASSUME NEW k \in DOMAIN stack
      PROVE  stack[k].item \in Live
  <2>1. CASE k = 1
    BY <1>1, <2>1 DEF IInv, FramesAreSound
  <2>2. CASE k # 1
    <3>1. k - 1 \in DOMAIN stack
      BY <2>2 DEF IInv, TypeOK
    <3>2. stack[k].item = stack[k - 1].current /\ stack[k].item \in Item
      BY <1>2, <2>2 DEF IInv, FramesAreSound, Frames
    <3>3. stack[k - 1].current # NULL
      BY <3>2 DEF ParseAssumption, Item
    <3> QED BY <1>3, <3>1, <3>2, <3>3 DEF IInv, FramesAreSound
  <2> QED BY <2>1, <2>2
<1>5. Target # NULL => Target \in Live
  <2>1. CASE stack = <<>>
    BY <1>1, <2>1 DEF Target
  <2>2. CASE stack # <<>>
    <3>1. Len(stack) \in DOMAIN stack
      BY <2>2 DEF IInv, TypeOK
    <3> QED BY <1>3, <2>2, <3>1 DEF Target, Top, IInv, FramesAreSound
  <2> QED BY <2>1, <2>2
<1> QED BY <1>1, <1>2, <1>3, <1>4, <1>5

-----------------------------------------------------------------------------
(* Types                                                                   *)

LEMMA InitIsTyped ==
  ASSUME ParseAssumption, Init
  PROVE  TypeOK
<1>1. PICK input \in {<<>>, NULL} : InitWith(input)
  BY DEF Init
<1>2. text = NULL \/ text \in Seq(Tokens)
  <2>1. <<>> \in Seq(Tokens)
    OBVIOUS
  <2> QED BY <1>1, <2>1 DEF InitWith
<1>3. items \in [Item -> Nodes] /\ strings \in [String -> {"fresh", "live", "freed"}]
  BY <1>1 DEF InitWith, Node, Nodes, NodeTypes, Address
<1>4. stack \in Seq(Frames)
  BY <1>1 DEF InitWith
<1>5. {require, fault, starved} \subseteq BOOLEAN
  BY <1>1 DEF InitWith
<1> QED BY <1>1, <1>2, <1>3, <1>4, <1>5 DEF InitWith, TypeOK, Nodes, NodeTypes, Frames, Address

\* The steps that leave items, strings and frames alone.
LEMMA QuietStepIsTyped ==
  ASSUME ParseAssumption, TypeOK, Supply \/ RejectName \/ RejectValue \/ First
                                  \/ ParseColon \/ AfterElement
  PROVE  TypeOK'
<1>1. UNCHANGED <<items, strings, stack, fault, require, result>>
  BY DEF Supply, RejectName, RejectValue, First, ParseColon, AfterElement, memory, call
<1>2. starved' \in BOOLEAN
  <2>1. UNCHANGED starved \/ starved' = TRUE
    BY DEF Supply, RejectName, RejectValue, BadString, First, ParseColon, AfterElement, memory
  <2>2. starved \in BOOLEAN
    BY DEF TypeOK
  <2> QED BY <2>1, <2>2
<1>3. pos' \in Nat \ {0} /\ ep' \in Address(Nat)
  <2>1. pos' = pos \/ pos' = pos + 1
    BY DEF Supply, RejectName, RejectValue, BadString, First, ParseColon, AfterElement,
           Advance, FailAt
  <2>2. ep' = ep \/ ep' = pos
    BY DEF Supply, RejectName, RejectValue, BadString, First, ParseColon, AfterElement,
           Advance, FailAt
  <2> QED BY <2>1, <2>2 DEF TypeOK, Address
<1>4. pc' \in {"begin", "value", "first", "element", "name", "colon", "after", "fail", "done"}
  BY DEF TypeOK, Supply, RejectName, RejectValue, BadString, First, ParseColon, AfterElement,
         Advance, FailAt
<1>5. text' = NULL \/ text' \in Seq(Tokens)
  <2>1. CASE Supply
    <3>1. PICK t \in Tokens : text' = Append(text, t)
      BY <2>1 DEF Supply, Tokens
    <3>2. text \in Seq(Tokens)
      BY <2>1 DEF Supply, TypeOK
    <3> QED BY <3>1, <3>2
  <2>2. CASE ~Supply
    BY <2>2 DEF TypeOK, RejectName, RejectValue, First, ParseColon, AfterElement
  <2> QED BY <2>1, <2>2
<1> QED BY <1>1, <1>2, <1>3, <1>4, <1>5 DEF TypeOK
LEMMA BeginIsTyped ==
  ASSUME ParseAssumption, TypeOK, Begin
  PROVE  TypeOK'
<1>1. UNCHANGED <<text, pos, require, result, strings, stack, fault>>
  BY DEF Begin, call
<1>2. items' \in [Item -> Nodes]
  BY DEF Begin, TypeOK, Node, Nodes, NodeTypes, Address
<1>3. starved' \in BOOLEAN
  <2>1. UNCHANGED starved \/ starved' = TRUE
    BY DEF Begin
  <2>2. starved \in BOOLEAN
    BY DEF TypeOK
  <2> QED BY <2>1, <2>2
<1>4. ep' = NULL /\ pc' \in {"value", "fail", "done"}
  BY DEF Begin
<1> QED BY <1>1, <1>2, <1>3, <1>4 DEF TypeOK, Nodes, NodeTypes, Frames, Address

\* What a literal and a string do to the item that is filled.
LEMMA FillIsTyped ==
  ASSUME ParseAssumption, TypeOK,
         ParseLiteral \/ ParseString \/ ParseName
  PROVE  TypeOK'
<1>1. UNCHANGED <<text, require, result, stack, fault>>
  BY DEF ParseLiteral, ParseString, ParseName, TakeString, call
<1>2. items' \in [Item -> Nodes] /\ strings' \in [String -> {"fresh", "live", "freed"}]
  <2>1. CASE ParseLiteral
    <3>1. items \in [Item -> Nodes] /\ strings \in [String -> {"fresh", "live", "freed"}]
      BY DEF TypeOK, Nodes, NodeTypes
    <3>2. \A i \in Item : [items[i] EXCEPT !.type = "Literal"] \in Nodes
      BY <3>1 DEF Nodes, NodeTypes
    <3>3. items' = [items EXCEPT ![Target] = [items[Target] EXCEPT !.type = "Literal"]]
          /\ strings' = strings
      BY <2>1 DEF ParseLiteral
    <3> QED BY <3>1, <3>2, <3>3
  <2>2. ASSUME NEW field \in {"valuestring", "string"}, NEW next, TakeString(field, next)
        PROVE  items' \in [Item -> Nodes] /\ strings' \in [String -> {"fresh", "live", "freed"}]
    <3>1. CASE UNCHANGED <<items, strings>>
      BY <3>1 DEF TypeOK, Nodes, NodeTypes
    <3>2. CASE /\ FreshStrings # {}
               /\ strings' = [strings EXCEPT ![Min(FreshStrings)] = "live"]
               /\ items' = [items EXCEPT ![Target].type = "String",
                                            ![Target][field] = Min(FreshStrings)]
      BY <3>2, TakeStringEffect DEF TypeOK
    <3> QED BY <2>2, <3>1, <3>2 DEF TakeString
  <2> QED BY <2>1, <2>2 DEF ParseString, ParseName
<1>3. starved' \in BOOLEAN
  <2>1. UNCHANGED starved \/ starved' = TRUE
    BY DEF ParseLiteral, ParseString, ParseName, TakeString
  <2>2. starved \in BOOLEAN
    BY DEF TypeOK
  <2> QED BY <2>1, <2>2
<1>4. (pos' = pos \/ pos' = pos + 1) /\ ep' = ep /\ pc' \in {"after", "colon", "fail"}
  BY DEF ParseLiteral, ParseString, ParseName, TakeString, Advance, FailAt
<1>5. pos' \in Nat \ {0}
  BY <1>4 DEF TypeOK
<1> QED BY <1>1, <1>2, <1>3, <1>4, <1>5 DEF TypeOK, Nodes, NodeTypes, Frames

LEMMA OpenIsTyped ==
  ASSUME ParseAssumption, IInv,
         NEW token, NEW type \in {"Array", "Object"}, Open(token, type)
  PROVE  TypeOK'
<1>1. UNCHANGED <<text, require, result, items, strings, fault, starved, ep>>
  BY DEF Open, call, memory, Advance
<1>2. Target \in Item
  BY FramesAreLive DEF Open, Running, IInv, TargetIsBlank, Live
<1>3. [type |-> type, item |-> Target, head |-> NULL, current |-> NULL] \in Frames
  BY <1>2 DEF Frames, Address
<1>4. stack' \in Seq(Frames)
  BY <1>3 DEF Open, IInv, TypeOK, Frames
<1>5. pos' \in Nat \ {0} /\ pc' = "first"
  BY DEF Open, Advance, IInv, TypeOK
<1> QED BY <1>1, <1>4, <1>5 DEF IInv, TypeOK, Frames

LEMMA NewElementIsTyped ==
  ASSUME ParseAssumption, IInv, NewElement
  PROVE  TypeOK'
<1>1. UNCHANGED <<text, pos, require, result, strings, ep, fault>>
  BY DEF NewElement, call
<1>2. starved' \in BOOLEAN
  <2>1. UNCHANGED starved \/ starved' = TRUE
    BY DEF NewElement
  <2>2. starved \in BOOLEAN
    BY DEF IInv, TypeOK
  <2> QED BY <2>1, <2>2
<1>3. items \in [Item -> Nodes] /\ stack \in Seq(Frames) /\ stack # <<>>
  BY DEF IInv, TypeOK, Nodes, NodeTypes, Frames, NewElement, FramesAreSound
<1>4. items' \in [Item -> Nodes] /\ stack' \in Seq(Frames)
  <2>1. CASE UNCHANGED <<items, stack>>
    BY <1>3, <2>1
  <2>2. CASE /\ FreshItems # {}
             /\ LET new == Min(FreshItems)
                IN  /\ items' = Linked(new)
                    /\ stack' = Append(Pop, [Top EXCEPT !.current = new,
                                              !.head = IF @ = NULL THEN new ELSE @])
    <3> DEFINE new == Min(FreshItems)
               f == [Top EXCEPT !.current = new, !.head = IF @ = NULL THEN new ELSE @]
    <3>1. new \in Item
      BY <2>2, FreeAddresses DEF FreshItems
    <3>2. Top \in Frames /\ Pop \in Seq(Frames)
      BY <1>3, StackIsShorter
    <3>3. f \in Frames
      BY <3>1, <3>2 DEF Frames, Address
    <3>4. Top.current # new
      <4>1. Top.current # NULL => Top.current \in Live
        BY <1>3, StackIsShorter, FramesAreLive DEF NewElement, Running, IInv, FramesAreSound
      <4>2. new \notin Live /\ new # NULL
        BY <2>2, <3>1, FreeAddresses DEF new, FreshItems, Live, ParseAssumption, Item
      <4> QED BY <4>1, <4>2
    <3>5. Linked(new) \in [Item -> Nodes]
      BY <1>3, <3>1, <3>4, LinkedEffect DEF IInv
    <3>6. items' = Linked(new) /\ stack' = Append(Pop, f)
      BY <2>2
    <3> HIDE DEF new, f
    <3> QED BY <3>2, <3>3, <3>5, <3>6
  <2> QED BY <2>1, <2>2 DEF NewElement
<1>5. pc' \in {"value", "name", "fail"}
  BY DEF NewElement
<1> QED BY <1>1, <1>2, <1>4, <1>5 DEF IInv, TypeOK, Nodes, NodeTypes, Frames

LEMMA CloseIsTyped ==
  ASSUME ParseAssumption, IInv, Close
  PROVE  TypeOK'
<1>1. UNCHANGED <<text, require, result, strings, fault, starved, ep>>
  BY DEF Close, call, Advance
<1>2. items' \in [Item -> Nodes] /\ stack' \in Seq(Frames)
  BY CloseEffect DEF Close, IInv
<1>3. pos' \in Nat \ {0} /\ pc' = "after"
  BY DEF Close, Advance, IInv, TypeOK
<1> QED BY <1>1, <1>2, <1>3 DEF IInv, TypeOK, Nodes, NodeTypes, Frames

\* The steps that may free something.
LEMMA FreeIsTyped ==
  ASSUME ParseAssumption, IInv, FailFrame \/ FailRoot \/ Finish
  PROVE  TypeOK'
<1>1. UNCHANGED <<text, pos, require, starved>>
  BY DEF FailFrame, FailRoot, Finish, call
<1>2. ASSUME NEW c, Delete(c)
      PROVE  /\ items' \in [Item -> Nodes]
             /\ strings' \in [String -> {"fresh", "live", "freed"}] /\ fault' \in BOOLEAN
  <2>1. items' \in [Item -> Nodes] /\ strings' \in [String -> {"fresh", "live", "freed"}]
    BY <1>2 DEF Delete, IInv, TypeOK, Nodes, NodeTypes
  <2>2. fault' \in BOOLEAN
    BY <1>2, Zenon DEF Delete, IInv, TypeOK
  <2> QED BY <2>1, <2>2
<1>3. /\ items' \in [Item -> Nodes]
      /\ strings' \in [String -> {"fresh", "live", "freed"}] /\ fault' \in BOOLEAN
  <2>1. \/ \E c : Delete(c)
        \/ UNCHANGED <<items, strings, fault>>
    BY DEF FailFrame, FailRoot, Finish, DeleteIfAny
  <2> QED BY <1>2, <2>1 DEF IInv, TypeOK, Nodes, NodeTypes
<1>4. stack' \in Seq(Frames)
  <2>1. stack \in Seq(Frames)
    BY DEF IInv, TypeOK, Frames
  <2>2. stack' = stack \/ (stack # <<>> /\ stack' = Pop)
    BY DEF FailFrame, FailRoot, Finish
  <2> QED BY <2>1, <2>2, StackIsShorter
<1>5. ep' \in Address(Nat) /\ pc' \in {"fail", "done"} /\ result' \in {NULL, Root}
  BY DEF FailFrame, FailRoot, Finish, IInv, TypeOK, call, Address
<1> QED BY <1>1, <1>3, <1>4, <1>5 DEF IInv, TypeOK, Nodes, NodeTypes, Frames
-----------------------------------------------------------------------------
(* Steps that change no pointer                                            *)

SamePointers ==
  \A i \in Item : items'[i].next = items[i].next /\ items'[i].child = items[i].child
                 /\ items'[i].prev = items[i].prev

SameStatus == \A i \in Item : items'[i].status = items[i].status

LEMMA SameReach ==
  ASSUME SamePointers
  PROVE  /\ \A i \in Item, j \in Item : Points(items', i, j) <=> Points(items, i, j)
         /\ \A c \in Item : Reach(items', c) = Reach(items, c)
<1>1. \A i \in Item, j \in Item : Points(items', i, j) <=> Points(items, i, j)
  BY DEF SamePointers, Points
<1>2. ASSUME NEW c \in Item
      PROVE  Reach(items', c) = Reach(items, c)
  <2>1. Reach(items', c) \subseteq Reach(items, c)
    BY <1>1, ReachGrows
  <2>2. Reach(items, c) \subseteq Reach(items', c)
    BY <1>1, ReachGrows
  <2> QED BY <2>1, <2>2
<1> QED BY <1>1, <1>2

LEMMA SkeletonIsKept ==
  ASSUME IInv, SamePointers, SameStatus, Held' = Held
  PROVE  LinksAreOwned' /\ HeldIsAll' /\ ListsAreLinked'
<1>1. Live' = Live /\ Live \subseteq Item
  BY DEF SameStatus, Live
<1>2. Held \subseteq Item
  BY HeldTreesAreLive
<1>3. LinksAreOwned'
  BY <1>1, SameReach DEF IInv, LinksAreOwned, SamePointers
<1>4. HeldIsAll'
  <2>1. \A i \in Live, t \in Held : ~Points(items', i, t)
    BY <1>1, <1>2, SameReach DEF IInv, HeldIsAll
  <2>2. \A t \in Live : \E h \in Held : t \in Reach(items', h)
    BY <1>2, SameReach DEF IInv, HeldIsAll
  <2> QED BY <1>1, <2>1, <2>2 DEF IInv, HeldIsAll
<1>5. ListsAreLinked'
  <2> SUFFICES ASSUME NEW i \in Live
               PROVE  /\ items'[i].next # NULL => items'[items'[i].next].prev = i
                      /\ items'[i].prev # NULL => items'[items'[i].prev].next = i
    BY <1>1 DEF ListsAreLinked
  <2>1. i \in Item /\ items[i].next \in Address(Item) /\ items[i].prev \in Address(Item)
    BY <1>1 DEF IInv, TypeOK
  <2> QED BY <2>1 DEF IInv, ListsAreLinked, SamePointers, Address
<1> QED BY <1>3, <1>4, <1>5

\* The same frames, and the same pointers.
LEMMA FramesAreKept ==
  ASSUME ParseAssumption, IInv, SamePointers, Running, Running', stack' = stack,
         pc' \in {"first", "element", "name", "colon"} => stack # <<>>
  PROVE  Held' = Held /\ FramesAreSound'
<1>1. Held' = Held
  BY DEF Running, Held
<1>2. ASSUME NEW k \in DOMAIN stack
      PROVE  LET f == stack[k]
             IN  /\ f.head = NULL <=> f.current = NULL
                 /\ f.head # NULL => /\ f.current \in Reach(items', f.head)
                                     /\ items'[f.current].next = NULL
                 /\ f.head # Root /\ f.current # Root
                 /\ f.item = IF k = 1 THEN Root ELSE stack[k - 1].current
                 /\ items'[f.item].child = NULL
  <2>1. /\ stack[k].item \in Item
        /\ stack[k].head # NULL => stack[k].head \in Item /\ stack[k].current \in Item
    BY FramesAreLive DEF Live
  <2>2. stack[k].head # NULL => /\ stack[k].current \in Reach(items', stack[k].head)
                               /\ items'[stack[k].current].next = NULL
    BY <2>1, SameReach DEF SamePointers, IInv, FramesAreSound
  <2>3. items'[stack[k].item].child = NULL
    BY <2>1 DEF SamePointers, IInv, FramesAreSound
  <2> QED BY <2>2, <2>3 DEF IInv, FramesAreSound
<1> QED BY <1>1, <1>2 DEF IInv, FramesAreSound, Running

\* Steps that look at the text only.
LEMMA QuietStep ==
  ASSUME ParseAssumption, IInv, Supply \/ RejectName \/ RejectValue \/ First
                                \/ ParseColon \/ AfterElement
  PROVE  IInv'
<1>1. UNCHANGED <<items, strings, stack, fault, result>>
  BY DEF Supply, RejectName, RejectValue, First, ParseColon, AfterElement, memory, call
<1>2. TypeOK'
  BY QuietStepIsTyped DEF IInv
<1>3. Running /\ Running'
  BY DEF Running, Supply, RejectName, RejectValue, BadString, First, ParseColon, AfterElement,
         Advance, FailAt
<1>4. pc' \in {"first", "element", "name", "colon"} => stack # <<>>
  BY DEF IInv, FramesAreSound, Supply, RejectName, RejectValue, BadString, First, ParseColon,
         AfterElement, Advance, FailAt
<1>5. SamePointers /\ SameStatus
  BY <1>1 DEF SamePointers, SameStatus
<1>6. Held' = Held /\ FramesAreSound'
  BY <1>1, <1>3, <1>4, <1>5, FramesAreKept
<1>7. LinksAreOwned' /\ HeldIsAll' /\ ListsAreLinked'
  BY <1>5, <1>6, SkeletonIsKept
<1>8. NoFault' /\ FreshIsBlank' /\ TextsAreOwned'
  BY <1>1 DEF IInv, NoFault, FreshIsBlank, FreshItems, TextsAreOwned, TextsOf, Live
<1>9. TargetIsBlank'
  <2>1. Target' = Target
    BY <1>1 DEF Target, Top
  <2>2. /\ pc' \in {"value", "name", "colon"} => pc \in {"value", "name", "colon"}
        /\ pc' = "name" => pc = "name"
    BY DEF Supply, RejectName, RejectValue, BadString, First, ParseColon, AfterElement,
           Advance, FailAt
  <2> QED BY <1>1, <2>1, <2>2 DEF IInv, TargetIsBlank
<1> QED BY <1>1, <1>2, <1>3, <1>6, <1>7, <1>8, <1>9 DEF IInv, NoResultYet, Running
\* A container begins.
LEMMA OpenStep ==
  ASSUME ParseAssumption, IInv, NEW token, NEW type \in {"Array", "Object"}, Open(token, type)
  PROVE  IInv'
<1> DEFINE f == [type |-> type, item |-> Target, head |-> NULL, current |-> NULL]
           n == Len(stack) + 1
<1>1. UNCHANGED <<items, strings, fault, result>> /\ pc = "value" /\ pc' = "first"
  BY DEF Open, memory, call, Advance
<1>2. TypeOK' /\ Running /\ Running'
  BY <1>1, OpenIsTyped DEF Running
<1>3. Target \in Live /\ items[Target].child = NULL
  BY <1>1, <1>2, FramesAreLive DEF IInv, TargetIsBlank
<1>4. /\ stack \in Seq(Frames) /\ n \in Nat \ {0} /\ DOMAIN stack = 1 .. n - 1
      /\ stack' = Append(stack, f)
  BY DEF IInv, TypeOK, Frames, Open
<1>5. /\ DOMAIN stack' = 1 .. n /\ stack'[n] = f
      /\ \A k \in 1 .. n - 1 : stack'[k] = stack[k]
  BY <1>4
<1>6. stack' # <<>>
  BY <1>4, <1>5
<1>7. /\ f.head = NULL /\ f.current = NULL /\ f.item = Target
      /\ NULL # Root
  BY DEF ParseAssumption, Root
<1> HIDE DEF f
<1>8. Held' = Held
  <2>1. {stack'[k].head : k \in DOMAIN stack'} \ {NULL} = {stack[k].head : k \in DOMAIN stack} \ {NULL}
    BY <1>4, <1>5, <1>7
  <2> QED BY <1>2, <2>1 DEF Held, Running
<1>9. LinksAreOwned' /\ HeldIsAll' /\ ListsAreLinked'
  BY <1>1, <1>8, SkeletonIsKept DEF SamePointers, SameStatus
<1>10. FramesAreSound'
  <2>1. Target = IF n = 1 THEN Root ELSE stack[n - 1].current
    <3>1. n = 1 <=> stack = <<>>
      BY <1>4
    <3> QED BY <1>4, <3>1 DEF Target, Top
  <2>2. ASSUME NEW k \in 1 .. n
        PROVE  /\ stack'[k].head = NULL <=> stack'[k].current = NULL
               /\ stack'[k].head # NULL => /\ stack'[k].current \in Reach(items, stack'[k].head)
                                           /\ items[stack'[k].current].next = NULL
               /\ stack'[k].head # Root /\ stack'[k].current # Root
               /\ stack'[k].item = IF k = 1 THEN Root ELSE stack'[k - 1].current
               /\ items[stack'[k].item].child = NULL
    <3>1. CASE k = n
      <4>1. n # 1 => stack'[n - 1] = stack[n - 1]
        <5>1. n # 1 => n - 1 \in 1 .. n - 1
          BY <1>4
        <5> QED BY <1>5, <5>1
      <4> QED BY <1>3, <1>5, <1>7, <2>1, <3>1, <4>1
    <3>2. CASE k # n
      <4>1. k \in DOMAIN stack /\ stack'[k] = stack[k]
        BY <1>4, <1>5, <3>2
      <4>2. k # 1 => stack'[k - 1] = stack[k - 1]
        BY <1>4, <1>5, <3>2
      <4> QED BY <4>1, <4>2 DEF IInv, FramesAreSound
    <3> QED BY <3>1, <3>2
  <2>3. ASSUME NEW k \in 1 .. n, NEW l \in 1 .. n, k # l, stack'[k].head # NULL
        PROVE  stack'[k].head # stack'[l].head /\ stack'[k].current # stack'[l].current
    <3>1. k # n
      BY <1>5, <1>7, <2>3
    <3>2. k \in DOMAIN stack /\ stack'[k] = stack[k] /\ stack[k].current # NULL
      BY <1>4, <1>5, <2>3, <3>1 DEF IInv, FramesAreSound
    <3>3. CASE l = n
      BY <1>5, <1>7, <2>3, <3>2, <3>3
    <3>4. CASE l # n
      <4>1. l \in DOMAIN stack /\ stack'[l] = stack[l]
        BY <1>4, <1>5, <3>4
      <4> QED BY <2>3, <3>2, <4>1 DEF IInv, FramesAreSound
    <3> QED BY <3>3, <3>4
  <2> QED BY <1>1, <1>2, <1>5, <1>6, <2>2, <2>3 DEF FramesAreSound
<1>11. NoFault' /\ FreshIsBlank' /\ TextsAreOwned' /\ TargetIsBlank'
  BY <1>1 DEF IInv, NoFault, FreshIsBlank, FreshItems, TextsAreOwned, TextsOf, Live, TargetIsBlank
<1> QED BY <1>1, <1>2, <1>9, <1>10, <1>11 DEF IInv, NoResultYet

\* An item that is filled with something that has no text.
LEMMA LiteralStep ==
  ASSUME ParseAssumption, IInv, ParseLiteral
  PROVE  IInv'
<1>1. UNCHANGED <<strings, stack, fault, result>> /\ pc = "value" /\ pc' = "after"
  BY DEF ParseLiteral, call, Advance
<1>2. TypeOK' /\ Running /\ Running'
  BY <1>1, FillIsTyped DEF Running, IInv
<1>3. Target \in Live
  BY <1>1, <1>2, FramesAreLive DEF IInv, TargetIsBlank
<1>4. /\ items \in [Item -> Nodes]
      /\ \A i \in Item : items'[i] = IF i = Target THEN [items[i] EXCEPT !.type = "Literal"]
                                                    ELSE items[i]
  BY <1>3 DEF ParseLiteral, IInv, TypeOK, Nodes, NodeTypes, Live
<1>5. \A i \in Item : /\ items'[i].status = items[i].status
                      /\ items'[i].next = items[i].next /\ items'[i].prev = items[i].prev
                      /\ items'[i].child = items[i].child /\ items'[i].string = items[i].string
                      /\ items'[i].valuestring = items[i].valuestring
  BY <1>4 DEF Nodes
<1>6. SamePointers /\ SameStatus
  BY <1>5 DEF SamePointers, SameStatus
<1>7. Held' = Held /\ FramesAreSound'
  BY <1>1, <1>2, <1>6, FramesAreKept
<1>8. LinksAreOwned' /\ HeldIsAll' /\ ListsAreLinked'
  BY <1>6, <1>7, SkeletonIsKept
<1>9. FreshIsBlank'
  <2>1. FreshItems' = FreshItems /\ Target \notin FreshItems
    BY <1>3, <1>5 DEF FreshItems, Live
  <2>2. \A i \in FreshItems : items'[i] = items[i]
    BY <1>4, <2>1 DEF FreshItems
  <2> QED BY <2>1, <2>2 DEF IInv, FreshIsBlank
<1>10. TextsAreOwned'
  <2>1. Live' = Live /\ \A i \in Live : TextsOf(items', i) = TextsOf(items, i) /\ i \in Item
    BY <1>5 DEF Live, TextsOf
  <2> QED BY <1>1, <1>5, <2>1 DEF IInv, TextsAreOwned
<1> QED BY <1>1, <1>2, <1>7, <1>8, <1>9, <1>10 DEF IInv, NoFault, NoResultYet, TargetIsBlank
\* An item that is filled with a text, or a name for it.
LEMMA TakeStringStep ==
  ASSUME ParseAssumption, IInv, ParseString \/ ParseName
  PROVE  IInv'
<1>1. UNCHANGED <<stack, fault, result>> /\ pc \in {"value", "name"}
      /\ pc' \in {"after", "colon", "fail"} /\ (pc' = "colon" => pc = "name")
  BY DEF ParseString, ParseName, TakeString, call, Advance, FailAt
<1>2. TypeOK' /\ Running /\ Running'
  BY <1>1, FillIsTyped DEF Running, IInv
<1>3. Target \in Live /\ items[Target].valuestring = NULL
  BY <1>1, <1>2, FramesAreLive DEF IInv, TargetIsBlank
<1>4. pc' = "colon" => stack # <<>>
  BY <1>1 DEF IInv, FramesAreSound
<1>5. CASE UNCHANGED <<items, strings>> /\ pc' = "fail"
  <2>1. SamePointers /\ SameStatus
    BY <1>5 DEF SamePointers, SameStatus
  <2>2. Held' = Held /\ FramesAreSound'
    BY <1>1, <1>2, <1>5, <2>1, FramesAreKept
  <2>3. LinksAreOwned' /\ HeldIsAll' /\ ListsAreLinked'
    BY <2>1, <2>2, SkeletonIsKept
  <2> QED BY <1>1, <1>2, <1>5, <2>2, <2>3
      DEF IInv, NoFault, NoResultYet, Running, FreshIsBlank, FreshItems, TextsAreOwned, TextsOf,
           Live, TargetIsBlank
<1>6. CASE \E field \in {"valuestring", "string"} :
             /\ pc = IF field = "string" THEN "name" ELSE "value"
             /\ pc' = IF field = "string" THEN "colon" ELSE "after"
             /\ FreshStrings # {}
             /\ strings' = [strings EXCEPT ![Min(FreshStrings)] = "live"]
             /\ items' = [items EXCEPT ![Target].type = "String",
                                          ![Target][field] = Min(FreshStrings)]
  <2> DEFINE s == Min(FreshStrings)
  <2>1. PICK field \in {"valuestring", "string"} :
             /\ pc = IF field = "string" THEN "name" ELSE "value"
             /\ pc' = IF field = "string" THEN "colon" ELSE "after"
             /\ FreshStrings # {}
             /\ strings' = [strings EXCEPT ![s] = "live"]
             /\ items' = [items EXCEPT ![Target].type = "String", ![Target][field] = s]
    BY <1>6
  <2>2. Target \in Item /\ (items[Target].string = NULL \/ field = "valuestring")
    BY <1>3, <2>1 DEF Live, IInv, TargetIsBlank
  <2>3. /\ s \in FreshStrings /\ items \in [Item -> Nodes]
        /\ \A i \in Item : i # Target => items'[i] = items[i]
        /\ items'[Target] =
             IF field = "string"
               THEN [items[Target] EXCEPT !.type = "String", !.string = s]
               ELSE [items[Target] EXCEPT !.type = "String", !.valuestring = s]
    BY <1>3, <2>1, TakeStringEffect DEF IInv, TypeOK, Nodes, NodeTypes, Live
  <2> HIDE DEF s
  <2>4. \A i \in Item : /\ items'[i].status = items[i].status
                        /\ items'[i].next = items[i].next /\ items'[i].prev = items[i].prev
                        /\ items'[i].child = items[i].child
    <3> TAKE i \in Item
    <3>1. CASE i # Target
      BY <2>3, <3>1
    <3>2. CASE i = Target /\ field = "string"
      BY <2>3, <3>2 DEF Nodes
    <3>3. CASE i = Target /\ field # "string"
      BY <2>3, <3>3 DEF Nodes
    <3> QED BY <3>1, <3>2, <3>3
  <2>5. /\ items'[Target].string = (IF field = "string" THEN s ELSE items[Target].string)
        /\ items'[Target].valuestring = (IF field = "string" THEN NULL ELSE s)
    BY <1>3, <2>3 DEF Nodes, Live
  <2>6. SamePointers /\ SameStatus
    BY <2>4 DEF SamePointers, SameStatus
  <2>7. Held' = Held /\ FramesAreSound'
    BY <1>1, <1>2, <1>4, <2>6, FramesAreKept
  <2>8. LinksAreOwned' /\ HeldIsAll' /\ ListsAreLinked'
    BY <2>6, <2>7, SkeletonIsKept
  <2>9. FreshIsBlank'
    BY <1>3, <2>3, <2>4 DEF IInv, FreshIsBlank, FreshItems, Live
  <2>10. Live' = Live /\ Live \subseteq Item
    BY <2>4 DEF Live
  <2>11. /\ s \in String /\ strings[s] = "fresh" /\ s # NULL
         /\ strings \in [String -> {"fresh", "live", "freed"}]
    BY <2>3 DEF FreshStrings, IInv, TypeOK, ParseAssumption, String
  <2>12. TextsAreOwned'
    <3>1. \A i \in Live \ {Target} : TextsOf(items', i) = TextsOf(items, i)
      BY <2>3, <2>10 DEF TextsOf
    <3>2. TextsOf(items', Target) = TextsOf(items, Target) \cup {s}
      BY <1>3, <2>1, <2>2, <2>5, <2>11 DEF TextsOf
    <3>3. \A i \in Live : s \notin TextsOf(items, i)
      BY <2>11 DEF IInv, TextsAreOwned
    <3>4. \A i \in Live : \A t \in TextsOf(items', i) : strings'[t] = "live"
      <4> SUFFICES ASSUME NEW i \in Live, NEW t \in TextsOf(items', i) PROVE strings'[t] = "live"
        OBVIOUS
      <4>1. CASE t = s
        BY <2>1, <2>11, <4>1
      <4>2. CASE t # s
        <5>1. t \in TextsOf(items, i)
          BY <3>1, <3>2, <4>2
        <5>2. strings[t] = "live" /\ t \in Address(String) \ {NULL}
          BY <2>10, <5>1 DEF IInv, TextsAreOwned, TextsOf, TypeOK
        <5> QED BY <2>1, <2>11, <4>2, <5>2 DEF Address
      <4> QED BY <4>1, <4>2
    <3>5. \A i \in Live, j \in Live : i # j => TextsOf(items', i) \cap TextsOf(items', j) = {}
      BY <3>1, <3>2, <3>3 DEF IInv, TextsAreOwned
    <3>6. \A i \in Live : items'[i].valuestring = items'[i].string => items'[i].string = NULL
      <4> TAKE i \in Live
      <4>1. CASE i = Target
        <5>1. items[Target].string # s
          BY <1>3, <2>11, <3>3 DEF TextsOf
        <5> QED BY <2>5, <2>11, <4>1, <5>1
      <4>2. CASE i # Target
        BY <2>3, <2>10, <4>2 DEF IInv, TextsAreOwned
      <4> QED BY <4>1, <4>2
    <3>7. ASSUME NEW t \in String, strings'[t] = "live"
          PROVE  \E i \in Live : t \in TextsOf(items', i)
      <4>1. CASE t = s
        BY <1>3, <3>2, <4>1
      <4>2. CASE t # s
        <5>1. strings[t] = "live"
          BY <2>1, <2>11, <3>7, <4>2
        <5>2. PICK i \in Live : t \in TextsOf(items, i)
          BY <5>1 DEF IInv, TextsAreOwned
        <5> QED BY <3>1, <3>2, <5>2
      <4> QED BY <4>1, <4>2
    <3> QED BY <2>10, <3>4, <3>5, <3>6, <3>7 DEF TextsAreOwned
  <2>13. TargetIsBlank'
    <3>1. Target' = Target
      BY <1>1 DEF Target, Top
    <3>2. pc' = "colon" => field = "string" /\ pc = "name"
      BY <2>1
    <3> QED BY <1>1, <1>3, <2>4, <2>5, <3>1, <3>2 DEF IInv, TargetIsBlank, Live
  <2> QED BY <1>1, <1>2, <2>7, <2>8, <2>9, <2>12, <2>13 DEF IInv, NoFault, NoResultYet, Running
<1> QED BY <1>5, <1>6 DEF ParseString, ParseName, TakeString, Advance, FailAt
-----------------------------------------------------------------------------
(* Steps that make items                                                   *)

\* Nothing is held before the first item has been made.
LEMMA NothingAtFirst ==
  ASSUME ParseAssumption, IInv, pc = "begin"
  PROVE  /\ stack = <<>> /\ result = NULL /\ Live = {}
         /\ \A s \in String : strings[s] # "live"
<1>1. stack = <<>> /\ result = NULL
  BY DEF IInv, NoResultYet, FramesAreSound, Running
<1>2. Live = {}
  BY <1>1 DEF Held, IInv, HeldIsAll
<1> QED BY <1>1, <1>2 DEF IInv, TextsAreOwned

LEMMA BeginStep ==
  ASSUME ParseAssumption, IInv, Begin
  PROVE  IInv'
<1>1. TypeOK'
  BY BeginIsTyped DEF IInv
<1>2. UNCHANGED <<strings, stack, fault, result>> /\ pc = "begin"
  BY DEF Begin, call
<1>3. /\ stack = <<>> /\ result = NULL /\ Live = {}
      /\ \A s \in String : strings[s] # "live"
  BY <1>2, NothingAtFirst
<1>4. CASE UNCHANGED items /\ pc' = "done"
  <2>1. Held' = {} /\ Live' = {}
    BY <1>2, <1>3, <1>4 DEF Held, Live
  <2>2. LinksAreOwned' /\ HeldIsAll' /\ ListsAreLinked' /\ TextsAreOwned'
    BY <1>2, <1>3, <2>1 DEF LinksAreOwned, HeldIsAll, ListsAreLinked, TextsAreOwned
  <2>3. FramesAreSound' /\ TargetIsBlank'
    BY <1>2, <1>3, <1>4 DEF FramesAreSound, TargetIsBlank
  <2> QED BY <1>1, <1>2, <1>3, <1>4, <2>2, <2>3
      DEF IInv, NoFault, NoResultYet, FreshIsBlank, FreshItems
<1>5. CASE /\ FreshItems # {} /\ items' = [items EXCEPT ![Root] = Node("live")]
           /\ pc' \in {"fail", "value"}
  <2>1. Root \in Item /\ items \in [Item -> Nodes] /\ Root # NULL
    BY <1>5, FreeAddresses DEF IInv, TypeOK, Nodes, NodeTypes, ParseAssumption, Root
  <2>2. /\ items'[Root] = Node("live")
        /\ \A i \in Item \ {Root} : items'[i] = items[i]
    BY <1>5, <2>1
  <2>3. /\ items'[Root].status = "live" /\ items'[Root].next = NULL
        /\ items'[Root].prev = NULL /\ items'[Root].child = NULL
        /\ items'[Root].valuestring = NULL /\ items'[Root].string = NULL
    BY <2>2 DEF Node
  <2>4. Live' = {Root}
    BY <1>3, <2>1, <2>2, <2>3 DEF Live
  <2>5. Held' = {Root}
    BY <1>2, <1>3, <1>5 DEF Held
  <2>6. \A t \in Item : ~Points(items', Root, t)
    BY <2>3 DEF Points, ParseAssumption, Item
  <2>7. LinksAreOwned' /\ ListsAreLinked'
    BY <2>3, <2>4, <2>6 DEF LinksAreOwned, ListsAreLinked
  <2>8. HeldIsAll'
    BY <2>1, <2>4, <2>5, <2>6, ReachIsClosed DEF HeldIsAll
  <2>9. TextsAreOwned'
    BY <1>2, <1>3, <2>3, <2>4 DEF TextsAreOwned, TextsOf
  <2>10. FramesAreSound'
    BY <1>2, <1>3, <1>5 DEF FramesAreSound, Running
  <2>11. TargetIsBlank'
    BY <1>2, <1>3, <1>5, <2>1, <2>3 DEF TargetIsBlank, Target
  <2>12. FreshIsBlank'
    BY <2>1, <2>2, <2>3 DEF IInv, FreshIsBlank, FreshItems
  <2> QED BY <1>1, <1>2, <1>3, <2>7, <2>8, <2>9, <2>10, <2>11, <2>12 DEF IInv, NoFault, NoResultYet
<1> QED BY <1>4, <1>5 DEF Begin
\* What happens to the memory when a new item is put behind the current one,
\* or becomes the first of its list.
NewItemAt(new) ==
  /\ new \in Item /\ items[new].status = "fresh"
  /\ items' = Linked(new) /\ strings' = strings
  /\ stack' = Append(Pop, [Top EXCEPT !.current = new,
                                     !.head = IF @ = NULL THEN new ELSE @])

AfterNewItem(new) ==
  LET c == Top.current
      h == Top.head
  IN  /\ new # NULL /\ new # Root /\ new \notin Live /\ items[new] = Node("fresh")
      /\ items'[new].status = "live" /\ items'[new].next = NULL
      /\ items'[new].child = NULL /\ items'[new].prev = (IF h = NULL THEN NULL ELSE c)
      /\ items'[new].valuestring = NULL /\ items'[new].string = NULL
      /\ \A i \in Item \ {new} :
           /\ items'[i].status = items[i].status /\ items'[i].child = items[i].child
           /\ items'[i].prev = items[i].prev
           /\ items'[i].valuestring = items[i].valuestring
           /\ items'[i].string = items[i].string
           /\ items'[i].next = IF h # NULL /\ i = c THEN new ELSE items[i].next
      /\ \A i \in Item \ {new} : (h = NULL \/ i # c) => items'[i] = items[i]
      /\ Live' = Live \cup {new}
      /\ h = NULL <=> c = NULL
      /\ h # NULL => /\ c \in Live /\ items[c].next = NULL
                    /\ h \in Live /\ h \in Held /\ c \in Reach(items, h)

LEMMA NewItemEffect ==
  ASSUME ParseAssumption, IInv, Running, stack # <<>>, NEW new, NewItemAt(new)
  PROVE  AfterNewItem(new)
<1> DEFINE c == Top.current
           h == Top.head
<1>1. /\ stack \in Seq(Frames) /\ Len(stack) \in DOMAIN stack /\ Top = stack[Len(stack)]
      /\ items \in [Item -> Nodes]
  <2>1. stack \in Seq(Frames) /\ items \in [Item -> Nodes]
    BY DEF IInv, TypeOK, Frames, Nodes, NodeTypes
  <2> QED BY <2>1, StackIsShorter
<1>2. /\ h = NULL <=> c = NULL
      /\ h # NULL => /\ c \in Live /\ items[c].next = NULL
                    /\ h \in Live /\ h \in Held /\ c \in Reach(items, h)
  BY <1>1, FramesAreLive DEF IInv, FramesAreSound
<1>3. /\ new \in Item /\ new # NULL /\ new \notin Live /\ items[new] = Node("fresh")
      /\ new # Root
  <2>1. Root \in Live
    BY FramesAreLive
  <2> QED BY <2>1 DEF NewItemAt, ParseAssumption, Item, Live, IInv, FreshIsBlank, FreshItems
<1>4. Top.current # new
  BY <1>2, <1>3
<1>5. /\ items'[new] = IF h = NULL THEN Node("live") ELSE [Node("live") EXCEPT !.prev = c]
      /\ \A i \in Item \ {new} :
           items'[i] = IF h # NULL /\ i = c THEN [items[i] EXCEPT !.next = new] ELSE items[i]
  BY <1>3, <1>4, LinkedEffect DEF IInv, NewItemAt
<1>6. /\ items'[new].status = "live" /\ items'[new].next = NULL
      /\ items'[new].child = NULL /\ items'[new].prev = (IF h = NULL THEN NULL ELSE c)
      /\ items'[new].valuestring = NULL /\ items'[new].string = NULL
  <2>1. CASE h = NULL
    BY <1>5, <2>1 DEF Node
  <2>2. CASE h # NULL
    BY <1>5, <2>2 DEF Node
  <2> QED BY <2>1, <2>2
<1>7. ASSUME NEW i \in Item \ {new}
      PROVE  /\ items'[i].status = items[i].status /\ items'[i].child = items[i].child
             /\ items'[i].prev = items[i].prev
             /\ items'[i].valuestring = items[i].valuestring
             /\ items'[i].string = items[i].string
             /\ items'[i].next = IF h # NULL /\ i = c THEN new ELSE items[i].next
  <2>1. CASE h # NULL /\ i = c
    <3>1. items'[i] = [items[i] EXCEPT !.next = new] /\ items[i] \in Nodes
      BY <1>1, <1>5, <2>1
    <3> QED BY <2>1, <3>1 DEF Nodes
  <2>2. CASE ~(h # NULL /\ i = c)
    BY <1>5, <2>2
  <2> QED BY <2>1, <2>2
<1>8. Live' = Live \cup {new}
  <2>1. Live' = {i \in Item : items'[i].status = "live"}
    BY DEF Live
  <2>2. ASSUME NEW i \in Item PROVE items'[i].status = "live" <=> (items[i].status = "live" \/ i = new)
    BY <1>6, <1>7
  <2> QED BY <1>3, <2>1, <2>2 DEF Live
<1> HIDE DEF c, h
<1>9. \A i \in Item \ {new} : (h = NULL \/ i # c) => items'[i] = items[i]
  BY <1>5
<1> QED BY <1>2, <1>3, <1>6, <1>7, <1>8, <1>9 DEF c, h, AfterNewItem

LEMMA NewItemStack ==
  ASSUME ParseAssumption, IInv, stack # <<>>, NEW new, NewItemAt(new)
  PROVE  LET n == Len(stack)
         IN  /\ n \in Nat \ {0} /\ DOMAIN stack = 1 .. n /\ DOMAIN stack' = 1 .. n
             /\ Len(stack') = n /\ stack' # <<>>
             /\ \A k \in 1 .. n - 1 : stack'[k] = stack[k]
             /\ Top = stack[n] /\ stack'[n].item = Top.item /\ stack'[n].current = new
             /\ stack'[n].head = IF Top.head = NULL THEN new ELSE Top.head
<1> DEFINE n == Len(stack)
           f == [Top EXCEPT !.current = new, !.head = IF @ = NULL THEN new ELSE @]
<1>1. stack \in Seq(Frames)
  BY DEF IInv, TypeOK, Frames
<1>2. /\ n \in Nat \ {0} /\ n \in DOMAIN stack /\ Top = stack[n] /\ Top \in Frames
      /\ Pop \in Seq(Frames) /\ Len(Pop) = n - 1 /\ DOMAIN Pop = 1 .. n - 1
      /\ \A k \in 1 .. n - 1 : Pop[k] = stack[k]
  BY <1>1, StackIsShorter
<1>3. /\ f.item = Top.item /\ f.current = new
      /\ f.head = IF Top.head = NULL THEN new ELSE Top.head
  BY <1>2 DEF Frames
<1>4. stack' = Append(Pop, f)
  BY DEF NewItemAt
<1> HIDE DEF f
<1>5. Len(stack') = n /\ DOMAIN stack' = 1 .. n /\ stack'[n] = f
  BY <1>2, <1>4
<1>6. \A k \in 1 .. n - 1 : stack'[k] = stack[k]
  <2> TAKE k \in 1 .. n - 1
  <2>1. stack'[k] = Pop[k]
    BY <1>2, <1>4
  <2> QED BY <1>2, <2>1
<1>7. DOMAIN stack = 1 .. n /\ stack' # <<>>
  BY <1>1, <1>2, <1>5
<1> QED BY <1>2, <1>3, <1>5, <1>6, <1>7
\* The links and the lists after a new item.
LEMMA NewItemLinks ==
  ASSUME ParseAssumption, IInv, Running, stack # <<>>, NEW new, NewItemAt(new)
  PROVE  LinksAreOwned' /\ ListsAreLinked' /\ FreshIsBlank' /\ TextsAreOwned'
<1> DEFINE c == Top.current
           h == Top.head
<1>1. /\ new \in Item /\ new # NULL /\ new \notin Live /\ items[new] = Node("fresh")
      /\ items'[new].status = "live" /\ items'[new].next = NULL
      /\ items'[new].child = NULL /\ items'[new].prev = (IF h = NULL THEN NULL ELSE c)
      /\ items'[new].valuestring = NULL /\ items'[new].string = NULL
      /\ \A i \in Item \ {new} :
           /\ items'[i].status = items[i].status /\ items'[i].child = items[i].child
           /\ items'[i].prev = items[i].prev
           /\ items'[i].valuestring = items[i].valuestring
           /\ items'[i].string = items[i].string
           /\ items'[i].next = IF h # NULL /\ i = c THEN new ELSE items[i].next
      /\ \A i \in Item \ {new} : (h = NULL \/ i # c) => items'[i] = items[i]
      /\ Live' = Live \cup {new}
      /\ h # NULL => c \in Live /\ items[c].next = NULL
  <2>1. AfterNewItem(new)
    BY NewItemEffect
  <2> QED BY <2>1 DEF AfterNewItem, NewItemAt
<1> HIDE DEF c, h
<1>2. Live \subseteq Item /\ NULL \notin Item
  BY DEF Live, ParseAssumption, Item
<1>3. \A i \in Live : /\ items[i].next \in Address(Item) /\ items[i].prev \in Address(Item)
                      /\ items[i].child \in Address(Item)
  BY <1>2 DEF IInv, TypeOK
<1>4. \A i \in Live : /\ items[i].next # NULL => items[i].next \in Live
                      /\ items[i].child # NULL => items[i].child \in Live
  BY <1>2, <1>3 DEF IInv, LinksAreOwned, Points, Address
<1>5. LinksAreOwned'
  <2>1. \A i \in Live, t \in Item :
          Points(items', i, t) <=> Points(items, i, t) \/ (h # NULL /\ i = c /\ t = new)
    BY <1>1, <1>2 DEF Points
  <2>2. \A t \in Item : ~Points(items', new, t)
    BY <1>1, <1>2 DEF Points
  <2>3. \A i \in Live : ~Points(items, i, new)
    BY <1>1 DEF IInv, LinksAreOwned
  <2>4. \A i \in Live', t \in Item : Points(items', i, t) => t \in Live'
    BY <1>1, <2>1, <2>2 DEF IInv, LinksAreOwned
  <2>5. \A i \in Live', j \in Live', t \in Item :
          Points(items', i, t) /\ Points(items', j, t) => i = j
    BY <1>1, <2>1, <2>2, <2>3 DEF IInv, LinksAreOwned
  <2>6. \A i \in Live' : items'[i].next = items'[i].child => items'[i].next = NULL
    <3> TAKE i \in Live'
    <3>1. CASE i = new
      BY <1>1, <3>1
    <3>2. CASE i # new
      <4>1. i \in Live /\ i \in Item
        BY <1>1, <1>2, <3>2
      <4>2. items[i].child # new
        BY <1>1, <1>4, <4>1
      <4> QED BY <1>1, <3>2, <4>1, <4>2 DEF IInv, LinksAreOwned
    <3> QED BY <3>1, <3>2
  <2> QED BY <2>4, <2>5, <2>6 DEF LinksAreOwned
<1>6. ListsAreLinked'
  <2> SUFFICES ASSUME NEW i \in Live'
               PROVE  /\ items'[i].next # NULL => items'[items'[i].next].prev = i
                      /\ items'[i].prev # NULL => items'[items'[i].prev].next = i
    BY DEF ListsAreLinked
  <2>1. CASE i = new
    BY <1>1, <1>2, <2>1
  <2>2. CASE i # new
    <3>1. i \in Live /\ i \in Item
      BY <1>1, <1>2, <2>2
    <3>2. items'[i].next # NULL => items'[items'[i].next].prev = i
      <4>1. CASE h # NULL /\ i = c
        BY <1>1, <2>2, <3>1, <4>1
      <4>2. CASE ~(h # NULL /\ i = c) /\ items[i].next # NULL
        <5>1. items[i].next \in Item \ {new}
          BY <1>1, <1>2, <1>4, <3>1, <4>2
        <5>2. items[items[i].next].prev = i
          BY <3>1, <4>2 DEF IInv, ListsAreLinked
        <5> QED BY <1>1, <2>2, <3>1, <4>2, <5>1, <5>2
      <4> QED BY <1>1, <2>2, <3>1, <4>1, <4>2
    <3>3. items'[i].prev # NULL => items'[items'[i].prev].next = i
      <4> SUFFICES ASSUME items[i].prev # NULL PROVE items'[items[i].prev].next = i
        BY <1>1, <2>2, <3>1
      <4>1. items[i].prev \in Item /\ items[items[i].prev].next = i
        BY <1>3, <3>1 DEF IInv, ListsAreLinked, Address
      <4>2. items[new].next = NULL /\ i # NULL
        BY <1>1, <1>2, <3>1 DEF Node
      <4>3. items[i].prev # new /\ ~(h # NULL /\ items[i].prev = c)
        BY <1>1, <4>1, <4>2
      <4> QED BY <1>1, <4>1, <4>3
    <3> QED BY <3>2, <3>3
  <2> QED BY <2>1, <2>2
<1>7. FreshIsBlank'
  <2> SUFFICES ASSUME NEW i \in Item, items'[i].status = "fresh"
               PROVE  items'[i] = Node("fresh")
    BY DEF FreshIsBlank, FreshItems
  <2>1. i # new /\ items[i].status = "fresh"
    BY <1>1
  <2>2. h = NULL \/ i # c
    BY <1>1, <2>1 DEF Live
  <2> QED BY <1>1, <2>1, <2>2 DEF IInv, FreshIsBlank, FreshItems
<1>8. TextsAreOwned'
  <2>1. \A i \in Live : TextsOf(items', i) = TextsOf(items, i)
    BY <1>1, <1>2 DEF TextsOf
  <2>2. TextsOf(items', new) = {}
    BY <1>1 DEF TextsOf
  <2>3. \A i \in Live' : items'[i].valuestring = items'[i].string => items'[i].string = NULL
    BY <1>1, <1>2 DEF IInv, TextsAreOwned
  <2>4. \A i \in Live' : \A t \in TextsOf(items', i) : strings'[t] = "live"
    BY <1>1, <2>1, <2>2 DEF IInv, TextsAreOwned, NewItemAt
  <2>5. \A i \in Live', j \in Live' : i # j => TextsOf(items', i) \cap TextsOf(items', j) = {}
    BY <1>1, <2>1, <2>2 DEF IInv, TextsAreOwned
  <2>6. \A t \in String : strings'[t] = "live" => \E i \in Live' : t \in TextsOf(items', i)
    BY <1>1, <2>1 DEF IInv, TextsAreOwned, NewItemAt
  <2> QED BY <2>3, <2>4, <2>5, <2>6 DEF TextsAreOwned
<1> QED BY <1>5, <1>6, <1>7, <1>8

\* What is held, and what hangs off it, after a new item.
LEMMA NewItemHeld ==
  ASSUME ParseAssumption, IInv, Running, Running', stack # <<>>, NEW new, NewItemAt(new)
  PROVE  /\ HeldIsAll'
         /\ \A d \in Item : Reach(items, d) \subseteq Reach(items', d)
         /\ Top.head # NULL => new \in Reach(items', Top.head)
<1> DEFINE c == Top.current
           h == Top.head
           n == Len(stack)
<1>1. /\ new \in Item /\ new # NULL /\ new \notin Live /\ items[new] = Node("fresh")
      /\ items'[new].next = NULL /\ items'[new].child = NULL
      /\ \A i \in Item \ {new} :
           /\ items'[i].child = items[i].child
           /\ items'[i].next = IF h # NULL /\ i = c THEN new ELSE items[i].next
      /\ Live' = Live \cup {new}
      /\ h # NULL => /\ c \in Live /\ items[c].next = NULL
                    /\ h \in Live /\ h \in Held /\ c \in Reach(items, h)
  <2>1. AfterNewItem(new)
    BY NewItemEffect
  <2> QED BY <2>1 DEF AfterNewItem, NewItemAt
<1>2. /\ n \in Nat \ {0} /\ DOMAIN stack = 1 .. n /\ DOMAIN stack' = 1 .. n
      /\ \A k \in 1 .. n - 1 : stack'[k] = stack[k]
      /\ h = stack[n].head /\ stack'[n].head = IF h = NULL THEN new ELSE h
  BY NewItemStack
<1> HIDE DEF c, h, n
<1>3. Live \subseteq Item /\ NULL \notin Item /\ Held \subseteq Live
  BY DEF Live, ParseAssumption, Item, IInv, HeldIsAll
<1>4. Held' = Held \cup (IF h = NULL THEN {new} ELSE {})
  <2>1. \A k \in 1 .. n : stack'[k].head = IF k = n /\ h = NULL THEN new ELSE stack[k].head
    BY <1>2
  <2>2. {stack'[k].head : k \in DOMAIN stack'} \ {NULL} =
          ({stack[k].head : k \in DOMAIN stack} \ {NULL}) \cup (IF h = NULL THEN {new} ELSE {})
    <3>1. n \in 1 .. n
      BY <1>2
    <3>2. CASE h = NULL
      <4>1. \A k \in 1 .. n : k # n => stack'[k].head = stack[k].head
        BY <2>1
      <4>2. stack'[n].head = new /\ stack[n].head = NULL
        BY <1>2, <3>2
      <4> QED BY <1>1, <1>2, <3>1, <3>2, <4>1, <4>2
    <3>3. CASE h # NULL
      BY <1>2, <2>1, <3>3
    <3> QED BY <3>2, <3>3
  <2> QED BY <2>2 DEF Held, Running
<1>5. \A i \in Item, t \in Item : Points(items, i, t) => Points(items', i, t)
  <2> SUFFICES ASSUME NEW i \in Item, NEW t \in Item, Points(items, i, t)
               PROVE  Points(items', i, t)
    OBVIOUS
  <2>1. i # new
    BY <1>1, <1>3 DEF Points, Node
  <2>2. CASE h # NULL /\ i = c
    BY <1>1, <1>3, <2>1, <2>2 DEF Points
  <2>3. CASE ~(h # NULL /\ i = c)
    BY <1>1, <2>1, <2>3 DEF Points
  <2> QED BY <2>2, <2>3
<1>6. \A d \in Item : Reach(items, d) \subseteq Reach(items', d)
  BY <1>5, ReachGrows
<1>7. h # NULL => new \in Reach(items', h)
  <2> SUFFICES ASSUME h # NULL PROVE new \in Reach(items', h)
    OBVIOUS
  <2>1. c \in Reach(items', h) /\ h \in Item /\ c \in Item
    BY <1>1, <1>3, <1>6
  <2>2. Points(items', c, new)
    BY <1>1, <2>1 DEF Points
  <2> QED BY <1>1, <2>1, <2>2, ReachIsClosed DEF Closed
<1>8. HeldIsAll'
  <2>1. Held' \subseteq Live'
    BY <1>1, <1>3, <1>4
  <2>2. ASSUME NEW i \in Live', NEW t \in Held', Points(items', i, t)
        PROVE  FALSE
    <3>1. i # new
      BY <1>1, <1>3, <2>1, <2>2 DEF Points
    <3>2. i \in Live /\ i \in Item \ {new} /\ t \in Item
      BY <1>1, <1>3, <2>1, <3>1
    <3>3. CASE t = new
      <4>1. h = NULL
        BY <1>1, <1>3, <1>4, <3>3
      <4>2. Points(items, i, new)
        BY <1>1, <2>2, <3>2, <3>3, <4>1 DEF Points
      <4> QED BY <1>1, <3>2, <4>2 DEF IInv, LinksAreOwned
    <3>4. CASE t # new
      <4>1. t \in Held
        BY <1>4, <3>4
      <4>2. Points(items, i, t)
        BY <1>1, <2>2, <3>2, <3>4 DEF Points
      <4> QED BY <3>2, <4>1, <4>2 DEF IInv, HeldIsAll
    <3> QED BY <3>3, <3>4
  <2>3. ASSUME NEW t \in Live'
        PROVE  \E d \in Held' : t \in Reach(items', d)
    <3>1. CASE t = new /\ h = NULL
      BY <1>1, <1>4, <3>1, ReachIsClosed
    <3>2. CASE t = new /\ h # NULL
      BY <1>1, <1>4, <1>7, <3>2
    <3>3. CASE t # new
      <4>1. PICK d \in Held : t \in Reach(items, d)
        BY <1>1, <3>3 DEF IInv, HeldIsAll
      <4> QED BY <1>3, <1>4, <1>6, <4>1
    <3> QED BY <3>1, <3>2, <3>3
  <2> QED BY <2>1, <2>2, <2>3 DEF HeldIsAll
<1> QED BY <1>6, <1>7, <1>8 DEF h

\* The frames after a new item.
LEMMA NewItemFrames ==
  ASSUME ParseAssumption, IInv, Running, Running', stack # <<>>, NEW new, NewItemAt(new)
  PROVE  FramesAreSound'
<1> DEFINE c == Top.current
           h == Top.head
           n == Len(stack)
<1>1. /\ new \in Item /\ new # NULL /\ new # Root /\ new \notin Live
      /\ items'[new].next = NULL
      /\ \A i \in Item \ {new} :
           /\ items'[i].child = items[i].child
           /\ items'[i].next = IF h # NULL /\ i = c THEN new ELSE items[i].next
      /\ (h = NULL <=> c = NULL)
  <2>1. AfterNewItem(new)
    BY NewItemEffect
  <2> QED BY <2>1 DEF AfterNewItem, NewItemAt
<1>2. /\ n \in Nat \ {0} /\ n \in 1 .. n
      /\ DOMAIN stack = 1 .. n /\ DOMAIN stack' = 1 .. n /\ stack' # <<>>
      /\ \A k \in 1 .. n - 1 : stack'[k] = stack[k]
      /\ h = stack[n].head /\ c = stack[n].current
      /\ stack'[n].item = stack[n].item /\ stack'[n].current = new
      /\ stack'[n].head = IF h = NULL THEN new ELSE h
  BY NewItemStack
<1>3. /\ \A d \in Item : Reach(items, d) \subseteq Reach(items', d)
      /\ h # NULL => new \in Reach(items', h)
  BY NewItemHeld
<1>4. \A k \in 1 .. n :
        /\ stack[k].item \in Live
        /\ stack[k].head # NULL => stack[k].head \in Live /\ stack[k].current \in Live
  BY <1>2, FramesAreLive
<1> HIDE DEF c, h, n
<1>5. \A k \in 1 .. n : stack'[k].item = stack[k].item
  BY <1>2
<1>6. \A k \in 1 .. n : k # 1 => stack'[k - 1] = stack[k - 1]
  <2> TAKE k \in 1 .. n
  <2>1. k # 1 => k - 1 \in 1 .. n - 1
    BY <1>2
  <2> QED BY <1>2, <2>1
<1>7. Live \subseteq Item
  BY DEF Live
<1>8. ASSUME NEW k \in 1 .. n
      PROVE  /\ stack'[k].head = NULL <=> stack'[k].current = NULL
             /\ stack'[k].head # NULL => /\ stack'[k].current \in Reach(items', stack'[k].head)
                                         /\ items'[stack'[k].current].next = NULL
             /\ stack'[k].head # Root /\ stack'[k].current # Root
             /\ stack'[k].item = IF k = 1 THEN Root ELSE stack'[k - 1].current
             /\ items'[stack'[k].item].child = NULL
  <2>1. stack'[k].item = IF k = 1 THEN Root ELSE stack'[k - 1].current
    BY <1>2, <1>5, <1>6 DEF IInv, FramesAreSound
  <2>2. items'[stack'[k].item].child = NULL
    BY <1>1, <1>2, <1>4, <1>5, <1>7 DEF IInv, FramesAreSound
  <2>3. CASE k = n
    <3>1. stack'[n].head # NULL /\ stack'[n].head # Root
      BY <1>1, <1>2 DEF IInv, FramesAreSound
    <3>2. new \in Reach(items', stack'[n].head)
      BY <1>1, <1>2, <1>3, ReachIsClosed
    <3> QED BY <1>1, <1>2, <2>1, <2>2, <2>3, <3>1, <3>2
  <2>4. CASE k # n
    <3>1. stack'[k] = stack[k]
      BY <1>2, <2>4
    <3>2. stack[k].head # NULL => stack[k].current \in Reach(items', stack[k].head)
      BY <1>2, <1>3, <1>4, <1>7 DEF IInv, FramesAreSound
    <3>3. stack[k].head # NULL => items'[stack[k].current].next = NULL
      <4>1. stack[k].head # NULL /\ h # NULL => stack[k].current # c
        BY <1>2, <2>4 DEF IInv, FramesAreSound
      <4> QED BY <1>1, <1>2, <1>4, <1>7, <4>1 DEF IInv, FramesAreSound
    <3> QED BY <1>2, <2>1, <2>2, <3>1, <3>2, <3>3 DEF IInv, FramesAreSound
  <2> QED BY <2>3, <2>4
<1>9. ASSUME NEW k \in 1 .. n, NEW l \in 1 .. n, k # l, stack'[k].head # NULL
      PROVE  stack'[k].head # stack'[l].head /\ stack'[k].current # stack'[l].current
  <2>1. \A j \in 1 .. n : stack[j].head # new /\ stack[j].current # new
    BY <1>1, <1>2, <1>4 DEF IInv, FramesAreSound
  <2>2. \A j \in 1 .. n : j # n => stack'[j] = stack[j]
    BY <1>2
  <2>3. CASE k # n /\ l # n
    BY <1>2, <1>9, <2>2, <2>3 DEF IInv, FramesAreSound
  <2>4. CASE k = n /\ l # n
    BY <1>1, <1>2, <1>9, <2>1, <2>2, <2>4 DEF IInv, FramesAreSound
  <2>5. CASE k # n /\ l = n
    BY <1>1, <1>2, <1>9, <2>1, <2>2, <2>5 DEF IInv, FramesAreSound
  <2> QED BY <1>9, <2>3, <2>4, <2>5
<1> QED BY <1>2, <1>8, <1>9 DEF FramesAreSound

LEMMA NewElementStep ==
  ASSUME ParseAssumption, IInv, NewElement
  PROVE  IInv'
<1>1. UNCHANGED <<fault, result, strings>> /\ pc = "element" /\ pc' \in {"value", "name", "fail"}
  BY DEF NewElement, call
<1>2. TypeOK' /\ Running /\ Running' /\ stack # <<>>
  BY <1>1, NewElementIsTyped DEF Running, IInv, FramesAreSound
<1>3. CASE UNCHANGED <<items, stack>> /\ pc' = "fail"
  <2>1. SamePointers /\ SameStatus
    BY <1>3 DEF SamePointers, SameStatus
  <2>2. Held' = Held /\ FramesAreSound'
    BY <1>2, <1>3, <2>1, FramesAreKept
  <2>3. LinksAreOwned' /\ HeldIsAll' /\ ListsAreLinked'
    BY <2>1, <2>2, SkeletonIsKept
  <2>4. FreshIsBlank' /\ TextsAreOwned'
    BY <1>1, <1>3 DEF IInv, FreshIsBlank, FreshItems, TextsAreOwned, TextsOf, Live
  <2>5. NoFault' /\ NoResultYet' /\ TargetIsBlank'
    BY <1>1, <1>3 DEF IInv, NoFault, NoResultYet, TargetIsBlank
  <2> QED BY <1>2, <2>2, <2>3, <2>4, <2>5 DEF IInv
<1>4. CASE FreshItems # {} /\ NewItemAt(Min(FreshItems))
  <2> DEFINE new == Min(FreshItems)
  <2>1. new \in Item /\ NewItemAt(new)
    BY <1>4 DEF NewItemAt
  <2> HIDE DEF new
  <2>2. FramesAreSound' /\ HeldIsAll'
    BY <1>2, <2>1, NewItemFrames, NewItemHeld
  <2>3. LinksAreOwned' /\ ListsAreLinked' /\ FreshIsBlank' /\ TextsAreOwned'
    BY <1>2, <2>1, NewItemLinks
  <2>4. TargetIsBlank'
    <3>1. Target' = new
      BY <1>2, <2>1, NewItemStack DEF Target, Top
    <3>2. /\ new # NULL /\ items'[new].child = NULL
          /\ items'[new].valuestring = NULL /\ items'[new].string = NULL
      BY <1>2, <2>1, NewItemEffect DEF AfterNewItem
    <3> QED BY <3>1, <3>2 DEF TargetIsBlank
  <2> QED BY <1>1, <1>2, <2>2, <2>3, <2>4 DEF IInv, NoFault, NoResultYet, Running
<1>5. FreshItems # {} => Min(FreshItems) \in FreshItems
  BY FreeAddresses
<1> QED BY <1>3, <1>4, <1>5 DEF NewElement, NewItemAt, FreshItems
-----------------------------------------------------------------------------
(* The end of a container                                                  *)

\* What the frame on top is about, and what is left when it is gone.
LEMMA TopFrame ==
  ASSUME ParseAssumption, IInv, Running, Running', stack # <<>>, stack' = Pop
  PROVE  LET n == Len(stack)
             h == Top.head
         IN  /\ n \in Nat \ {0} /\ DOMAIN stack = 1 .. n /\ DOMAIN stack' = 1 .. n - 1
             /\ \A k \in 1 .. n - 1 : stack'[k] = stack[k]
             /\ Top = stack[n] /\ Top \in Frames
             /\ Held = Held' \cup ({h} \ {NULL}) /\ h \notin Held' /\ Held \subseteq Live
             /\ Root \in Held'
             /\ \A k \in 1 .. n - 1 : /\ stack[k].head # NULL /\ stack[k].head \in Held'
                                      /\ stack[k].current # NULL
<1> DEFINE n == Len(stack)
           h == Top.head
<1>1. /\ stack \in Seq(Frames) /\ n \in Nat \ {0} /\ n \in 1 .. n
      /\ DOMAIN stack = 1 .. n /\ DOMAIN stack' = 1 .. n - 1
      /\ \A k \in 1 .. n - 1 : stack'[k] = stack[k]
      /\ Top = stack[n] /\ Top \in Frames
  <2>1. stack \in Seq(Frames)
    BY DEF IInv, TypeOK, Frames
  <2> QED BY <2>1, StackIsShorter
<1> HIDE DEF n
<1>2. {stack[k].head : k \in DOMAIN stack} = {stack'[k].head : k \in DOMAIN stack'} \cup {h}
  BY <1>1
<1>3. Held = Held' \cup ({h} \ {NULL})
  BY <1>2 DEF Held, Running
<1>4. h \notin Held'
  <2>1. h # Root
    BY <1>1 DEF IInv, FramesAreSound
  <2>2. \A k \in 1 .. n - 1 : stack[k].head # NULL => stack[k].head # h
    BY <1>1 DEF IInv, FramesAreSound
  <2> QED BY <1>1, <2>1, <2>2 DEF Held, Running
<1>5. Held \subseteq Live /\ Root \in Held'
  BY DEF IInv, HeldIsAll, Held, Running
<1>6. ASSUME NEW k \in 1 .. n - 1
      PROVE  /\ stack[k].head # NULL /\ stack[k].head \in Held'
             /\ stack[k].current # NULL
  <2>1. /\ k + 1 \in 1 .. n /\ k \in 1 .. n /\ k + 1 # 1 /\ (k + 1) - 1 = k
    BY <1>1
  <2>2. stack[k + 1].item = stack[k].current /\ stack[k + 1].item \in Live
    <3>1. k + 1 \in DOMAIN stack
      BY <1>1, <2>1
    <3>2. stack[k + 1].item = stack[(k + 1) - 1].current
      BY <2>1, <3>1 DEF IInv, FramesAreSound
    <3>3. stack[k + 1].item \in Live
      BY <3>1, FramesAreLive
    <3> QED BY <2>1, <3>2, <3>3
  <2>3. stack[k].current # NULL /\ stack[k].head # NULL
    BY <1>1, <2>1, <2>2 DEF Live, ParseAssumption, Item, IInv, FramesAreSound
  <2>4. k \in DOMAIN stack' /\ stack'[k].head = stack[k].head
    BY <1>1
  <2> QED BY <2>3, <2>4 DEF Held, Running
<1> QED BY <1>1, <1>3, <1>4, <1>5, <1>6 DEF n

\* What Close does to the pointers.
LEMMA CloseLinks ==
  ASSUME ParseAssumption, IInv, Close, Running, Running'
  PROVE  LET x == Top.item
             h == Top.head
         IN  /\ x \in Live /\ items[x].child = NULL /\ h \in Address(Item)
             /\ h # NULL => h \in Held
             /\ Live' = Live
             /\ \A i \in Item :
                  /\ items'[i].status = items[i].status /\ items'[i].next = items[i].next
                  /\ items'[i].prev = items[i].prev /\ items'[i].string = items[i].string
                  /\ items'[i].valuestring = items[i].valuestring
                  /\ items'[i].child = IF i = x THEN h ELSE items[i].child
                  /\ i # x => items'[i] = items[i]
             /\ \A i \in Item, t \in Item :
                  Points(items', i, t) <=> (Points(items, i, t) \/ (i = x /\ t = h))
<1> DEFINE x == Top.item
           h == Top.head
<1>1. /\ stack # <<>> /\ stack' = Pop /\ Top \in Frames /\ items \in [Item -> Nodes]
      /\ \A i \in Item : items'[i] =
           IF i = x THEN [items[i] EXCEPT !.type = Top.type, !.child = h] ELSE items[i]
  BY CloseEffect DEF Close, IInv, TypeOK, Nodes, NodeTypes
<1>2. /\ Len(stack) \in DOMAIN stack /\ Top = stack[Len(stack)]
      /\ Held = Held' \cup ({h} \ {NULL})
  <2>1. /\ Len(stack) \in Nat \ {0} /\ DOMAIN stack = 1 .. Len(stack)
        /\ Top = stack[Len(stack)] /\ Held = Held' \cup ({h} \ {NULL})
    BY <1>1, TopFrame
  <2> QED BY <2>1
<1>3. x \in Live /\ items[x].child = NULL /\ h \in Address(Item)
  <2>1. h \in Address(Item)
    BY <1>1 DEF Frames
  <2> QED BY <1>2, <2>1, FramesAreLive DEF IInv, FramesAreSound
<1>4. ASSUME NEW i \in Item
      PROVE  /\ items'[i].status = items[i].status /\ items'[i].next = items[i].next
             /\ items'[i].prev = items[i].prev /\ items'[i].string = items[i].string
             /\ items'[i].valuestring = items[i].valuestring
             /\ items'[i].child = IF i = x THEN h ELSE items[i].child
             /\ i # x => items'[i] = items[i]
  <2>1. CASE i = x
    <3>1. items[i] \in Nodes /\ items'[i] = [items[i] EXCEPT !.type = Top.type, !.child = h]
      BY <1>1, <2>1
    <3> QED BY <2>1, <3>1 DEF Nodes
  <2>2. CASE i # x
    BY <1>1, <2>2
  <2> QED BY <2>1, <2>2
<1> HIDE DEF x, h
<1>5. Live' = Live
  BY <1>4 DEF Live
<1>6. \A i \in Item, t \in Item :
        Points(items', i, t) <=> (Points(items, i, t) \/ (i = x /\ t = h))
  BY <1>3, <1>4 DEF Points, ParseAssumption, Item
<1> QED BY <1>2, <1>3, <1>4, <1>5, <1>6 DEF x, h
LEMMA CloseStep ==
  ASSUME ParseAssumption, IInv, Close
  PROVE  IInv'
<1> DEFINE x == Top.item
           h == Top.head
           n == Len(stack)
<1>1. UNCHANGED <<fault, result, strings>> /\ pc' = "after" /\ stack # <<>> /\ stack' = Pop
  BY DEF Close, call, Advance
<1>2. TypeOK' /\ Running /\ Running'
  BY <1>1, CloseIsTyped DEF Running, Close
<1>3. /\ x \in Live /\ items[x].child = NULL /\ h \in Address(Item)
      /\ h # NULL => h \in Held
      /\ Live' = Live
      /\ \A i \in Item :
           /\ items'[i].status = items[i].status /\ items'[i].next = items[i].next
           /\ items'[i].prev = items[i].prev /\ items'[i].string = items[i].string
           /\ items'[i].valuestring = items[i].valuestring
           /\ items'[i].child = IF i = x THEN h ELSE items[i].child
           /\ i # x => items'[i] = items[i]
      /\ \A i \in Item, t \in Item :
           Points(items', i, t) <=> (Points(items, i, t) \/ (i = x /\ t = h))
  BY <1>2, CloseLinks
<1>4. /\ n \in Nat \ {0} /\ DOMAIN stack = 1 .. n /\ DOMAIN stack' = 1 .. n - 1
      /\ \A k \in 1 .. n - 1 : stack'[k] = stack[k]
      /\ x = stack[n].item
      /\ Held = Held' \cup ({h} \ {NULL}) /\ h \notin Held' /\ Held \subseteq Live
      /\ Root \in Held'
      /\ \A k \in 1 .. n - 1 : /\ stack[k].head # NULL /\ stack[k].head \in Held'
                               /\ stack[k].current # NULL
  BY <1>1, <1>2, TopFrame
<1>5. n \in 1 .. n /\ (n # 1 => n - 1 \in 1 .. n - 1) /\ 1 .. n - 1 \subseteq 1 .. n
  BY <1>4
<1>6. x = IF n = 1 THEN Root ELSE stack[n - 1].current
  BY <1>4, <1>5 DEF IInv, FramesAreSound
<1> HIDE DEF x, h, n
<1>7. Live \subseteq Item /\ NULL \notin Item
  BY DEF Live, ParseAssumption, Item
<1>8. \A d \in Item : Reach(items, d) \subseteq Reach(items', d)
  BY <1>3, ReachGrows
<1>9. LinksAreOwned'
  <2>1. h # NULL => \A i \in Live : ~Points(items, i, h)
    BY <1>3 DEF IInv, HeldIsAll
  <2>2. \A i \in Live', t \in Item : Points(items', i, t) => t \in Live'
    BY <1>3, <1>4, <1>7 DEF IInv, LinksAreOwned
  <2>3. \A i \in Live', j \in Live', t \in Item :
          Points(items', i, t) /\ Points(items', j, t) => i = j
    BY <1>3, <1>7, <2>1 DEF IInv, LinksAreOwned
  <2>4. \A i \in Live' : items'[i].next = items'[i].child => items'[i].next = NULL
    <3> TAKE i \in Live'
    <3>1. CASE i = x
      <4>1. h # NULL => items[x].next # h
        BY <1>3, <2>1 DEF Points
      <4> QED BY <1>3, <1>7, <3>1, <4>1
    <3>2. CASE i # x
      BY <1>3, <1>7, <3>2 DEF IInv, LinksAreOwned
    <3> QED BY <3>1, <3>2
  <2> QED BY <2>2, <2>3, <2>4 DEF LinksAreOwned
<1>10. HeldIsAll'
  <2>1. Held' \subseteq Live'
    BY <1>3, <1>4
  <2>2. \A i \in Live', t \in Held' : ~Points(items', i, t)
    BY <1>3, <1>4, <1>7 DEF IInv, HeldIsAll
  <2>3. PICK r \in Held' : x \in Reach(items', r)
    <3>1. CASE n = 1
      BY <1>4, <1>6, <1>7, <3>1, ReachIsClosed
    <3>2. CASE n # 1
      <4>1. stack[n - 1].head \in Held' /\ stack[n - 1].head \in Item
        BY <1>4, <1>5, <1>7, <3>2
      <4>2. stack[n - 1].current \in Reach(items, stack[n - 1].head)
        BY <1>4, <1>5, <3>2 DEF IInv, FramesAreSound
      <4> QED BY <1>6, <1>8, <3>2, <4>1, <4>2
    <3> QED BY <3>1, <3>2
  <2>4. r \in Item
    BY <1>4, <1>7
  <2>5. h # NULL => Reach(items', h) \subseteq Reach(items', r)
    <3> SUFFICES ASSUME h # NULL PROVE Reach(items', h) \subseteq Reach(items', r)
      OBVIOUS
    <3>1. h \in Item /\ x \in Item /\ Points(items', x, h)
      BY <1>3, <1>7 DEF Address
    <3>2. Closed(items', Reach(items', r)) /\ Reach(items', r) \subseteq Item
      BY <2>4, ReachIsClosed
    <3>3. h \in Reach(items', r)
      BY <2>3, <3>1, <3>2 DEF Closed
    <3> QED BY <3>1, <3>2, <3>3, ReachIsLeast
  <2>6. ASSUME NEW t \in Live'
        PROVE  \E d \in Held' : t \in Reach(items', d)
    <3>1. PICK d \in Held : t \in Reach(items, d)
      BY <1>3 DEF IInv, HeldIsAll
    <3>2. d \in Item /\ t \in Reach(items', d)
      BY <1>4, <1>7, <1>8, <3>1
    <3>3. CASE d \in Held'
      BY <3>2, <3>3
    <3>4. CASE d = h /\ h # NULL
      BY <2>3, <2>5, <3>2, <3>4
    <3> QED BY <1>4, <3>3, <3>4
  <2> QED BY <2>1, <2>2, <2>6 DEF HeldIsAll
<1>11. FramesAreSound'
  <2>1. ASSUME NEW k \in 1 .. n - 1
        PROVE  /\ stack[k].item \in Live /\ stack[k].item # x
               /\ stack[k].head \in Live /\ stack[k].current \in Live
    <3>1. k \in 1 .. n /\ n # 1
      BY <1>4, <1>5
    <3>2. stack[k].item \in Live /\ stack[k].head \in Live /\ stack[k].current \in Live
      BY <1>2, <1>4, <3>1, FramesAreLive
    <3>3. x = stack[n - 1].current /\ x # Root
      BY <1>4, <1>5, <1>6, <3>1 DEF IInv, FramesAreSound
    <3>4. stack[k].item # x
      <4>1. CASE k = 1
        BY <1>4, <3>1, <3>3, <4>1 DEF IInv, FramesAreSound
      <4>2. CASE k # 1
        <5>1. k - 1 \in 1 .. n /\ k - 1 # n - 1 /\ n - 1 \in 1 .. n /\ k - 1 \in 1 .. n - 1
          BY <1>4, <4>2
        <5>2. stack[k].item = stack[k - 1].current
          BY <1>4, <3>1, <4>2 DEF IInv, FramesAreSound
        <5>3. stack[k - 1].current # stack[n - 1].current
          BY <1>4, <5>1 DEF IInv, FramesAreSound
        <5> QED BY <3>3, <5>2, <5>3
      <4> QED BY <4>1, <4>2
    <3> QED BY <3>2, <3>4
  <2>2. ASSUME NEW k \in 1 .. n - 1
        PROVE  /\ stack'[k].head = NULL <=> stack'[k].current = NULL
               /\ stack'[k].head # NULL => /\ stack'[k].current \in Reach(items', stack'[k].head)
                                           /\ items'[stack'[k].current].next = NULL
               /\ stack'[k].head # Root /\ stack'[k].current # Root
               /\ stack'[k].item = IF k = 1 THEN Root ELSE stack'[k - 1].current
               /\ items'[stack'[k].item].child = NULL
    <3>1. k \in 1 .. n /\ (k # 1 => k - 1 \in 1 .. n - 1)
      BY <1>4, <1>5
    <3>2. stack'[k] = stack[k] /\ (k # 1 => stack'[k - 1] = stack[k - 1])
      BY <1>4, <3>1
    <3>3. stack[k].current \in Reach(items', stack[k].head)
      BY <1>4, <1>7, <1>8, <2>1, <3>1 DEF IInv, FramesAreSound
    <3>4. items'[stack[k].current].next = NULL /\ items'[stack[k].item].child = NULL
      <4>1. items[stack[k].current].next = NULL /\ items[stack[k].item].child = NULL
        BY <1>4, <3>1 DEF IInv, FramesAreSound
      <4>2. stack[k].current \in Item /\ stack[k].item \in Item /\ stack[k].item # x
        BY <1>7, <2>1
      <4> QED BY <1>3, <4>1, <4>2
    <3> QED BY <1>4, <3>1, <3>2, <3>3, <3>4 DEF IInv, FramesAreSound
  <2>3. ASSUME NEW k \in 1 .. n - 1, NEW l \in 1 .. n - 1, k # l, stack'[k].head # NULL
        PROVE  stack'[k].head # stack'[l].head /\ stack'[k].current # stack'[l].current
    <3>1. k \in 1 .. n /\ l \in 1 .. n /\ stack'[k] = stack[k] /\ stack'[l] = stack[l]
      BY <1>4, <1>5
    <3> QED BY <1>4, <2>3, <3>1 DEF IInv, FramesAreSound
  <2> QED BY <1>1, <1>2, <1>4, <2>2, <2>3 DEF FramesAreSound
<1>12. ListsAreLinked'
  <2> SUFFICES ASSUME NEW i \in Live
               PROVE  /\ items'[i].next # NULL => items'[items'[i].next].prev = i
                      /\ items'[i].prev # NULL => items'[items'[i].prev].next = i
    BY <1>3 DEF ListsAreLinked
  <2>1. i \in Item /\ items[i].next \in Address(Item) /\ items[i].prev \in Address(Item)
    BY <1>7 DEF IInv, TypeOK
  <2> QED BY <1>3, <2>1 DEF IInv, ListsAreLinked, Address
<1>13. FreshIsBlank'
  BY <1>3 DEF IInv, FreshIsBlank, FreshItems, Live
<1>14. TextsAreOwned'
  <2>1. \A i \in Live : TextsOf(items', i) = TextsOf(items, i)
    BY <1>3, <1>7 DEF TextsOf
  <2> QED BY <1>1, <1>3, <1>7, <2>1 DEF IInv, TextsAreOwned
<1> QED BY <1>1, <1>2, <1>9, <1>10, <1>11, <1>12, <1>13, <1>14
        DEF IInv, NoFault, NoResultYet, Running, TargetIsBlank
-----------------------------------------------------------------------------
(* Steps that free items                                                   *)

LEMMA SubtreeIsReach ==
  ASSUME NEW c
  PROVE  Subtree(c) = Reach(items, c)
BY DEF Subtree, Leads, Reach, Closed, Points

\* cJSON_Delete frees what hangs off the pointer, all of which is live, and
\* leaves nothing that leads into it.
LEMMA DeleteEffect ==
  ASSUME ParseAssumption, IInv, NEW c \in Held, Delete(c)
  PROVE  LET gone == Reach(items, c)
         IN  /\ c \in gone /\ gone \subseteq Live /\ fault' = FALSE
             /\ \A i \in Item \ gone : items'[i] = items[i]
             /\ \A i \in gone : items'[i] = [items[i] EXCEPT !.status = "freed"]
             /\ strings' = [s \in String |-> IF \E i \in gone : s \in TextsOf(items, i)
                                             THEN "freed" ELSE strings[s]]
             /\ \A i \in Live \ gone, t \in gone : ~Points(items, i, t)
             /\ \A d \in Held : d # c => d \notin gone
<1> DEFINE gone == Reach(items, c)
           texts == UNION {Texts(i) : i \in gone}
<1>1. c \in Item /\ c \in Live /\ c \in gone /\ gone \subseteq Live /\ gone \subseteq Item
  BY HeldTreesAreLive, ReachIsClosed DEF IInv, HeldIsAll
<1>2. /\ items' = [i \in Item |-> IF i \in gone THEN [items[i] EXCEPT !.status = "freed"]
                                                ELSE items[i]]
      /\ strings' = [s \in String |-> IF s \in texts THEN "freed" ELSE strings[s]]
      /\ fault' = (fault \/ (\E i \in gone : items[i].status # "live")
                         \/ (\E s \in texts : strings[s] # "live"))
  BY SubtreeIsReach DEF Delete
<1>3. \A t \in gone : t # c => \E j \in gone : Points(items, j, t)
  BY <1>1, ReachHasPredecessor
<1> HIDE DEF gone
<1>4. \A s : s \in texts <=> \E i \in gone : s \in TextsOf(items, i)
  BY DEF Texts, TextsOf
<1> HIDE DEF texts
<1>5. fault' = FALSE
  <2>1. \A i \in gone : items[i].status = "live"
    BY <1>1 DEF Live
  <2>2. \A s \in texts : strings[s] = "live"
    BY <1>1, <1>4 DEF IInv, TextsAreOwned
  <2>3. ~fault
    BY DEF IInv, NoFault
  <2> QED BY <1>2, <2>1, <2>2, <2>3
<1>6. ASSUME NEW i \in Live \ gone, NEW t \in gone, Points(items, i, t)
      PROVE  FALSE
  <2>1. t # c
    BY <1>6 DEF IInv, HeldIsAll
  <2>2. PICK j \in gone : Points(items, j, t)
    BY <1>3, <2>1
  <2>3. i = j
    BY <1>1, <1>6, <2>2 DEF IInv, LinksAreOwned
  <2> QED BY <2>3
<1>7. ASSUME NEW d \in Held, d # c, d \in gone
      PROVE  FALSE
  <2>1. PICK j \in gone : Points(items, j, d)
    BY <1>3, <1>7
  <2> QED BY <1>1, <2>1 DEF IInv, HeldIsAll
<1>8. \A i \in Item \ gone : items'[i] = items[i]
  BY <1>2
<1>9. \A i \in gone : items'[i] = [items[i] EXCEPT !.status = "freed"]
  BY <1>1, <1>2
<1>10. strings' = [s \in String |-> IF \E i \in gone : s \in TextsOf(items, i)
                                    THEN "freed" ELSE strings[s]]
  BY <1>2, <1>4
<1> QED BY <1>1, <1>5, <1>6, <1>7, <1>8, <1>9, <1>10 DEF gone

\* Deleting what is held leaves everything else as it was.
LEMMA DeleteKeeps ==
  ASSUME ParseAssumption, IInv, NEW c \in Held, Delete(c)
  PROVE  /\ NoFault' /\ FreshIsBlank' /\ LinksAreOwned' /\ TextsAreOwned' /\ ListsAreLinked'
         /\ SamePointers
         /\ Live' = Live \ Reach(items, c)
         /\ \A d \in Held \ {c} : d \in Live' /\ \A i \in Live' : ~Points(items', i, d)
         /\ \A t \in Live' : \E d \in Held \ {c} : t \in Reach(items', d)
<1> DEFINE gone == Reach(items, c)
<1>1. /\ c \in gone /\ gone \subseteq Live /\ fault' = FALSE
      /\ \A i \in Item \ gone : items'[i] = items[i]
      /\ \A i \in gone : items'[i] = [items[i] EXCEPT !.status = "freed"]
      /\ strings' = [s \in String |-> IF \E i \in gone : s \in TextsOf(items, i)
                                      THEN "freed" ELSE strings[s]]
      /\ \A i \in Live \ gone, t \in gone : ~Points(items, i, t)
      /\ \A d \in Held : d # c => d \notin gone
  BY DeleteEffect
<1>2. /\ Live \subseteq Item /\ NULL \notin Item /\ items \in [Item -> Nodes]
      /\ Held \subseteq Live
  <2>1. items \in [Item -> Nodes]
    BY DEF IInv, TypeOK, Nodes, NodeTypes
  <2>2. Held \subseteq Live
    BY DEF IInv, HeldIsAll
  <2> QED BY <2>1, <2>2 DEF Live, ParseAssumption, Item
<1> HIDE DEF gone
<1>3. ASSUME NEW i \in Item
      PROVE  /\ items'[i].next = items[i].next /\ items'[i].prev = items[i].prev
             /\ items'[i].child = items[i].child
             /\ items'[i].status = IF i \in gone THEN "freed" ELSE items[i].status
  <2>1. CASE i \in gone
    <3>1. items[i] \in Nodes /\ items'[i] = [items[i] EXCEPT !.status = "freed"]
      BY <1>1, <1>2, <2>1
    <3> QED BY <2>1, <3>1 DEF Nodes
  <2>2. CASE i \notin gone
    BY <1>1, <2>2
  <2> QED BY <2>1, <2>2
<1>4. SamePointers
  BY <1>3 DEF SamePointers
<1>5. Live' = Live \ gone
  BY <1>3 DEF Live
<1>6. \A i \in Item, j \in Item : Points(items', i, j) <=> Points(items, i, j)
  BY <1>4, SameReach
<1>7. LinksAreOwned'
  <2>1. \A i \in Live', t \in Item : Points(items', i, t) => t \in Live'
    BY <1>1, <1>2, <1>5, <1>6 DEF IInv, LinksAreOwned
  <2>2. \A i \in Live', j \in Live', t \in Item :
          Points(items', i, t) /\ Points(items', j, t) => i = j
    BY <1>2, <1>5, <1>6 DEF IInv, LinksAreOwned
  <2>3. \A i \in Live' : items'[i].next = items'[i].child => items'[i].next = NULL
    BY <1>2, <1>3, <1>5 DEF IInv, LinksAreOwned
  <2> QED BY <2>1, <2>2, <2>3 DEF LinksAreOwned
<1>8. ListsAreLinked'
  <2> SUFFICES ASSUME NEW i \in Live'
               PROVE  /\ items'[i].next # NULL => items'[items'[i].next].prev = i
                      /\ items'[i].prev # NULL => items'[items'[i].prev].next = i
    BY DEF ListsAreLinked
  <2>1. /\ i \in Live /\ i \in Item
        /\ items[i].next \in Address(Item) /\ items[i].prev \in Address(Item)
    BY <1>2, <1>5 DEF IInv, TypeOK
  <2> QED BY <1>3, <2>1 DEF IInv, ListsAreLinked, Address
<1>9. FreshIsBlank'
  BY <1>1, <1>3 DEF IInv, FreshIsBlank, FreshItems
<1>10. TextsAreOwned'
  <2>1. \A i \in Live' : i \in Live /\ i \notin gone /\ items'[i] = items[i]
                         /\ TextsOf(items', i) = TextsOf(items, i)
    BY <1>1, <1>2, <1>5 DEF TextsOf
  <2>2. ASSUME NEW i \in Live', NEW t \in TextsOf(items', i)
        PROVE  strings'[t] = "live"
    <3>1. t \in TextsOf(items, i) /\ strings[t] = "live"
      BY <2>1 DEF IInv, TextsAreOwned
    <3>2. t \in String
      BY <1>2, <2>1, <3>1 DEF TextsOf, Nodes, Address
    <3>3. \A j \in gone : t \notin TextsOf(items, j)
      BY <1>1, <2>1, <3>1 DEF IInv, TextsAreOwned
    <3> QED BY <1>1, <3>1, <3>2, <3>3
  <2>3. ASSUME NEW t \in String, strings'[t] = "live"
        PROVE  \E i \in Live' : t \in TextsOf(items', i)
    <3>1. strings[t] = "live" /\ \A j \in gone : t \notin TextsOf(items, j)
      BY <1>1, <2>3
    <3>2. PICK i \in Live : t \in TextsOf(items, i)
      BY <3>1 DEF IInv, TextsAreOwned
    <3> QED BY <1>5, <2>1, <3>1, <3>2
  <2>4. \A i \in Live', j \in Live' : i # j => TextsOf(items', i) \cap TextsOf(items', j) = {}
    BY <2>1 DEF IInv, TextsAreOwned
  <2>5. \A i \in Live' : items'[i].valuestring = items'[i].string => items'[i].string = NULL
    BY <2>1 DEF IInv, TextsAreOwned
  <2> QED BY <2>2, <2>3, <2>4, <2>5 DEF TextsAreOwned
<1>11. \A d \in Held \ {c} : d \in Live' /\ \A i \in Live' : ~Points(items', i, d)
  BY <1>1, <1>2, <1>5, <1>6 DEF IInv, HeldIsAll
<1>12. ASSUME NEW t \in Live'
       PROVE  \E d \in Held \ {c} : t \in Reach(items', d)
  <2>1. PICK d \in Held : t \in Reach(items, d)
    BY <1>5 DEF IInv, HeldIsAll
  <2>2. d # c
    BY <1>5, <2>1 DEF gone
  <2>3. t \in Reach(items', d)
    BY <1>2, <1>4, <2>1, SameReach
  <2> QED BY <2>2, <2>3
<1>13. NoFault'
  BY <1>1 DEF NoFault
<1> QED BY <1>4, <1>5, <1>7, <1>8, <1>9, <1>10, <1>11, <1>12, <1>13 DEF gone
\* The frame on top returns, and no pointer has changed.
LEMMA FramesArePopped ==
  ASSUME ParseAssumption, IInv, SamePointers, Running, Running', stack # <<>>, stack' = Pop,
         pc' = "fail"
  PROVE  FramesAreSound'
<1> DEFINE n == Len(stack)
<1>1. /\ n \in Nat \ {0} /\ DOMAIN stack = 1 .. n /\ DOMAIN stack' = 1 .. n - 1
      /\ \A k \in 1 .. n - 1 : stack'[k] = stack[k]
  BY TopFrame
<1> HIDE DEF n
<1>2. ASSUME NEW k \in 1 .. n - 1
      PROVE  /\ stack'[k].head = NULL <=> stack'[k].current = NULL
             /\ stack'[k].head # NULL => /\ stack'[k].current \in Reach(items', stack'[k].head)
                                         /\ items'[stack'[k].current].next = NULL
             /\ stack'[k].head # Root /\ stack'[k].current # Root
             /\ stack'[k].item = IF k = 1 THEN Root ELSE stack'[k - 1].current
             /\ items'[stack'[k].item].child = NULL
  <2>1. k \in DOMAIN stack /\ stack'[k] = stack[k] /\ (k # 1 => stack'[k - 1] = stack[k - 1])
    <3>1. k # 1 => k - 1 \in 1 .. n - 1
      BY <1>1
    <3> QED BY <1>1, <3>1
  <2>2. /\ stack[k].item \in Item
        /\ stack[k].head # NULL => stack[k].head \in Item /\ stack[k].current \in Item
    BY <2>1, FramesAreLive DEF Live
  <2>3. stack[k].head # NULL => /\ stack[k].current \in Reach(items', stack[k].head)
                               /\ items'[stack[k].current].next = NULL
    BY <2>1, <2>2, SameReach DEF SamePointers, IInv, FramesAreSound
  <2>4. items'[stack[k].item].child = NULL
    BY <2>1, <2>2 DEF SamePointers, IInv, FramesAreSound
  <2> QED BY <2>1, <2>3, <2>4 DEF IInv, FramesAreSound
<1>3. ASSUME NEW k \in 1 .. n - 1, NEW l \in 1 .. n - 1, k # l, stack'[k].head # NULL
      PROVE  stack'[k].head # stack'[l].head /\ stack'[k].current # stack'[l].current
  <2>1. k \in DOMAIN stack /\ l \in DOMAIN stack /\ stack'[k] = stack[k] /\ stack'[l] = stack[l]
    BY <1>1
  <2> QED BY <1>3, <2>1 DEF IInv, FramesAreSound
<1> QED BY <1>1, <1>2, <1>3 DEF FramesAreSound

LEMMA FailFrameStep ==
  ASSUME ParseAssumption, IInv, FailFrame
  PROVE  IInv'
<1> DEFINE h == Top.head
<1>1. UNCHANGED result /\ pc = "fail" /\ pc' = "fail" /\ stack # <<>> /\ stack' = Pop
  BY DEF FailFrame, call
<1>2. TypeOK' /\ Running /\ Running'
  BY <1>1, FreeIsTyped DEF Running
<1>3. Held = Held' \cup ({h} \ {NULL}) /\ h \notin Held'
  BY <1>1, <1>2, TopFrame
<1>4. /\ SamePointers /\ NoFault' /\ FreshIsBlank' /\ LinksAreOwned' /\ TextsAreOwned'
      /\ ListsAreLinked' /\ HeldIsAll'
  <2>1. CASE h = NULL
    <3>1. UNCHANGED <<items, strings, fault>> /\ Held' = Held
      BY <1>3, <2>1 DEF FailFrame, DeleteIfAny
    <3>2. SamePointers /\ SameStatus
      BY <3>1 DEF SamePointers, SameStatus
    <3>3. LinksAreOwned' /\ HeldIsAll' /\ ListsAreLinked'
      BY <3>1, <3>2, SkeletonIsKept
    <3> QED BY <3>1, <3>2, <3>3
        DEF IInv, NoFault, FreshIsBlank, FreshItems, TextsAreOwned, TextsOf, Live
  <2>2. CASE h # NULL
    <3>1. h \in Held /\ Delete(h) /\ Held' = Held \ {h}
      BY <1>3, <2>2 DEF FailFrame, DeleteIfAny
    <3> HIDE DEF h
    <3>2. /\ NoFault' /\ FreshIsBlank' /\ LinksAreOwned' /\ TextsAreOwned' /\ ListsAreLinked'
          /\ SamePointers
          /\ \A d \in Held \ {h} : d \in Live' /\ \A i \in Live' : ~Points(items', i, d)
          /\ \A t \in Live' : \E d \in Held \ {h} : t \in Reach(items', d)
      BY <3>1, DeleteKeeps
    <3>3. HeldIsAll'
      BY <3>1, <3>2 DEF HeldIsAll
    <3> QED BY <3>2, <3>3
  <2> QED BY <2>1, <2>2
<1>5. FramesAreSound'
  BY <1>1, <1>2, <1>4, FramesArePopped
<1> QED BY <1>1, <1>2, <1>4, <1>5 DEF IInv, NoResultYet, Running, TargetIsBlank

\* At the end, what is not returned has been freed.
LEMMA EndStep ==
  ASSUME ParseAssumption, IInv, FailRoot \/ Finish
  PROVE  IInv'
<1>1. /\ pc \in {"fail", "after"} /\ pc' = "done" /\ stack = <<>> /\ stack' = <<>>
      /\ \/ Delete(Root) /\ UNCHANGED result
         \/ result' = Root /\ UNCHANGED <<items, strings, fault>>
  BY DEF FailRoot, Finish, call
<1>2. TypeOK' /\ Running /\ result = NULL
  BY <1>1, FreeIsTyped DEF Running, IInv, NoResultYet
<1>3. Held = {Root} /\ Root # NULL
  BY <1>1, <1>2 DEF Held, Running, ParseAssumption, Root
<1>4. FramesAreSound' /\ NoResultYet' /\ TargetIsBlank'
  BY <1>1 DEF FramesAreSound, NoResultYet, TargetIsBlank, Running
<1>5. CASE Delete(Root) /\ UNCHANGED result
  <2>1. Held' = {}
    BY <1>1, <1>2, <1>5 DEF Held
  <2>2. /\ NoFault' /\ FreshIsBlank' /\ LinksAreOwned' /\ TextsAreOwned' /\ ListsAreLinked'
        /\ \A t \in Live' : \E d \in Held \ {Root} : t \in Reach(items', d)
    BY <1>3, <1>5, DeleteKeeps
  <2>3. HeldIsAll'
    BY <1>3, <2>1, <2>2 DEF HeldIsAll
  <2> QED BY <1>2, <1>4, <2>2, <2>3 DEF IInv
<1>6. CASE result' = Root /\ UNCHANGED <<items, strings, fault>>
  <2>1. Held' = Held
    BY <1>1, <1>3, <1>6 DEF Held
  <2>2. SamePointers /\ SameStatus
    BY <1>6 DEF SamePointers, SameStatus
  <2>3. LinksAreOwned' /\ HeldIsAll' /\ ListsAreLinked'
    BY <2>1, <2>2, SkeletonIsKept
  <2> QED BY <1>2, <1>4, <1>6, <2>3
      DEF IInv, NoFault, FreshIsBlank, FreshItems, TextsAreOwned, TextsOf, Live
<1> QED BY <1>1, <1>5, <1>6

-----------------------------------------------------------------------------
(* The theorems                                                            *)

LEMMA InitIsSound ==
  ASSUME ParseAssumption, Init
  PROVE  IInv
<1>1. PICK input \in {<<>>, NULL} : InitWith(input)
  BY DEF Init
<1>2. TypeOK
  BY InitIsTyped
<1>3. /\ \A i \in Item : items[i] = Node("fresh") /\ items[i].status = "fresh"
      /\ \A s \in String : strings[s] = "fresh"
  BY <1>1 DEF InitWith, Node
<1>4. Live = {} /\ Held = {}
  BY <1>1, <1>3 DEF Live, Held, InitWith
<1>5. LinksAreOwned /\ HeldIsAll /\ TextsAreOwned /\ ListsAreLinked
  BY <1>3, <1>4 DEF LinksAreOwned, HeldIsAll, TextsAreOwned, ListsAreLinked
<1>6. FramesAreSound /\ TargetIsBlank /\ NoResultYet /\ NoFault
  BY <1>1 DEF InitWith, FramesAreSound, TargetIsBlank, NoResultYet, NoFault, Running
<1>7. FreshIsBlank
  BY <1>3 DEF FreshIsBlank, FreshItems
<1> QED BY <1>2, <1>5, <1>6, <1>7 DEF IInv

LEMMA StepIsSound ==
  ASSUME ParseAssumption, IInv, [Next]_vars
  PROVE  IInv'
<1>1. CASE Supply \/ RejectName \/ RejectValue \/ First \/ ParseColon \/ AfterElement
  BY <1>1, QuietStep
<1>2. CASE Begin
  BY <1>2, BeginStep
<1>3. CASE ParseLiteral
  BY <1>3, LiteralStep
<1>4. CASE ParseString \/ ParseName
  BY <1>4, TakeStringStep
<1>5. CASE Open("[", "Array") \/ Open("{", "Object")
  BY <1>5, OpenStep
<1>6. CASE NewElement
  BY <1>6, NewElementStep
<1>7. CASE Close
  BY <1>7, CloseStep
<1>8. CASE FailFrame
  BY <1>8, FailFrameStep
<1>9. CASE FailRoot \/ Finish
  BY <1>9, EndStep
<1>10. CASE UNCHANGED vars
  <2>1. UNCHANGED <<pos, require, items, strings, stack, pc, ep, result, fault, starved, text>>
    BY <1>10 DEF vars
  <2>2. TypeOK' /\ NoFault' /\ NoResultYet' /\ FreshIsBlank'
    BY <2>1 DEF IInv, TypeOK, NoFault, NoResultYet, FreshIsBlank, FreshItems
  <2>3. Held' = Held /\ Live' = Live /\ Target' = Target
    BY <2>1 DEF Held, Live, Target, Top
  <2>4. LinksAreOwned' /\ HeldIsAll' /\ TextsAreOwned' /\ ListsAreLinked'
    BY <2>1, <2>3 DEF IInv, LinksAreOwned, HeldIsAll, TextsAreOwned, ListsAreLinked
  <2>5. FramesAreSound' /\ TargetIsBlank'
    BY <2>1, <2>3 DEF IInv, FramesAreSound, TargetIsBlank, Running
  <2> QED BY <2>2, <2>4, <2>5 DEF IInv
<1> QED BY <1>1, <1>2, <1>3, <1>4, <1>5, <1>6, <1>7, <1>8, <1>9, <1>10 DEF Next

\* What the invariant says of fields that hold items.
LEMMA LinksAreHeldOnce ==
  ASSUME ParseAssumption, IInv
  PROVE  LET links == Fields({"next", "child"})
             linked == {Pointee(r) : r \in links}
         IN  Distinct(links) /\ Held \cap linked = {} /\ Held \cup linked = Live
<1> DEFINE links == Fields({"next", "child"})
           linked == {Pointee(r) : r \in links}
<1>1. /\ Live \subseteq Item /\ NULL \notin Item /\ Held \subseteq Live
      /\ \A i \in Live : items[i].next \in Address(Item) /\ items[i].child \in Address(Item)
  <2>1. Live \subseteq Item /\ NULL \notin Item
    BY DEF Live, ParseAssumption, Item
  <2>2. \A i \in Live : items[i].next \in Address(Item) /\ items[i].child \in Address(Item)
    BY <2>1 DEF IInv, TypeOK
  <2> QED BY <2>1, <2>2 DEF IInv, HeldIsAll
<1>2. ASSUME NEW r \in links
      PROVE  /\ r \in Live \X {"next", "child"}
             /\ Pointee(r) \in Item /\ Points(items, r[1], Pointee(r))
  <2>1. r \in Live \X {"next", "child"} /\ items[r[1]][r[2]] # NULL
    BY DEF Fields
  <2>2. CASE r[2] = "next"
    BY <1>1, <2>1, <2>2 DEF Pointee, Points, Address
  <2>3. CASE r[2] = "child"
    BY <1>1, <2>1, <2>3 DEF Pointee, Points, Address
  <2> QED BY <2>1, <2>2, <2>3
<1>3. ASSUME NEW i \in Live, NEW t \in Item, Points(items, i, t)
      PROVE  t \in linked
  <2>1. CASE items[i].next = t
    <3>1. <<i, "next">> \in links /\ Pointee(<<i, "next">>) = t
      BY <1>1, <2>1 DEF Fields, Pointee
    <3> QED BY <3>1
  <2>2. CASE items[i].child = t
    <3>1. <<i, "child">> \in links /\ Pointee(<<i, "child">>) = t
      BY <1>1, <2>2 DEF Fields, Pointee
    <3> QED BY <3>1
  <2> QED BY <1>3, <2>1, <2>2 DEF Points
<1>4. ASSUME NEW r \in links, NEW s \in links, Pointee(r) = Pointee(s)
      PROVE  r = s
  <2>1. r[1] \in Live /\ s[1] \in Live /\ r[1] = s[1]
    BY <1>2, <1>4 DEF IInv, LinksAreOwned
  <2>2. r[2] = s[2]
    <3>1. SUFFICES ASSUME r[2] # s[2] PROVE FALSE
      OBVIOUS
    <3>2. items[r[1]].next = items[r[1]].child
      BY <1>2, <1>4, <2>1, <3>1 DEF Pointee
    <3>3. Pointee(r) = NULL
      BY <1>2, <2>1, <3>2 DEF Pointee, IInv, LinksAreOwned
    <3> QED BY <1>1, <1>2, <3>3
  <2> QED BY <1>2, <2>1, <2>2
<1>5. linked \subseteq Live
  BY <1>2 DEF IInv, LinksAreOwned
<1>6. ASSUME NEW r \in links, Pointee(r) \in Held
      PROVE  FALSE
  BY <1>2, <1>6 DEF IInv, HeldIsAll
<1>7. ASSUME NEW t \in Live, t \notin Held
      PROVE  t \in linked
  <2>1. PICK d \in Held : t \in Reach(items, d)
    BY DEF IInv, HeldIsAll
  <2>2. PICK j \in Reach(items, d) : Points(items, j, t)
    BY <1>1, <1>7, <2>1, ReachHasPredecessor
  <2>3. j \in Live
    BY <2>1, <2>2, HeldTreesAreLive
  <2> HIDE DEF linked
  <2> QED BY <1>1, <1>3, <2>2, <2>3
<1>8. Distinct(links)
  BY <1>4 DEF Distinct
<1>9. Held \cap linked = {}
  BY <1>6
<1> HIDE DEF linked, links
<1>10. Held \cup linked = Live
  BY <1>1, <1>5, <1>7
<1> QED BY <1>8, <1>9, <1>10 DEF linked, links

\* And of fields that hold texts.
LEMMA TextsAreHeldOnce ==
  ASSUME ParseAssumption, IInv
  PROVE  LET texts == Fields({"valuestring", "string"})
         IN  /\ Distinct(texts)
             /\ {Pointee(r) : r \in texts} = {s \in String : strings[s] = "live"}
<1> DEFINE texts == Fields({"valuestring", "string"})
<1>1. /\ Live \subseteq Item /\ NULL \notin String
      /\ \A i \in Live : /\ items[i].valuestring \in Address(String)
                         /\ items[i].string \in Address(String)
  <2>1. Live \subseteq Item /\ NULL \notin String
    BY DEF Live, ParseAssumption, String
  <2> QED BY <2>1 DEF IInv, TypeOK
<1>2. ASSUME NEW r \in texts
      PROVE  /\ r \in Live \X {"valuestring", "string"}
             /\ Pointee(r) \in String /\ Pointee(r) \in TextsOf(items, r[1])
  <2>1. r \in Live \X {"valuestring", "string"} /\ items[r[1]][r[2]] # NULL
    BY DEF Fields
  <2>2. CASE r[2] = "valuestring"
    BY <1>1, <2>1, <2>2 DEF Pointee, TextsOf, Address
  <2>3. CASE r[2] = "string"
    BY <1>1, <2>1, <2>3 DEF Pointee, TextsOf, Address
  <2> QED BY <2>1, <2>2, <2>3
<1>3. ASSUME NEW i \in Live, NEW t \in TextsOf(items, i)
      PROVE  \E r \in texts : Pointee(r) = t
  <2>1. CASE items[i].valuestring = t
    <3>1. <<i, "valuestring">> \in texts /\ Pointee(<<i, "valuestring">>) = t
      BY <1>1, <2>1 DEF Fields, Pointee, TextsOf
    <3> QED BY <3>1
  <2>2. CASE items[i].string = t
    <3>1. <<i, "string">> \in texts /\ Pointee(<<i, "string">>) = t
      BY <1>1, <2>2 DEF Fields, Pointee, TextsOf
    <3> QED BY <3>1
  <2> QED BY <2>1, <2>2 DEF TextsOf
<1>4. ASSUME NEW r \in texts, NEW s \in texts, Pointee(r) = Pointee(s)
      PROVE  r = s
  <2>1. r[1] \in Live /\ s[1] \in Live /\ r[1] = s[1]
    BY <1>2, <1>4 DEF IInv, TextsAreOwned
  <2>2. r[2] = s[2]
    <3>1. SUFFICES ASSUME r[2] # s[2] PROVE FALSE
      OBVIOUS
    <3>2. items[r[1]].valuestring = items[r[1]].string
      BY <1>2, <1>4, <2>1, <3>1 DEF Pointee
    <3>3. Pointee(r) = NULL
      BY <1>2, <2>1, <3>2 DEF Pointee, IInv, TextsAreOwned
    <3> QED BY <1>1, <1>2, <3>3
  <2> QED BY <1>2, <2>1, <2>2
<1> HIDE DEF texts
<1>5. \A r \in texts : Pointee(r) \in String /\ strings[Pointee(r)] = "live"
  BY <1>2 DEF IInv, TextsAreOwned
<1>6. \A s \in String : strings[s] = "live" => \E r \in texts : Pointee(r) = s
  BY <1>3 DEF IInv, TextsAreOwned
<1>7. {Pointee(r) : r \in texts} = {s \in String : strings[s] = "live"}
  BY <1>5, <1>6
<1>8. Distinct(texts)
  BY <1>4 DEF Distinct
<1> QED BY <1>7, <1>8 DEF texts

\* What is live in the end hangs off what is returned.
LEMMA OnlyTheTreeAtTheEnd ==
  ASSUME ParseAssumption, IInv
  PROVE  OnlyTheTreeIsLeft
<1> DEFINE kept == IF result = NULL THEN {} ELSE Subtree(result)
<1> SUFFICES ASSUME pc = "done"
             PROVE  Live = kept /\ {s \in String : strings[s] = "live"} = UNION {Texts(i) : i \in kept}
  BY DEF OnlyTheTreeIsLeft
<1>1. Held = {result} \ {NULL}
  BY DEF Held
<1>2. Live = kept
  <2>1. CASE result = NULL
    BY <1>1, <2>1 DEF IInv, HeldIsAll
  <2>2. CASE result # NULL
    <3>1. Held = {result} /\ kept = Reach(items, result)
      BY <1>1, <2>2, SubtreeIsReach
    <3>2. \A t \in Live : t \in Reach(items, result)
      BY <3>1 DEF IInv, HeldIsAll
    <3> QED BY <3>1, <3>2, HeldTreesAreLive
  <2> QED BY <2>1, <2>2
<1> HIDE DEF kept
<1>3. \A i \in Live : Texts(i) \subseteq String
  <2>1. \A i \in Live : /\ items[i].valuestring \in Address(String)
                       /\ items[i].string \in Address(String)
    BY DEF Live, IInv, TypeOK
  <2> QED BY <2>1 DEF Texts, Address
<1>4. \A i \in Live : Texts(i) = TextsOf(items, i)
  BY DEF Texts, TextsOf
<1>5. \A s : s \in {t \in String : strings[t] = "live"} <=> \E i \in Live : s \in Texts(i)
  BY <1>3, <1>4 DEF IInv, TextsAreOwned
<1>6. {s \in String : strings[s] = "live"} = UNION {Texts(i) : i \in Live}
  BY <1>5
<1> QED BY <1>2, <1>6

\* The invariant says what EverythingIsHeldOnce says.
LEMMA HeldOnce == ParseAssumption /\ IInv => EverythingIsHeldOnce
<1> SUFFICES ASSUME ParseAssumption, IInv
             PROVE  EverythingIsHeldOnce
  OBVIOUS
<1>1. EachIsHeldOnce
  BY LinksAreHeldOnce, TextsAreHeldOnce DEF EachIsHeldOnce
<1>2. OnlyTheTreeIsLeft
  BY OnlyTheTreeAtTheEnd
<1> QED BY <1>1, <1>2 DEF IInv, EverythingIsHeldOnce

\* The parser keeps the invariant, whatever the text and whatever fails.
THEOREM Inductive ==
  ASSUME ParseAssumption
  PROVE  Spec => []IInv
<1>1. Init => IInv
  BY InitIsSound
<1>2. IInv /\ [Next]_vars => IInv'
  BY StepIsSound
<1> QED BY <1>1, <1>2, PTL DEF Spec

\* The parser's variables keep their types: the allocator hands out items and
\* strings that exist, and each frame is about an item.
THEOREM Typed ==
  ASSUME ParseAssumption
  PROVE  Spec => []TypeOK
<1>1. IInv => TypeOK
  BY DEF IInv
<1> QED BY <1>1, Inductive, PTL

\* Every item and every string that is allocated has exactly one owner at each
\* moment: a local variable of a call, or one field of an item that is owned
\* itself.  cJSON_Delete, called for the list of a call that fails and for the
\* root, frees nothing twice, and what it leaves can be walked both ways.
THEOREM OneOwner ==
  ASSUME ParseAssumption
  PROVE  Spec => []EverythingIsHeldOnce
<1>1. IInv => EverythingIsHeldOnce
  BY HeldOnce
<1> QED BY <1>1, Inductive, PTL

\* Nothing is lost: when cJSON_ParseWithOpts has returned, what it allocated
\* and did not free is the tree that it returned, and nothing if it failed.
THEOREM NothingIsLost ==
  ASSUME ParseAssumption
  PROVE  Spec => []OnlyTheTreeIsLeft
<1>1. IInv => OnlyTheTreeIsLeft
  BY OnlyTheTreeAtTheEnd
<1> QED BY <1>1, Inductive, PTL

-----------------------------------------------------------------------------
(* The text that is handed over                                           *)

\* f holds the tokens of the beginnings of s, up to the n-th symbol.
Selects(f, s, n) ==
  /\ f \in [0 .. n -> Seq(Tokens)]
  /\ f[0] = <<>>
  /\ \A k \in 1 .. n : f[k] = IF s[k] \in Tokens THEN Append(f[k - 1], s[k]) ELSE f[k - 1]

\* There are such tokens for each beginning.
LEMMA SelectionsExist ==
  ASSUME NEW s, Len(s) \in Nat, NEW n \in 0 .. Len(s)
  PROVE  \E f : Selects(f, s, n)
<1> DEFINE Without == {k \in 0 .. Len(s) : ~ \E f : Selects(f, s, k)}
<1>1. Without \in SUBSET Nat
  OBVIOUS
<1>2. CASE Without = {}
  BY <1>2
<1>3. CASE Without # {}
  <2>1. PICK x \in Without : \A y \in Without : ~ (<<y, x>> \in OpToRel(<, Nat))
    BY <1>1, <1>3, NatLessThanWellFounded, WFMin
  <2>2. \A y \in Without : ~ (y < x)
    BY <1>1, <2>1 DEF OpToRel
  <2>3. x # 0
    <3> DEFINE z == [k \in 0 .. 0 |-> <<>>]
    <3>1. <<>> \in Seq(Tokens)
      OBVIOUS
    <3>2. z \in [0 .. 0 -> Seq(Tokens)] /\ z[0] = <<>> /\ 1 .. 0 = {}
      BY <3>1
    <3> HIDE DEF z
    <3>3. Selects(z, s, 0)
      BY <3>2 DEF Selects
    <3> QED BY <3>3
  <2>4. x \in Nat /\ x - 1 \in Nat /\ x - 1 < x /\ x - 1 \in 0 .. Len(s) /\ x \in 1 .. Len(s)
    BY <1>1, <2>3
  <2>5. x - 1 \notin Without
    BY <2>2, <2>4
  <2>6. PICK f : Selects(f, s, x - 1)
    BY <2>4, <2>5
  <2> DEFINE last == IF s[x] \in Tokens THEN Append(f[x - 1], s[x]) ELSE f[x - 1]
             g == [k \in 0 .. x |-> IF k = x THEN last ELSE f[k]]
  <2>7. f \in [0 .. x - 1 -> Seq(Tokens)] /\ f[0] = <<>>
    BY <2>6 DEF Selects
  <2>8. f[x - 1] \in Seq(Tokens)
    BY <2>4, <2>7
  <2>9. last \in Seq(Tokens)
    BY <2>8
  <2> HIDE DEF last
  <2>10. g \in [0 .. x -> Seq(Tokens)] /\ g[0] = <<>>
    BY <2>4, <2>7, <2>9
  <2>11. ASSUME NEW k \in 1 .. x
         PROVE  g[k] = IF s[k] \in Tokens THEN Append(g[k - 1], s[k]) ELSE g[k - 1]
    <3>1. k - 1 \in 0 .. x /\ k \in 0 .. x /\ k - 1 # x
      BY <2>4
    <3>2. g[k - 1] = f[k - 1]
      BY <3>1
    <3>3. CASE k = x
      <4>1. g[k] = last
        BY <3>1, <3>3
      <4> QED BY <3>2, <3>3, <4>1 DEF last
    <3>4. CASE k # x
      <4>1. k \in 1 .. x - 1
        BY <2>4, <3>4
      <4>2. f[k] = IF s[k] \in Tokens THEN Append(f[k - 1], s[k]) ELSE f[k - 1]
        BY <2>6, <4>1 DEF Selects
      <4>3. g[k] = f[k]
        BY <3>1, <3>4
      <4> QED BY <3>2, <4>2, <4>3
    <3> QED BY <3>3, <3>4
  <2> HIDE DEF g
  <2>12. Selects(g, s, x)
    BY <2>10, <2>11 DEF Selects
  <2> QED BY <2>1, <2>12
<1> QED BY <1>2, <1>3

\* What is taken for a text by the parser consists of tokens.
LEMMA TokensAreTokens ==
  ASSUME NEW s, Len(s) \in Nat
  PROVE  TokensOf(s) \in Seq(Tokens)
<1> DEFINE n == Len(s)
           After(f) == [k \in 0 .. n |->
                          IF k = 0 THEN <<>>
                          ELSE IF s[k] \in Tokens THEN Append(f[k - 1], s[k]) ELSE f[k - 1]]
           tokens == CHOOSE g : g = After(g)
<1>1. n \in 0 .. n
  OBVIOUS
<1>2. PICK f : Selects(f, s, n)
  BY <1>1, SelectionsExist
<1>3. f = After(f)
  <2>1. f \in [0 .. n -> Seq(Tokens)] /\ f[0] = <<>>
    BY <1>2 DEF Selects
  <2>2. \A k \in 1 .. n :
          f[k] = IF s[k] \in Tokens THEN Append(f[k - 1], s[k]) ELSE f[k - 1]
    BY <1>2 DEF Selects
  <2>3. ASSUME NEW k \in 0 .. n
        PROVE  f[k] = IF k = 0 THEN <<>>
                      ELSE IF s[k] \in Tokens THEN Append(f[k - 1], s[k]) ELSE f[k - 1]
    <3>1. k # 0 => k \in 1 .. n
      OBVIOUS
    <3> QED BY <2>1, <2>2, <3>1
  <2> QED BY <2>1, <2>3
<1>4. TokensOf(s) = tokens[n]
  BY DEF TokensOf
<1>5. tokens = After(tokens)
  BY <1>3
<1> HIDE DEF tokens
<1> DEFINE Bad == {k \in 0 .. n : tokens[k] \notin Seq(Tokens)}
<1>6. Bad \in SUBSET Nat
  OBVIOUS
<1>7. CASE Bad = {}
  BY <1>1, <1>4, <1>7
<1>8. CASE Bad # {}
  <2>1. PICK x \in Bad : \A y \in Bad : ~ (<<y, x>> \in OpToRel(<, Nat))
    BY <1>6, <1>8, NatLessThanWellFounded, WFMin
  <2>2. \A y \in Bad : ~ (y < x)
    BY <1>6, <2>1 DEF OpToRel
  <2>3. x \in 0 .. n
    BY <2>1
  <2>4. tokens[x] = IF x = 0 THEN <<>>
                    ELSE IF s[x] \in Tokens THEN Append(tokens[x - 1], s[x]) ELSE tokens[x - 1]
    BY <1>5, <2>3
  <2>5. x # 0
    <3>1. <<>> \in Seq(Tokens)
      OBVIOUS
    <3> QED BY <2>1, <2>4, <3>1
  <2>6. x - 1 \in 0 .. n /\ x - 1 < x
    BY <2>3, <2>5
  <2>7. tokens[x - 1] \in Seq(Tokens)
    BY <2>2, <2>6
  <2>8. tokens[x] \in Seq(Tokens)
    BY <2>4, <2>5, <2>7
  <2> QED BY <2>1, <2>8
<1> QED BY <1>7, <1>8
-----------------------------------------------------------------------------
(* The printer, for all trees, all sizes of buffers, with and without a    *)
(* reallocate, whatever allocation fails: each piece of text lands in the  *)
(* room that ensure has made for it, and the printer accounts for its      *)
(* buffer.                                                                 *)

Writing == {"value", "indent", "key", "named", "colon", "printed", "more", "close"}

\* While there is a buffer, its length is known (print leaves it at zero
\* until the first call of ensure), and the offset is in front of its end.
\* Only a caller who asked for an empty buffer has no room for that.
BufferIsSound ==
  /\ \/ p.length = Len(p.buffer)
     \/ mode = "print" /\ p.length = 0 /\ p.offset = 0 /\ Len(p.buffer) = Initial
  /\ \/ p.offset < Len(p.buffer)
     \/ mode # "print" /\ size = 0 /\ p.offset = 0 /\ Len(p.buffer) = 0

\* Each loop is at an item of the tree; only the innermost may be behind its
\* last one, and then it is about to end.
CallsAreSound ==
  /\ at \in {"indent", "key", "named", "colon", "close"} => calls # <<>>
  /\ at \notin {"value"} \/ calls # <<>> => tree # NULL
  /\ at = "more" /\ calls = <<>> => mode = "print"
  /\ \A k \in DOMAIN calls :
       k # Len(calls) \/ at # "close" => calls[k].current \in DOMAIN tree

\* The block is there as long as it is used; what is freed early is printed no
\* further.
BlocksAreCounted ==
  /\ mode = "preallocated" => blocks = 0
  /\ at \in Writing /\ mode # "preallocated" => blocks = 1
  /\ at = "false" /\ mode # "preallocated" =>
       IF p.freed THEN blocks = 0
       ELSE IF p.buffer = NULL THEN blocks = 0 \/ (short /\ hooks) ELSE blocks = 1
  /\ p.freed => Printer!Textless /\ mode # "preallocated" /\ at \in {"false", "done"}

StateIsSound ==
  /\ at \in {"begin", "false", "done"} \cup Writing
  /\ at = "begin" => /\ p = [buffer |-> NULL, length |-> 0, offset |-> 0, freed |-> FALSE]
                     /\ blocks = 0 /\ calls = <<>>
  /\ mode = "print" => size = 0
  /\ at # "done" => out = NULL
  /\ at \in Writing => p.buffer # NULL /\ BufferIsSound /\ CallsAreSound
  /\ at \in {"named", "printed"} => Printer!IsString /\ p.length = Len(p.buffer)
  /\ BlocksAreCounted

PrintInv ==
  /\ Printer!TypeOK /\ size \in Sizes \cup {0}
  /\ Printer!WritesStayInside /\ Printer!OnlyTheTextIsLeft
  /\ ~crash => StateIsSound

-----------------------------------------------------------------------------
(* Facts about the operators of the model                                  *)

\* Every non-empty set of positions has a first one.
LEMMA MinIsLeast ==
  ASSUME NEW S \in SUBSET Nat, S # {}
  PROVE  Printer!Min(S) \in S /\ \A y \in S : Printer!Min(S) <= y
<1>1. PICK x \in S : \A y \in S : ~ (<<y, x>> \in OpToRel(<, Nat))
  BY NatLessThanWellFounded, WFMin
<1>2. \A y \in S : ~ (y < x)
  BY <1>1 DEF OpToRel
<1>3. \A y \in S : x <= y
  BY <1>2
<1> QED BY <1>3 DEF Printer!Min

Assumptions == Printer!TreeAssumption /\ Printer!PrintAssumption

PrintBuffers ==
  [buffer : Seq(Printer!Byte) \cup {NULL}, length : 0 .. INT_MAX, offset : 0 .. INT_MAX,
   freed : BOOLEAN]

PrintFrames == [type : {"Array", "Object"}, current : Nat \cup {NULL}]

LEMMA Basics ==
  ASSUME Assumptions, PrintInv
  PROVE  /\ p \in PrintBuffers /\ p.buffer \in Seq(Printer!Byte) \cup {NULL}
         /\ p.length \in 0 .. INT_MAX /\ p.offset \in 0 .. INT_MAX /\ p.freed \in BOOLEAN
         /\ p.buffer # NULL => p.buffer \in Seq(Printer!Byte) /\ Len(p.buffer) \in 0 .. INT_MAX
         /\ INT_MAX \in Nat /\ calls \in Seq(PrintFrames) /\ NULL \notin Nat
         /\ NULL \notin Seq(Printer!Byte)
<1>1. /\ p \in PrintBuffers /\ calls \in Seq(PrintFrames)
      /\ p.buffer # NULL => Len(p.buffer) <= INT_MAX
  BY DEF PrintInv, Printer!TypeOK, PrintBuffers, PrintFrames
<1>2. INT_MAX \in Nat /\ NULL \notin Nat /\ NULL \notin Seq(Printer!Byte)
  BY DEF Assumptions, Printer!PrintAssumption
<1>3. /\ p.buffer \in Seq(Printer!Byte) \cup {NULL} /\ p.length \in 0 .. INT_MAX
      /\ p.offset \in 0 .. INT_MAX /\ p.freed \in BOOLEAN
  BY <1>1 DEF PrintBuffers
<1>4. p.buffer # NULL => p.buffer \in Seq(Printer!Byte) /\ Len(p.buffer) \in 0 .. INT_MAX
  BY <1>1, <1>2, <1>3
<1> QED BY <1>1, <1>2, <1>3, <1>4

\* A printbuffer with other contents is one.
LEMMA BuffersAreClosed ==
  ASSUME NEW q \in PrintBuffers, NEW b \in Seq(Printer!Byte) \cup {NULL},
         NEW l \in 0 .. INT_MAX, NEW o \in 0 .. INT_MAX
  PROVE  /\ [q EXCEPT !.length = l, !.buffer = b] \in PrintBuffers
         /\ [q EXCEPT !.buffer = b, !.length = l] \in PrintBuffers
         /\ [q EXCEPT !.offset = o, !.buffer = b] \in PrintBuffers
         /\ [q EXCEPT !.offset = o] \in PrintBuffers
         /\ [q EXCEPT !.freed = TRUE] \in PrintBuffers
<1>1. [q EXCEPT !.length = l, !.buffer = b] \in PrintBuffers
  BY DEF PrintBuffers
<1>2. [q EXCEPT !.buffer = b, !.length = l] \in PrintBuffers
  BY DEF PrintBuffers
<1>3. [q EXCEPT !.offset = o, !.buffer = b] \in PrintBuffers
  BY DEF PrintBuffers
<1>4. [q EXCEPT !.offset = o] \in PrintBuffers
  BY DEF PrintBuffers
<1>5. [q EXCEPT !.freed = TRUE] \in PrintBuffers
  BY DEF PrintBuffers
<1> QED BY <1>1, <1>2, <1>3, <1>4, <1>5

\* What a tree holds.
LEMMA ItemsOfTrees ==
  ASSUME Assumptions, NEW t \in Trees
  PROVE  /\ 1 \in DOMAIN t /\ DOMAIN t \subseteq Nat
         /\ \A i \in DOMAIN t :
              /\ t[i] \in Printer!Nodes
              /\ t[i].child \in DOMAIN t \cup {NULL} /\ t[i].next \in DOMAIN t \cup {NULL}
              /\ t[i].type = "Number" => t[i].text # NULL
<1>1. t \in Seq(Printer!Nodes) /\ t # <<>>
  BY DEF Assumptions, Printer!TreeAssumption
<1>2. Len(t) \in Nat \ {0} /\ DOMAIN t = 1 .. Len(t)
  BY <1>1
<1>3. ASSUME NEW i \in DOMAIN t
      PROVE  /\ t[i] \in Printer!Nodes
             /\ t[i].child \in DOMAIN t \cup {NULL} /\ t[i].next \in DOMAIN t \cup {NULL}
             /\ t[i].type = "Number" => t[i].text # NULL
  <2>1. {t[i].child, t[i].next} \subseteq i + 1 .. Len(t) \cup {NULL}
    BY DEF Assumptions, Printer!TreeAssumption
  <2>2. i + 1 .. Len(t) \subseteq DOMAIN t
    BY <1>2
  <2> QED BY <1>1, <2>1, <2>2 DEF Assumptions, Printer!TreeAssumption
<1> QED BY <1>2, <1>3

\* The item that is printed is one of the tree.
LEMMA ItemIsThere ==
  ASSUME Assumptions, PrintInv, ~crash, at \in Writing \ {"close"}, tree # NULL
  PROVE  /\ Printer!Item \in Printer!Nodes
         /\ Printer!Item.child \in DOMAIN tree \cup {NULL}
         /\ Printer!Item.next \in DOMAIN tree \cup {NULL}
         /\ Printer!Item.type = "Number" => Printer!Item.text # NULL
         /\ \E i \in DOMAIN tree : Printer!Item = tree[i]
<1>1. tree \in Trees /\ calls \in Seq(PrintFrames) /\ CallsAreSound
  BY DEF PrintInv, Printer!TypeOK, PrintFrames, StateIsSound
<1>2. CASE calls = <<>>
  <2>1. Printer!Item = tree[1]
    BY <1>2 DEF Printer!Item
  <2> QED BY <1>1, <2>1, ItemsOfTrees
<1>3. CASE calls # <<>>
  <2>1. Len(calls) \in DOMAIN calls
    BY <1>1, <1>3
  <2>2. Printer!Item = tree[calls[Len(calls)].current] /\ calls[Len(calls)].current \in DOMAIN tree
    BY <1>1, <1>3, <2>1 DEF Printer!Item, Printer!Top, CallsAreSound
  <2> QED BY <1>1, <2>2, ItemsOfTrees
<1> QED BY <1>2, <1>3

\* Room that has been doubled holds what is needed.
LEMMA NewSizeIsEnough ==
  ASSUME Assumptions, PrintInv, NEW n \in Nat, Printer!Needed(n) <= INT_MAX
  PROVE  /\ Printer!NewSize(n) \in 1 .. INT_MAX /\ Printer!Needed(n) <= Printer!NewSize(n)
         /\ Printer!Needed(n) = n + p.offset + 1
<1>1. p.offset \in Nat /\ INT_MAX \in Nat
  BY Basics
<1> QED BY <1>1 DEF Printer!Needed, Printer!NewSize

\* The buffer that is grown is typed and as long as its length says.
LEMMA GrownIsTyped ==
  ASSUME Assumptions, PrintInv, NEW n \in Nat, Printer!Needed(n) <= INT_MAX, p.buffer # NULL
  PROVE  /\ Printer!Grown(n) \in PrintBuffers /\ Printer!Grown(n).buffer \in Seq(Printer!Byte)
         /\ Len(Printer!Grown(n).buffer) = Printer!NewSize(n)
         /\ Printer!Grown(n).length = Printer!NewSize(n)
         /\ Printer!Grown(n).offset = p.offset /\ Printer!Grown(n).freed = p.freed
<1>1. p \in PrintBuffers /\ p.buffer \in Seq(Printer!Byte) /\ INT_MAX \in Nat
  BY Basics
<1>2. Printer!NewSize(n) \in 1 .. INT_MAX
  BY NewSizeIsEnough
<1> DEFINE b == [i \in 1 .. Printer!NewSize(n) |->
                   IF i <= Printer!Kept /\ i <= Len(p.buffer) THEN p.buffer[i] ELSE JUNK]
<1>3. b \in Seq(Printer!Byte) /\ Len(b) = Printer!NewSize(n)
  <2>1. \A i \in 1 .. Printer!NewSize(n) :
          (IF i <= Printer!Kept /\ i <= Len(p.buffer) THEN p.buffer[i] ELSE JUNK) \in Printer!Byte
    <3> TAKE i \in 1 .. Printer!NewSize(n)
    <3>1. JUNK \in Printer!Byte
      BY DEF Printer!Byte
    <3>2. i <= Len(p.buffer) => p.buffer[i] \in Printer!Byte
      BY <1>1, <1>2
    <3> QED BY <3>1, <3>2
  <2> QED BY <1>2, <2>1
<1>4. Printer!Grown(n) = [p EXCEPT !.length = Printer!NewSize(n), !.buffer = b]
  BY DEF Printer!Grown
<1> HIDE DEF b
<1>5. /\ Printer!Grown(n).buffer = b /\ Printer!Grown(n).length = Printer!NewSize(n)
      /\ Printer!Grown(n).offset = p.offset /\ Printer!Grown(n).freed = p.freed
  BY <1>1, <1>4 DEF PrintBuffers
<1>6. Printer!Grown(n) \in PrintBuffers
  <2>1. /\ b \in Seq(Printer!Byte) \cup {NULL} /\ Printer!NewSize(n) \in 0 .. INT_MAX
        /\ p.offset \in 0 .. INT_MAX
    BY <1>1, <1>2, <1>3, Basics
  <2>2. [p EXCEPT !.length = Printer!NewSize(n), !.buffer = b] \in PrintBuffers
    BY <1>1, <2>1, BuffersAreClosed
  <2> QED BY <1>4, <2>2
<1> QED BY <1>3, <1>5, <1>6

-----------------------------------------------------------------------------
(* What ensure and its callers do                                          *)

\* The answers of ensure: it refuses, there is room, the buffer has been
\* grown, or there is no memory, with and without a reallocate.
EnsureCases(n, e) ==
  \/ /\ e.answers = FALSE /\ e.p = p /\ e.frees = 0 /\ e.fails = FALSE /\ e.bad = FALSE
  \/ /\ e.answers = TRUE /\ e.p = p /\ e.frees = 0 /\ e.fails = FALSE /\ e.bad = FALSE
     /\ Printer!Needed(n) <= p.length /\ Printer!Needed(n) <= INT_MAX
  \/ /\ e.answers = TRUE /\ e.p = Printer!Grown(n) /\ e.frees = 0 /\ e.fails = FALSE
     /\ e.bad = (~hooks /\ Printer!Kept > Len(p.buffer))
     /\ mode # "preallocated" /\ Printer!Needed(n) <= INT_MAX
  \/ /\ hooks /\ e.answers \in BOOLEAN /\ (e.answers <=> p.offset > 0)
     /\ e.p = [p EXCEPT !.buffer = NULL, !.length = Printer!NewSize(n)]
     /\ e.frees = 0 /\ e.fails = TRUE /\ e.bad = FALSE
     /\ mode # "preallocated" /\ Printer!Needed(n) <= INT_MAX
  \/ /\ ~hooks /\ e.answers = FALSE /\ e.p = [p EXCEPT !.buffer = NULL, !.length = 0]
     /\ e.frees = 1 /\ e.fails = TRUE /\ e.bad = FALSE
     /\ mode # "preallocated"

LEMMA EnsureIsOne ==
  ASSUME Assumptions, PrintInv, p.buffer # NULL, NEW n \in Nat, NEW e \in Printer!Ensure(n)
  PROVE  EnsureCases(n, e)
<1>1. p.length \in 0 .. INT_MAX /\ p.offset \in 0 .. INT_MAX /\ INT_MAX \in Nat
  BY Basics
<1>2. Printer!Needed(n) \in Nat
  BY <1>1 DEF Printer!Needed
<1>3. CASE Printer!Refuses(n)
  BY <1>3 DEF Printer!Ensure, EnsureCases
<1>4. CASE ~Printer!Refuses(n) /\ Printer!Needed(n) <= p.length
  BY <1>1, <1>2, <1>4 DEF Printer!Ensure, EnsureCases
<1>5. CASE ~Printer!Refuses(n) /\ ~(Printer!Needed(n) <= p.length)
  <2>1. mode # "preallocated" /\ Printer!Needed(n) <= INT_MAX
    BY <1>1, <1>2, <1>5 DEF Printer!Refuses
  <2>2. CASE hooks
    <3> DEFINE lost == [p |-> [p EXCEPT !.buffer = NULL, !.length = Printer!NewSize(n)],
                        answers |-> p.offset > 0, frees |-> 0, fails |-> TRUE, bad |-> FALSE]
    <3>1. CASE e = lost
      <4>1. /\ e.p = [p EXCEPT !.buffer = NULL, !.length = Printer!NewSize(n)]
            /\ e.frees = 0 /\ e.fails = TRUE /\ e.bad = FALSE
        BY <3>1
      <4>2. e.answers \in BOOLEAN /\ (e.answers <=> p.offset > 0)
        <5>1. e.answers = (p.offset > 0)
          BY <3>1, Zenon
        <5>2. (p.offset > 0) \in BOOLEAN
          OBVIOUS
        <5> QED BY <5>1, <5>2, Zenon
      <4> QED BY <2>1, <2>2, <4>1, <4>2 DEF EnsureCases
    <3>2. CASE e # lost
      <4>1. e \in {[p |-> Printer!Grown(n), answers |-> TRUE, frees |-> 0, fails |-> FALSE,
                    bad |-> ~hooks /\ Printer!Kept > Len(p.buffer)], lost}
        BY <1>5, <2>2 DEF Printer!Ensure
      <4> QED BY <2>1, <3>2, <4>1 DEF EnsureCases
    <3> QED BY <3>1, <3>2
  <2>3. CASE ~hooks
    BY <1>5, <2>1, <2>3 DEF Printer!Ensure, EnsureCases
  <2> QED BY <2>2, <2>3
<1> QED BY <1>3, <1>4, <1>5

\* A buffer after symbols have been written behind the offset o.
Written(b, o, symbols) ==
  [i \in DOMAIN b |-> IF i - o \in DOMAIN symbols THEN symbols[i - o] ELSE b[i]]

LEMMA WrittenIsThere ==
  ASSUME NEW b \in Seq(Printer!Byte), NEW symbols \in Seq(Printer!Byte), NEW o \in Nat
  PROVE  /\ Written(b, o, symbols) \in Seq(Printer!Byte) /\ Len(Written(b, o, symbols)) = Len(b)
         /\ o + Len(symbols) <= Len(b) =>
              \A i \in 1 .. Len(symbols) : Written(b, o, symbols)[o + i] = symbols[i]
<1>1. Len(b) \in Nat /\ DOMAIN b = 1 .. Len(b) /\ DOMAIN symbols = 1 .. Len(symbols)
      /\ Len(symbols) \in Nat
  OBVIOUS
<1>2. \A i \in 1 .. Len(b) :
        (IF i - o \in DOMAIN symbols THEN symbols[i - o] ELSE b[i]) \in Printer!Byte
  BY <1>1
<1>3. Written(b, o, symbols) \in Seq(Printer!Byte) /\ Len(Written(b, o, symbols)) = Len(b)
  BY <1>1, <1>2 DEF Written
<1>4. ASSUME o + Len(symbols) <= Len(b), NEW i \in 1 .. Len(symbols)
      PROVE  Written(b, o, symbols)[o + i] = symbols[i]
  <2>1. o + i \in DOMAIN b /\ (o + i) - o = i
    BY <1>1, <1>4
  <2> QED BY <1>1, <2>1 DEF Written
<1> QED BY <1>3, <1>4

\* Something has been written where there was room for it.
Success(symbols, advance, frames, step) ==
  /\ calls' = frames /\ at' = step /\ blocks' = blocks
  /\ p'.buffer # NULL /\ p'.offset = p.offset + advance
  /\ p'.offset < Len(p'.buffer) /\ p'.length = Len(p'.buffer)
  /\ p.offset + Len(symbols) <= Len(p'.buffer)
  /\ \A i \in 1 .. Len(symbols) : p'.buffer[p.offset + i] = symbols[i]

\* Nothing has, and the printer gives up.
Failure ==
  /\ UNCHANGED calls /\ at' = "false"
  /\ mode = "preallocated" => blocks' = 0
  /\ mode # "preallocated" =>
       IF p'.buffer = NULL THEN blocks' = 0 \/ (short' /\ hooks) ELSE blocks' = 1

Excuse == (short' /\ hooks) \/ (~hooks /\ mode = "buffered" /\ size = 0)

\* Room for n more bytes and a NUL.
LEMMA RoomIsEnough ==
  ASSUME NEW n \in Nat, NEW o \in Nat, NEW l \in Nat, NEW length \in Nat,
         NEW advance \in 0 .. n, l <= n + 1, n + o + 1 <= length
  PROVE  o + advance < length /\ o + l <= length
OBVIOUS

LEMMA EmitEffect ==
  ASSUME Assumptions, PrintInv, ~crash, at \in Writing,
         NEW n \in Nat, NEW symbols \in Seq(Printer!Byte), Len(symbols) <= n + 1,
         NEW advance \in 0 .. n,
         NEW frames, NEW step, Printer!Emit(n, symbols, advance, frames, step)
  PROVE  /\ p' \in PrintBuffers /\ (p'.buffer # NULL => Len(p'.buffer) <= INT_MAX)
         /\ p'.freed = FALSE
         /\ \/ calls' = frames /\ at' = step
            \/ UNCHANGED calls /\ at' = "false"
         /\ short' \in BOOLEAN /\ crash' \in BOOLEAN /\ blocks' \in 0 .. 1
         /\ \/ crash' /\ Excuse
            \/ ~crash' /\ (Failure \/ Success(symbols, advance, frames, step))
<1>1. /\ p \in PrintBuffers /\ p.buffer \in Seq(Printer!Byte) /\ Len(p.buffer) \in 0 .. INT_MAX
      /\ p.length \in 0 .. INT_MAX /\ p.offset \in 0 .. INT_MAX /\ INT_MAX \in Nat
      /\ NULL \notin Seq(Printer!Byte) /\ p.freed \in BOOLEAN
      /\ p.buffer # NULL /\ BufferIsSound /\ BlocksAreCounted
  BY Basics DEF PrintInv, StateIsSound
<1>2. /\ p.freed = FALSE
      /\ blocks = IF mode = "preallocated" THEN 0 ELSE 1
  BY <1>1 DEF BlocksAreCounted, Writing
<1>3. PICK e \in Printer!Ensure(n) :
        /\ blocks' = blocks - e.frees
        /\ short' = (short \/ e.fails)
        /\ IF e.answers
             THEN /\ p' = [e.p EXCEPT !.offset = @ + advance,
                            !.buffer = IF @ = NULL THEN NULL ELSE Written(@, p.offset, symbols)]
                  /\ crash' = (e.bad \/ e.p.buffer = NULL
                                     \/ p.offset + Len(symbols) > Len(e.p.buffer))
                  /\ calls' = frames /\ at' = step
             ELSE /\ p' = e.p /\ crash' = e.bad
                  /\ at' = "false" /\ UNCHANGED calls
  BY DEF Printer!Emit, Written
<1>4. EnsureCases(n, e)
  BY <1>1, EnsureIsOne
<1>5. short \in BOOLEAN /\ hooks \in BOOLEAN
  BY DEF PrintInv, Printer!TypeOK
<1>6. Printer!Needed(n) = n + p.offset + 1
  BY DEF Printer!Needed
<1>7. /\ Len(symbols) \in Nat /\ p.offset + advance \in Nat
      /\ mode # "preallocated" => blocks = 1
      /\ mode = "preallocated" => blocks = 0
  BY <1>1, <1>2
\* A buffer with room for what is needed: the symbols are written to it.
<1>8. ASSUME NEW q \in PrintBuffers, NEW b \in Seq(Printer!Byte), q.buffer = b, q.offset = p.offset,
             q.freed = FALSE, q.length = Len(b), Len(b) <= INT_MAX, Printer!Needed(n) <= Len(b),
             p' = [q EXCEPT !.offset = @ + advance,
                     !.buffer = IF @ = NULL THEN NULL ELSE Written(@, p.offset, symbols)]
      PROVE  /\ p' \in PrintBuffers /\ p'.buffer # NULL /\ p'.buffer \in Seq(Printer!Byte)
             /\ Len(p'.buffer) = Len(b) /\ Len(p'.buffer) <= INT_MAX /\ p'.freed = FALSE
             /\ p'.offset = p.offset + advance /\ p'.offset < Len(p'.buffer)
             /\ p'.length = Len(p'.buffer) /\ p.offset + Len(symbols) <= Len(p'.buffer)
             /\ \A i \in 1 .. Len(symbols) : p'.buffer[p.offset + i] = symbols[i]
  <2> DEFINE w == Written(b, p.offset, symbols)
  <2>1. b # NULL /\ Len(b) \in Nat
    BY <1>1
  <2>2. p' = [q EXCEPT !.offset = p.offset + advance, !.buffer = w]
    BY <1>8, <2>1
  <2>3. p.offset + advance < Len(b) /\ p.offset + Len(symbols) <= Len(b)
    <3>1. p.offset \in Nat /\ n + p.offset + 1 <= Len(b)
      BY <1>1, <1>6, <1>8
    <3> QED BY <1>7, <2>1, <3>1, RoomIsEnough
  <2>4. /\ w \in Seq(Printer!Byte) /\ Len(w) = Len(b)
        /\ \A i \in 1 .. Len(symbols) : w[p.offset + i] = symbols[i]
    <3>1. p.offset \in Nat
      BY <1>1
    <3> QED BY <2>3, <3>1, WrittenIsThere
  <2>5. p.offset + advance \in 0 .. INT_MAX /\ w \in Seq(Printer!Byte) \cup {NULL} /\ w # NULL
    BY <1>1, <1>7, <1>8, <2>1, <2>3, <2>4
  <2> HIDE DEF w
  <2>6. /\ p'.buffer = w /\ p'.offset = p.offset + advance
        /\ p'.length = q.length /\ p'.freed = q.freed
    BY <2>2 DEF PrintBuffers
  <2>7. [q EXCEPT !.offset = p.offset + advance, !.buffer = w] \in PrintBuffers
    BY <1>1, <2>5, BuffersAreClosed
  <2> QED BY <1>8, <2>2, <2>3, <2>4, <2>5, <2>6, <2>7
\* Refused: the buffer stays as it is.
<1>9. CASE e.answers = FALSE /\ e.p = p /\ e.frees = 0 /\ e.fails = FALSE /\ e.bad = FALSE
  <2>1. p' = p /\ blocks' = blocks /\ at' = "false" /\ UNCHANGED calls
    BY <1>2, <1>3, <1>9
  <2>2. short' \in BOOLEAN
    BY <1>3, <1>5, <1>9
  <2>3. crash' = FALSE
    BY <1>3, <1>9
  <2>4. Failure
    BY <1>1, <1>7, <2>1 DEF Failure
  <2>5. /\ p' \in PrintBuffers /\ (p'.buffer # NULL => Len(p'.buffer) <= INT_MAX)
        /\ p'.freed = FALSE /\ blocks' \in 0 .. 1
    BY <1>1, <1>2, <2>1
  <2> QED BY <2>1, <2>2, <2>3, <2>4, <2>5
\* There is room.
<1>10. CASE /\ e.answers = TRUE /\ e.p = p /\ e.frees = 0 /\ e.fails = FALSE /\ e.bad = FALSE
            /\ Printer!Needed(n) <= p.length /\ Printer!Needed(n) <= INT_MAX
  <2>1. /\ p' = [p EXCEPT !.offset = @ + advance,
                   !.buffer = IF @ = NULL THEN NULL ELSE Written(@, p.offset, symbols)]
        /\ blocks' = blocks /\ at' = step /\ calls' = frames
    BY <1>2, <1>3, <1>10
  <2>2. p.length = Len(p.buffer) /\ Len(p.buffer) <= INT_MAX /\ Printer!Needed(n) <= Len(p.buffer)
    BY <1>1, <1>6, <1>10 DEF BufferIsSound
  <2>3. /\ p' \in PrintBuffers /\ p'.buffer # NULL /\ p'.buffer \in Seq(Printer!Byte)
        /\ Len(p'.buffer) = Len(p.buffer) /\ Len(p'.buffer) <= INT_MAX /\ p'.freed = FALSE
        /\ p'.offset = p.offset + advance /\ p'.offset < Len(p'.buffer)
        /\ p'.length = Len(p'.buffer) /\ p.offset + Len(symbols) <= Len(p'.buffer)
        /\ \A i \in 1 .. Len(symbols) : p'.buffer[p.offset + i] = symbols[i]
    BY <1>1, <1>2, <1>8, <2>1, <2>2
  <2>4. short' \in BOOLEAN
    BY <1>3, <1>5, <1>10
  <2>5. crash' = FALSE
    <3>1. crash' = (p.buffer = NULL \/ p.offset + Len(symbols) > Len(p.buffer))
      BY <1>3, <1>10
    <3>2. ~ (p.offset + Len(symbols) > Len(p.buffer))
      BY <1>1, <1>7, <2>3
    <3> QED BY <1>1, <3>1, <3>2
  <2>6. Success(symbols, advance, frames, step)
    BY <2>1, <2>3 DEF Success
  <2>7. blocks' \in 0 .. 1
    BY <1>7, <2>1
  <2> QED BY <2>1, <2>3, <2>4, <2>5, <2>6, <2>7
\* The buffer has been grown.
<1>11. CASE /\ e.answers = TRUE /\ e.p = Printer!Grown(n) /\ e.frees = 0 /\ e.fails = FALSE
            /\ e.bad = (~hooks /\ Printer!Kept > Len(p.buffer))
            /\ mode # "preallocated" /\ Printer!Needed(n) <= INT_MAX
  <2>1. /\ p' = [Printer!Grown(n) EXCEPT !.offset = @ + advance,
                   !.buffer = IF @ = NULL THEN NULL ELSE Written(@, p.offset, symbols)]
        /\ blocks' = blocks /\ at' = step /\ calls' = frames
    BY <1>2, <1>3, <1>11
  <2>2. /\ Printer!Grown(n) \in PrintBuffers /\ Printer!Grown(n).buffer \in Seq(Printer!Byte)
        /\ Len(Printer!Grown(n).buffer) = Printer!NewSize(n)
        /\ Printer!Grown(n).length = Printer!NewSize(n)
        /\ Printer!Grown(n).offset = p.offset /\ Printer!Grown(n).freed = p.freed
    BY <1>1, <1>11, GrownIsTyped
  <2>3. Printer!NewSize(n) \in 1 .. INT_MAX /\ Printer!Needed(n) <= Printer!NewSize(n)
    BY <1>11, NewSizeIsEnough
  <2>4. Printer!NewSize(n) <= INT_MAX
    BY <1>1, <2>3
  <2>5. /\ p' \in PrintBuffers /\ p'.buffer # NULL /\ p'.buffer \in Seq(Printer!Byte)
        /\ Len(p'.buffer) = Len(Printer!Grown(n).buffer) /\ Len(p'.buffer) <= INT_MAX
        /\ p'.freed = FALSE
        /\ p'.offset = p.offset + advance /\ p'.offset < Len(p'.buffer)
        /\ p'.length = Len(p'.buffer) /\ p.offset + Len(symbols) <= Len(p'.buffer)
        /\ \A i \in 1 .. Len(symbols) : p'.buffer[p.offset + i] = symbols[i]
    BY <1>2, <1>8, <2>1, <2>2, <2>3, <2>4
  <2>6. short' \in BOOLEAN
    BY <1>3, <1>5, <1>11
  <2>7. Success(symbols, advance, frames, step)
    BY <2>1, <2>5 DEF Success
  <2>8. crash' = (~hooks /\ Printer!Kept > Len(p.buffer))
    <3>1. crash' = (e.bad \/ Printer!Grown(n).buffer = NULL
                          \/ p.offset + Len(symbols) > Len(Printer!Grown(n).buffer))
      BY <1>3, <1>11
    <3>2. /\ ~ (p.offset + Len(symbols) > Len(Printer!Grown(n).buffer))
          /\ Printer!Grown(n).buffer # NULL
      BY <1>1, <1>7, <2>2, <2>3, <2>5
    <3>3. e.bad = (~hooks /\ Printer!Kept > Len(p.buffer))
      BY <1>11
    <3> QED BY <3>1, <3>2, <3>3
  <2>9. CASE ~hooks /\ Printer!Kept > Len(p.buffer)
    <3>1. p.offset + 1 > Len(p.buffer)
      BY <2>9 DEF Printer!Kept
    <3>2. mode = "buffered" /\ size = 0
      BY <1>1, <1>11, <3>1 DEF BufferIsSound, PrintInv, Printer!TypeOK
    <3>3. Excuse
      BY <2>9, <3>2 DEF Excuse
    <3>4. crash' = TRUE
      BY <2>8, <2>9
    <3>5. blocks' \in 0 .. 1
      BY <1>7, <2>1
    <3> QED BY <2>1, <2>5, <2>6, <3>3, <3>4, <3>5
  <2>10. CASE ~ (~hooks /\ Printer!Kept > Len(p.buffer))
    <3>1. crash' = FALSE
      BY <2>8, <2>10
    <3>2. blocks' \in 0 .. 1
      BY <1>7, <2>1
    <3> QED BY <2>1, <2>5, <2>6, <2>7, <3>1, <3>2
  <2> QED BY <2>9, <2>10
\* reallocate has failed: the offset is the answer.
<1>12. CASE /\ hooks /\ e.answers \in BOOLEAN /\ (e.answers <=> p.offset > 0)
            /\ e.p = [p EXCEPT !.buffer = NULL, !.length = Printer!NewSize(n)]
            /\ e.frees = 0 /\ e.fails = TRUE /\ e.bad = FALSE
            /\ mode # "preallocated" /\ Printer!Needed(n) <= INT_MAX
  <2>1. Printer!NewSize(n) \in 0 .. INT_MAX /\ p.offset + advance \in 0 .. INT_MAX
    BY <1>1, <1>6, <1>7, <1>12, NewSizeIsEnough
  <2>2. [p EXCEPT !.buffer = NULL, !.length = Printer!NewSize(n)] \in PrintBuffers
    BY <1>1, <2>1, BuffersAreClosed
  <2>3. e.p \in PrintBuffers /\ e.p.buffer = NULL /\ e.p.freed = FALSE /\ e.p.offset = p.offset
    BY <1>1, <1>2, <1>12, <2>2 DEF PrintBuffers
  <2>4. short' = TRUE
    BY <1>3, <1>12
  <2>7. blocks' = blocks /\ blocks' = 1
    BY <1>2, <1>3, <1>7, <1>12
  <2>8. blocks' \in 0 .. 1
    BY <2>7
  <2>5. CASE p.offset > 0
    <3>1. e.answers = TRUE
      BY <1>12, <2>5
    <3>2. /\ p' = [e.p EXCEPT !.offset = p.offset + advance, !.buffer = NULL]
          /\ at' = step /\ calls' = frames
      BY <1>3, <2>3, <3>1
    <3>3. [e.p EXCEPT !.offset = p.offset + advance, !.buffer = NULL] \in PrintBuffers
      BY <2>1, <2>3, BuffersAreClosed
    <3>4. p'.buffer = NULL /\ p'.freed = FALSE
      BY <2>3, <3>2 DEF PrintBuffers
    <3>5. crash' = TRUE
      BY <1>3, <2>3, <3>1
    <3>6. Excuse
      BY <1>12, <2>4 DEF Excuse
    <3> QED BY <2>4, <2>8, <3>2, <3>3, <3>4, <3>5, <3>6
  <2>6. CASE ~ (p.offset > 0)
    <3>1. e.answers = FALSE
      BY <1>12, <2>6
    <3>2. p' = e.p /\ at' = "false" /\ UNCHANGED calls
      BY <1>3, <3>1
    <3>3. crash' = FALSE
      BY <1>3, <1>12, <3>1
    <3>4. Failure
      BY <1>12, <2>3, <2>4, <3>2 DEF Failure
    <3> QED BY <2>3, <2>4, <2>8, <3>2, <3>3, <3>4
  <2> QED BY <2>5, <2>6
\* There is no memory for a new buffer: the old one is freed.
<1>13. CASE /\ ~hooks /\ e.answers = FALSE /\ e.p = [p EXCEPT !.buffer = NULL, !.length = 0]
            /\ e.frees = 1 /\ e.fails = TRUE /\ e.bad = FALSE
            /\ mode # "preallocated"
  <2>1. [p EXCEPT !.buffer = NULL, !.length = 0] \in PrintBuffers
    <3>1. NULL \in Seq(Printer!Byte) \cup {NULL} /\ 0 \in 0 .. INT_MAX
      BY <1>1
    <3> QED BY <1>1, <3>1, BuffersAreClosed
  <2>2. e.p \in PrintBuffers /\ e.p.buffer = NULL /\ e.p.freed = FALSE
    BY <1>1, <1>2, <1>13, <2>1 DEF PrintBuffers
  <2>3. p' = e.p /\ at' = "false" /\ UNCHANGED calls
    BY <1>3, <1>13
  <2>4. short' = TRUE
    BY <1>3, <1>13
  <2>5. crash' = FALSE
    BY <1>3, <1>13
  <2>6. blocks' = 0
    BY <1>3, <1>7, <1>13
  <2>7. Failure
    BY <1>13, <2>2, <2>3, <2>6 DEF Failure
  <2>8. blocks' \in 0 .. 1
    BY <2>6
  <2> QED BY <2>2, <2>3, <2>4, <2>5, <2>7, <2>8
<1> QED BY <1>4, <1>9, <1>10, <1>11, <1>12, <1>13 DEF EnsureCases

\* Where a text and its NUL have been written, update_offset finds a string.
LEMMA StringIsThere ==
  ASSUME Assumptions, PrintInv, p' \in PrintBuffers,
         NEW s \in Seq(Symbols), NEW advance \in {0, Len(s)}, NEW frames, NEW step,
         Success(Printer!Terminated(s), advance, frames, step)
  PROVE  Printer!IsString'
<1>1. /\ p.offset \in Nat /\ Len(s) \in Nat /\ p'.buffer \in Seq(Printer!Byte)
      /\ p'.offset = p.offset + advance
      /\ p'.buffer # NULL
  BY Basics DEF Success, PrintBuffers
<1>2. Len(Printer!Terminated(s)) = Len(s) + 1 /\ Printer!Terminated(s)[Len(s) + 1] = NUL
      /\ \A i \in 1 .. Len(s) : Printer!Terminated(s)[i] = s[i]
  BY DEF Printer!Terminated
<1>3. /\ Len(p'.buffer) \in Nat /\ p.offset + Len(s) + 1 <= Len(p'.buffer)
      /\ \A i \in 1 .. Len(s) + 1 : p'.buffer[p.offset + i] = Printer!Terminated(s)[i]
  BY <1>1, <1>2 DEF Success
<1>4. \A i \in 1 .. Len(s) + 1 : p'.buffer[p.offset + i] # JUNK
  <2> TAKE i \in 1 .. Len(s) + 1
  <2>1. CASE i = Len(s) + 1
    BY <1>2, <1>3, <2>1 DEF Assumptions, Printer!PrintAssumption
  <2>2. CASE i # Len(s) + 1
    <3>1. i \in 1 .. Len(s)
      BY <1>1, <2>2
    <3>2. s[i] \in Symbols
      BY <3>1
    <3> QED BY <1>2, <1>3, <3>1, <3>2 DEF Assumptions, Printer!PrintAssumption
  <2> QED BY <2>1, <2>2
<1>5. p.offset + Len(s) + 1 \in Printer!Ends'
  <2>1. p.offset + Len(s) + 1 \in p'.offset + 1 .. Len(p'.buffer)
    BY <1>1, <1>3
  <2>2. p'.buffer[p.offset + (Len(s) + 1)] = NUL
    <3>1. Len(s) + 1 \in 1 .. Len(s) + 1
      BY <1>1
    <3> QED BY <1>2, <1>3, <3>1
  <2>3. p.offset + Len(s) + 1 = p.offset + (Len(s) + 1)
    BY <1>1
  <2> QED BY <2>1, <2>2, <2>3 DEF Printer!Ends
<1>6. Printer!Ends' \in SUBSET Nat
  BY <1>1, <1>3 DEF Printer!Ends
<1>7. /\ Printer!Min(Printer!Ends') \in Printer!Ends'
      /\ Printer!Min(Printer!Ends') <= p.offset + Len(s) + 1
  BY <1>5, <1>6, MinIsLeast
<1>8. ASSUME NEW i \in p'.offset + 1 .. Printer!Min(Printer!Ends')
      PROVE  p'.buffer[i] # JUNK
  <2>1. Printer!Min(Printer!Ends') \in Nat
    BY <1>6, <1>7
  <2>2. i - p.offset \in 1 .. Len(s) + 1 /\ p.offset + (i - p.offset) = i
    <3>1. p'.offset \in Nat /\ p.offset <= p'.offset
      BY <1>1
    <3>2. i \in Nat /\ p.offset + 1 <= i /\ i <= p.offset + Len(s) + 1
      BY <1>1, <1>7, <1>8, <2>1, <3>1
    <3> QED BY <1>1, <3>2
  <2> QED BY <1>4, <2>2
<1> QED BY <1>5, <1>8 DEF Printer!IsString

\* Where the printer goes on: each frame is at an item of the tree, but for
\* the innermost when its loop is about to end.
GoesOn(frames, step) ==
  /\ frames \in Seq(PrintFrames) /\ step \in Writing \ {"more"} /\ tree # NULL
  /\ step \in {"indent", "key", "named", "colon", "close"} => frames # <<>>
  /\ \A k \in DOMAIN frames :
       k # Len(frames) \/ step # "close" => frames[k].current \in DOMAIN tree

\* A step that writes preserves the invariant.
LEMMA EmitIsSound ==
  ASSUME Assumptions, PrintInv, ~crash, at \in Writing,
         NEW n \in Nat, NEW symbols \in Seq(Printer!Byte), Len(symbols) <= n + 1,
         NEW advance \in 0 .. n,
         NEW frames, NEW step, GoesOn(frames, step),
         step \in {"named", "printed"} =>
           \E s \in Seq(Symbols) : symbols = Printer!Terminated(s) /\ advance \in {0, Len(s)},
         Printer!Emit(n, symbols, advance, frames, step)
  PROVE  PrintInv'
<1>1. /\ p' \in PrintBuffers /\ (p'.buffer # NULL => Len(p'.buffer) <= INT_MAX)
      /\ p'.freed = FALSE
      /\ \/ calls' = frames /\ at' = step
         \/ UNCHANGED calls /\ at' = "false"
      /\ short' \in BOOLEAN /\ crash' \in BOOLEAN /\ blocks' \in 0 .. 1
      /\ \/ crash' /\ Excuse
         \/ ~crash' /\ (Failure \/ Success(symbols, advance, frames, step))
  BY EmitEffect
<1>2. UNCHANGED <<tree, mode, format, size, hooks, out>>
  BY DEF Printer!Emit, Printer!args
<1>3. Printer!TypeOK /\ size \in Sizes \cup {0} /\ StateIsSound
  BY DEF PrintInv
<1>4. calls' \in Seq(PrintFrames)
  BY <1>1, Basics DEF GoesOn
<1>5. Printer!TypeOK'
  <2>1. blocks' \in -1 .. 1
    BY <1>1
  <2> QED BY <1>1, <1>2, <1>3, <1>4, <2>1 DEF Printer!TypeOK, PrintBuffers, PrintFrames
<1>6. size' \in Sizes \cup {0}
  BY <1>2, <1>3
<1>7. at' # "done" /\ at' # "begin" /\ at' \in {"false"} \cup (Writing \ {"more"})
  BY <1>1 DEF GoesOn, Writing
<1>8. Printer!WritesStayInside'
  BY <1>1, <1>2 DEF Printer!WritesStayInside, Excuse
<1>9. Printer!OnlyTheTextIsLeft'
  BY <1>7 DEF Printer!OnlyTheTextIsLeft
<1>10. ASSUME ~crash'
       PROVE  StateIsSound'
  <2>1. out' = NULL /\ (mode' = "print" => size' = 0)
    BY <1>2, <1>3 DEF StateIsSound, Writing
  <2>2. CASE Failure
    <3>1. at' = "false" /\ at' \notin Writing
      BY <2>2 DEF Failure, Writing
    <3>2. BlocksAreCounted'
      BY <1>1, <1>2, <2>2, <3>1 DEF Failure, BlocksAreCounted
    <3> QED BY <2>1, <3>1, <3>2 DEF StateIsSound
  <2>3. CASE Success(symbols, advance, frames, step)
    <3>1. at' = step /\ calls' = frames /\ blocks' = blocks
      BY <2>3 DEF Success
    <3>2. BlocksAreCounted'
      BY <1>1, <1>2, <1>3, <1>7, <3>1 DEF StateIsSound, BlocksAreCounted, GoesOn, Writing
    <3>3. BufferIsSound' /\ p'.buffer # NULL
      BY <2>3 DEF BufferIsSound, Success
    <3>4. CallsAreSound'
      BY <1>2, <3>1 DEF CallsAreSound, GoesOn
    <3>5. ASSUME at' \in {"named", "printed"}
          PROVE  Printer!IsString' /\ p'.length = Len(p'.buffer)
      <4>1. PICK s \in Seq(Symbols) : symbols = Printer!Terminated(s) /\ advance \in {0, Len(s)}
        BY <3>1, <3>5
      <4>2. Printer!IsString'
        BY <1>1, <2>3, <4>1, StringIsThere
      <4> QED BY <2>3, <4>2 DEF Success
    <3> QED BY <1>7, <2>1, <3>1, <3>2, <3>3, <3>4, <3>5 DEF StateIsSound, GoesOn
  <2> QED BY <1>1, <1>10, <2>2, <2>3
<1> QED BY <1>5, <1>6, <1>8, <1>9, <1>10 DEF PrintInv

-----------------------------------------------------------------------------
(* The steps of print_value                                                *)

\* Texts and pieces of punctuation, and what they are with their NUL.
LEMMA TextsAreTyped ==
  ASSUME Assumptions, NEW s \in Seq(Symbols)
  PROVE  /\ s \in Seq(Printer!Byte) /\ Printer!Terminated(s) \in Seq(Printer!Byte)
         /\ Len(s) \in Nat /\ Len(Printer!Terminated(s)) = Len(s) + 1
<1>1. s \in Seq(Printer!Byte)
  BY DEF Printer!Byte
<1>2. NUL \in Printer!Byte
  BY DEF Printer!Byte
<1> QED BY <1>1, <1>2 DEF Printer!Terminated

LEMMA PunctuationIsText ==
  ASSUME Assumptions
  PROVE  /\ {"[", "]", "{", "}", ",", ":", "\t", "\n", " "} \subseteq Symbols
         /\ \A c \in Symbols : <<c>> \in Seq(Symbols) /\ Len(<<c>>) = 1
         /\ \A s \in Seq(Symbols) : Printer!Pretty(s) \in Seq(Symbols)
         /\ <<>> \in Seq(Symbols)
         /\ \A n \in Nat : Printer!Tabs(n) \in Seq(Symbols) /\ Len(Printer!Tabs(n)) = n
<1>1. {"[", "]", "{", "}", ",", ":", "\t", "\n", " "} \subseteq Symbols
  BY DEF Assumptions, Printer!PrintAssumption
<1>2. \A c \in Symbols : <<c>> \in Seq(Symbols) /\ Len(<<c>>) = 1
  OBVIOUS
<1>3. \A s \in Seq(Symbols) : Printer!Pretty(s) \in Seq(Symbols)
  BY DEF Printer!Pretty
<1>4. ASSUME NEW n \in Nat
      PROVE  Printer!Tabs(n) \in Seq(Symbols) /\ Len(Printer!Tabs(n)) = n
  <2>1. "\t" \in Symbols
    BY <1>1
  <2> QED BY <2>1 DEF Printer!Tabs
<1>5. <<>> \in Seq(Symbols)
  OBVIOUS
<1> QED BY <1>1, <1>2, <1>3, <1>4, <1>5

LEMMA PiecesAreText ==
  ASSUME NEW s \in Seq(Symbols), NEW t \in Seq(Symbols)
  PROVE  s \o t \in Seq(Symbols)
OBVIOUS

\* The printer may go on at the item where it is.
LEMMA StaysAtItem ==
  ASSUME Assumptions, PrintInv, ~crash, at \in Writing \ {"close"}, tree # NULL,
         NEW step \in Writing \ {"more", "close"},
         calls # <<>> \/ step \in {"value", "printed"}
  PROVE  GoesOn(calls, step)
<1>1. calls \in Seq(PrintFrames)
  BY Basics
<1>2. CallsAreSound
  BY DEF PrintInv, StateIsSound
<1> QED BY <1>1, <1>2 DEF GoesOn, CallsAreSound, Writing

\* The loop of a container begins, or goes to its next item.
LEMMA TurnIsSound ==
  ASSUME Assumptions, tree \in Trees, tree # NULL, NEW base \in Seq(PrintFrames),
         \A k \in DOMAIN base : base[k].current \in DOMAIN tree,
         NEW type \in {"Array", "Object"}, NEW c \in DOMAIN tree \cup {NULL}
  PROVE  /\ GoesOn(Printer!Turn(base, type, c), Printer!Step(type, c))
         /\ Printer!Step(type, c) \notin {"named", "printed"}
<1> DEFINE f == [type |-> type, current |-> c]
<1> DEFINE frames == Append(base, f)
<1>1. DOMAIN tree \subseteq Nat /\ NULL \notin DOMAIN tree
  BY ItemsOfTrees DEF Assumptions, Printer!PrintAssumption
<1>2. f \in PrintFrames
  BY <1>1 DEF PrintFrames
<1>3. /\ frames \in Seq(PrintFrames) /\ frames # <<>> /\ DOMAIN frames = 1 .. Len(base) + 1
      /\ Len(frames) = Len(base) + 1
      /\ frames[Len(base) + 1].current = c
      /\ \A k \in DOMAIN base : frames[k] = base[k]
  BY <1>2
<1>4. /\ Printer!Step(type, c) \in {"close", "value", "indent", "key"}
      /\ Printer!Step(type, c) # "close" => c # NULL
  BY DEF Printer!Step
<1>5. ASSUME NEW k \in DOMAIN frames, k # Len(frames) \/ Printer!Step(type, c) # "close"
      PROVE  frames[k].current \in DOMAIN tree
  <2>1. CASE k = Len(base) + 1
    BY <1>3, <1>4, <1>5, <2>1
  <2>2. CASE k # Len(base) + 1
    <3>1. k \in DOMAIN base
      BY <1>3, <2>2
    <3> QED BY <1>3, <3>1
  <2> QED BY <2>1, <2>2
<1>6. Printer!Turn(base, type, c) = frames
  BY DEF Printer!Turn
<1> HIDE DEF frames
<1> QED BY <1>3, <1>4, <1>5, <1>6 DEF GoesOn, Writing

\* The frames under the innermost one.
LEMMA PopIsTyped ==
  ASSUME Assumptions, PrintInv, ~crash, at \in Writing, calls # <<>>
  PROVE  /\ Printer!Pop \in Seq(PrintFrames) /\ tree # NULL /\ tree \in Trees
         /\ \A k \in DOMAIN Printer!Pop : Printer!Pop[k].current \in DOMAIN tree
         /\ Printer!Top \in PrintFrames /\ Len(calls) \in Nat \ {0}
<1>1. calls \in Seq(PrintFrames)
  BY Basics
<1>2. CallsAreSound /\ tree # NULL /\ tree \in Trees
  BY DEF PrintInv, Printer!TypeOK, StateIsSound, CallsAreSound
<1>3. /\ Printer!Pop \in Seq(PrintFrames) /\ DOMAIN Printer!Pop = 1 .. Len(calls) - 1
      /\ Len(calls) \in Nat \ {0} /\ DOMAIN calls = 1 .. Len(calls)
      /\ \A k \in 1 .. Len(calls) - 1 : Printer!Pop[k] = calls[k]
  BY <1>1 DEF Printer!Pop
<1>4. ASSUME NEW k \in DOMAIN Printer!Pop
      PROVE  Printer!Pop[k].current \in DOMAIN tree
  <2>1. k \in DOMAIN calls /\ k # Len(calls) /\ Printer!Pop[k] = calls[k]
    BY <1>3
  <2> QED BY <1>2, <2>1 DEF CallsAreSound
<1>5. Printer!Top \in PrintFrames
  BY <1>1, <1>3 DEF Printer!Top
<1> QED BY <1>2, <1>3, <1>4, <1>5

LEMMA PrintTextIsSound == Assumptions /\ PrintInv /\ ~crash /\ Printer!PrintText => PrintInv'
<1> SUFFICES ASSUME Assumptions, PrintInv, ~crash, Printer!PrintText
             PROVE  PrintInv'
  OBVIOUS
<1>1. at = "value" /\ at \in Writing \ {"close"} /\ tree # NULL
  BY DEF Printer!PrintText, Printer!Type, Writing
<1>2. Printer!Item.text \in Seq(Symbols)
  BY <1>1, ItemIsThere DEF Printer!PrintText, Printer!Nodes
<1>3. /\ Printer!Terminated(Printer!Item.text) \in Seq(Printer!Byte)
      /\ Len(Printer!Item.text) + 1 \in Nat
      /\ Len(Printer!Terminated(Printer!Item.text)) <= (Len(Printer!Item.text) + 1) + 1
      /\ 0 \in 0 .. Len(Printer!Item.text) + 1
  BY <1>2, TextsAreTyped
<1>4. GoesOn(calls, "printed")
  BY <1>1, StaysAtItem DEF Writing
<1>5. Printer!Emit(Len(Printer!Item.text) + 1, Printer!Terminated(Printer!Item.text), 0,
                   calls, "printed")
  BY DEF Printer!PrintText
<1> QED BY <1>1, <1>2, <1>3, <1>4, <1>5, EmitIsSound

LEMMA PrintNumberIsSound == Assumptions /\ PrintInv /\ ~crash /\ Printer!PrintNumber => PrintInv'
<1> SUFFICES ASSUME Assumptions, PrintInv, ~crash, Printer!PrintNumber
             PROVE  PrintInv'
  OBVIOUS
<1>1. at = "value" /\ at \in Writing \ {"close"} /\ tree # NULL
  BY DEF Printer!PrintNumber, Printer!Type, Writing
<1>2. Printer!Item.text \in Seq(Symbols)
  BY <1>1, ItemIsThere DEF Printer!PrintNumber, Printer!Type, Printer!Nodes
<1>3. /\ Printer!Terminated(Printer!Item.text) \in Seq(Printer!Byte)
      /\ Len(Printer!Item.text) \in Nat
      /\ Len(Printer!Terminated(Printer!Item.text)) <= Len(Printer!Item.text) + 1
      /\ Len(Printer!Item.text) \in 0 .. Len(Printer!Item.text)
  BY <1>2, TextsAreTyped
<1>4. GoesOn(calls, "printed")
  BY <1>1, StaysAtItem DEF Writing
<1>5. Printer!Emit(Len(Printer!Item.text), Printer!Terminated(Printer!Item.text),
                   Len(Printer!Item.text), calls, "printed")
  BY DEF Printer!PrintNumber
<1> QED BY <1>1, <1>2, <1>3, <1>4, <1>5, EmitIsSound

LEMMA OpenArrayIsSound == Assumptions /\ PrintInv /\ ~crash /\ Printer!OpenArray => PrintInv'
<1> SUFFICES ASSUME Assumptions, PrintInv, ~crash, Printer!OpenArray
             PROVE  PrintInv'
  OBVIOUS
<1> DEFINE frames == Printer!Turn(calls, "Array", Printer!Item.child)
<1> DEFINE step == Printer!Step("Array", Printer!Item.child)
<1>1. at = "value" /\ at \in Writing \ {"close"} /\ tree # NULL
  BY DEF Printer!OpenArray, Printer!Type, Writing
<1>2. Printer!Item.child \in DOMAIN tree \cup {NULL} /\ tree \in Trees /\ calls \in Seq(PrintFrames)
  BY <1>1, ItemIsThere, Basics DEF PrintInv, Printer!TypeOK
<1>3. \A k \in DOMAIN calls : calls[k].current \in DOMAIN tree
  BY <1>1 DEF PrintInv, StateIsSound, CallsAreSound
<1>4. GoesOn(frames, step) /\ step \notin {"named", "printed"}
  BY <1>1, <1>2, <1>3, TurnIsSound
<1>5. <<"[">> \in Seq(Printer!Byte) /\ Len(<<"[">>) <= 1 + 1 /\ 1 \in Nat /\ 1 \in 0 .. 1
  <2>1. <<"[">> \in Seq(Symbols) /\ Len(<<"[">>) = 1
    BY PunctuationIsText
  <2>2. <<"[">> \in Seq(Printer!Byte)
    BY <2>1, TextsAreTyped
  <2>3. 1 <= 1 + 1 /\ 1 \in Nat /\ 1 \in 0 .. 1
    OBVIOUS
  <2> QED BY <2>1, <2>2, <2>3
<1>6. Printer!Emit(1, <<"[">>, 1, frames, step)
  BY DEF Printer!OpenArray
<1> HIDE DEF frames, step
<1> QED BY <1>1, <1>4, <1>5, <1>6, EmitIsSound

LEMMA OpenObjectIsSound == Assumptions /\ PrintInv /\ ~crash /\ Printer!OpenObject => PrintInv'
<1> SUFFICES ASSUME Assumptions, PrintInv, ~crash, Printer!OpenObject
             PROVE  PrintInv'
  OBVIOUS
<1> DEFINE frames == Printer!Turn(calls, "Object", Printer!Item.child)
<1> DEFINE step == Printer!Step("Object", Printer!Item.child)
<1> DEFINE symbols == <<"{">> \o Printer!Pretty(<<"\n">>)
<1>1. at = "value" /\ at \in Writing \ {"close"} /\ tree # NULL
  BY DEF Printer!OpenObject, Printer!Type, Writing
<1>2. Printer!Item.child \in DOMAIN tree \cup {NULL} /\ tree \in Trees /\ calls \in Seq(PrintFrames)
  BY <1>1, ItemIsThere, Basics DEF PrintInv, Printer!TypeOK
<1>3. \A k \in DOMAIN calls : calls[k].current \in DOMAIN tree
  BY <1>1 DEF PrintInv, StateIsSound, CallsAreSound
<1>4. GoesOn(frames, step) /\ step \notin {"named", "printed"}
  BY <1>1, <1>2, <1>3, TurnIsSound
<1>5. symbols \in Seq(Symbols)
  <2>1. <<"{">> \in Seq(Symbols) /\ <<"\n">> \in Seq(Symbols)
    BY PunctuationIsText
  <2>2. Printer!Pretty(<<"\n">>) \in Seq(Symbols)
    BY <2>1, PunctuationIsText
  <2> QED BY <2>1, <2>2, PiecesAreText
<1>6. Printer!Emit(Len(symbols) + 1, symbols, Len(symbols), frames, step)
  BY DEF Printer!OpenObject
<1> HIDE DEF frames, step, symbols
<1>7. /\ symbols \in Seq(Printer!Byte) /\ Len(symbols) + 1 \in Nat
      /\ Len(symbols) <= (Len(symbols) + 1) + 1 /\ Len(symbols) \in 0 .. Len(symbols) + 1
  BY <1>5, TextsAreTyped
<1> QED BY <1>1, <1>4, <1>6, <1>7, EmitIsSound

LEMMA IndentIsSound == Assumptions /\ PrintInv /\ ~crash /\ Printer!Indent => PrintInv'
<1> SUFFICES ASSUME Assumptions, PrintInv, ~crash, Printer!Indent
             PROVE  PrintInv'
  OBVIOUS
<1>1. at = "indent" /\ at \in Writing \ {"close"} /\ calls # <<>>
  BY DEF Printer!Indent, Writing, PrintInv, StateIsSound, CallsAreSound
<1>2. tree # NULL /\ Len(calls) \in Nat
  BY <1>1, PopIsTyped
<1>3. Printer!Tabs(Len(calls)) \in Seq(Symbols) /\ Len(Printer!Tabs(Len(calls))) = Len(calls)
  BY <1>2, PunctuationIsText
<1>4. /\ Printer!Tabs(Len(calls)) \in Seq(Printer!Byte)
      /\ Len(Printer!Tabs(Len(calls))) <= Len(calls) + 1
      /\ Len(calls) \in 0 .. Len(calls)
  BY <1>2, <1>3, TextsAreTyped
<1>5. GoesOn(calls, "key")
  BY <1>1, <1>2, StaysAtItem DEF Writing
<1>6. Printer!Emit(Len(calls), Printer!Tabs(Len(calls)), Len(calls), calls, "key")
  BY DEF Printer!Indent
<1> QED BY <1>1, <1>2, <1>4, <1>5, <1>6, EmitIsSound

LEMMA PrintKeyIsSound == Assumptions /\ PrintInv /\ ~crash /\ Printer!PrintKey => PrintInv'
<1> SUFFICES ASSUME Assumptions, PrintInv, ~crash, Printer!PrintKey
             PROVE  PrintInv'
  OBVIOUS
<1>1. at = "key" /\ at \in Writing \ {"close"} /\ calls # <<>>
  BY DEF Printer!PrintKey, Writing, PrintInv, StateIsSound, CallsAreSound
<1>2. tree # NULL
  BY <1>1, PopIsTyped
<1>3. Printer!Item.name \in Seq(Symbols)
  BY <1>1, <1>2, ItemIsThere DEF Printer!Nodes
<1>4. /\ Printer!Terminated(Printer!Item.name) \in Seq(Printer!Byte)
      /\ Len(Printer!Item.name) + 1 \in Nat
      /\ Len(Printer!Terminated(Printer!Item.name)) <= (Len(Printer!Item.name) + 1) + 1
      /\ 0 \in 0 .. Len(Printer!Item.name) + 1
  BY <1>3, TextsAreTyped
<1>5. GoesOn(calls, "named")
  BY <1>1, <1>2, StaysAtItem DEF Writing
<1>6. Printer!Emit(Len(Printer!Item.name) + 1, Printer!Terminated(Printer!Item.name), 0,
                   calls, "named")
  BY DEF Printer!PrintKey
<1> QED BY <1>1, <1>3, <1>4, <1>5, <1>6, EmitIsSound

LEMMA PrintColonIsSound == Assumptions /\ PrintInv /\ ~crash /\ Printer!PrintColon => PrintInv'
<1> SUFFICES ASSUME Assumptions, PrintInv, ~crash, Printer!PrintColon
             PROVE  PrintInv'
  OBVIOUS
<1> DEFINE symbols == <<":">> \o Printer!Pretty(<<"\t">>)
<1>1. at = "colon" /\ at \in Writing \ {"close"} /\ calls # <<>>
  BY DEF Printer!PrintColon, Writing, PrintInv, StateIsSound, CallsAreSound
<1>2. tree # NULL
  BY <1>1, PopIsTyped
<1>3. symbols \in Seq(Symbols)
  <2>1. <<":">> \in Seq(Symbols) /\ <<"\t">> \in Seq(Symbols)
    BY PunctuationIsText
  <2>2. Printer!Pretty(<<"\t">>) \in Seq(Symbols)
    BY <2>1, PunctuationIsText
  <2> QED BY <2>1, <2>2, PiecesAreText
<1>4. Printer!Emit(Len(symbols), symbols, Len(symbols), calls, "value")
  BY DEF Printer!PrintColon
<1> HIDE DEF symbols
<1>5. /\ symbols \in Seq(Printer!Byte) /\ Len(symbols) \in Nat
      /\ Len(symbols) <= Len(symbols) + 1 /\ Len(symbols) \in 0 .. Len(symbols)
  BY <1>3, TextsAreTyped
<1>6. GoesOn(calls, "value")
  BY <1>1, <1>2, StaysAtItem DEF Writing
<1> QED BY <1>1, <1>4, <1>5, <1>6, EmitIsSound

LEMMA MoreIsSound == Assumptions /\ PrintInv /\ ~crash /\ Printer!More => PrintInv'
<1> SUFFICES ASSUME Assumptions, PrintInv, ~crash, Printer!More
             PROVE  PrintInv'
  OBVIOUS
<1> DEFINE type == Printer!Top.type
<1> DEFINE comma == IF Printer!Item.next = NULL THEN <<>> ELSE <<",">>
<1> DEFINE symbols == comma \o Printer!Pretty(<<IF type = "Array" THEN " " ELSE "\n">>)
<1> DEFINE frames == Printer!Turn(Printer!Pop, type, Printer!Item.next)
<1>1. at = "more" /\ at \in Writing \ {"close"} /\ calls # <<>>
  BY DEF Printer!More, Writing
<1>2. /\ Printer!Pop \in Seq(PrintFrames) /\ tree # NULL /\ tree \in Trees
      /\ \A k \in DOMAIN Printer!Pop : Printer!Pop[k].current \in DOMAIN tree
      /\ type \in {"Array", "Object"}
  BY <1>1, PopIsTyped DEF PrintFrames
<1>3. Printer!Item.next \in DOMAIN tree \cup {NULL}
  BY <1>1, <1>2, ItemIsThere
<1>4. /\ GoesOn(frames, Printer!Step(type, Printer!Item.next))
      /\ Printer!Step(type, Printer!Item.next) \notin {"named", "printed"}
  BY <1>2, <1>3, TurnIsSound
<1>5. CASE type = "Array" /\ Printer!Item.next = NULL
  <2>1. /\ calls' = frames /\ at' = "close"
        /\ UNCHANGED <<tree, mode, format, size, hooks, p, out, blocks, crash, short>>
    BY <1>5 DEF Printer!More, Printer!args
  <2>2. Printer!Step(type, Printer!Item.next) = "close"
    BY <1>5 DEF Printer!Step
  <2> HIDE DEF frames, type
  <2>3. GoesOn(frames, "close")
    BY <1>4, <2>2
  <2>4. PrintInv /\ StateIsSound
    BY DEF PrintInv
  <2>5. Printer!TypeOK'
    BY <2>1, <2>3, <2>4 DEF PrintInv, Printer!TypeOK, GoesOn, PrintFrames
  <2>6. Printer!WritesStayInside' /\ Printer!OnlyTheTextIsLeft' /\ size' \in Sizes \cup {0}
    BY <2>1, <2>4 DEF PrintInv, Printer!WritesStayInside, Printer!OnlyTheTextIsLeft,
                      Printer!Textless
  <2>7. CallsAreSound'
    BY <2>1, <2>3 DEF CallsAreSound, GoesOn
  <2>8. BlocksAreCounted'
    BY <1>1, <2>1, <2>4 DEF StateIsSound, BlocksAreCounted, Writing, Printer!Textless
  <2>9. BufferIsSound' /\ p'.buffer # NULL
    BY <1>1, <2>1, <2>4 DEF StateIsSound, BufferIsSound
  <2>10. StateIsSound'
    BY <1>1, <2>1, <2>4, <2>7, <2>8, <2>9 DEF StateIsSound, Writing
  <2> QED BY <2>5, <2>6, <2>10 DEF PrintInv
<1>6. CASE ~ (type = "Array" /\ Printer!Item.next = NULL)
  <2>1. Printer!Emit(Len(symbols) + 1, Printer!Terminated(symbols), Len(symbols), frames,
                     Printer!Step(type, Printer!Item.next))
    BY <1>6 DEF Printer!More
  <2>2. symbols \in Seq(Symbols)
    <3>1. comma \in Seq(Symbols)
      <4>1. <<",">> \in Seq(Symbols) /\ <<>> \in Seq(Symbols)
        BY PunctuationIsText
      <4> QED BY <4>1
    <3>2. Printer!Pretty(<<IF type = "Array" THEN " " ELSE "\n">>) \in Seq(Symbols)
      <4>1. (IF type = "Array" THEN " " ELSE "\n") \in Symbols
        BY PunctuationIsText
      <4>2. <<IF type = "Array" THEN " " ELSE "\n">> \in Seq(Symbols)
        BY <4>1, PunctuationIsText
      <4> QED BY <4>2, PunctuationIsText
    <3> HIDE DEF comma
    <3> QED BY <3>1, <3>2, PiecesAreText
  <2> HIDE DEF symbols, frames, type
  <2>3. /\ Printer!Terminated(symbols) \in Seq(Printer!Byte) /\ Len(symbols) + 1 \in Nat
        /\ Len(Printer!Terminated(symbols)) <= (Len(symbols) + 1) + 1
        /\ Len(symbols) \in 0 .. Len(symbols) + 1
    BY <2>2, TextsAreTyped
  <2> QED BY <1>1, <1>4, <2>1, <2>3, EmitIsSound
<1> QED BY <1>5, <1>6

LEMMA CloseIsSound == Assumptions /\ PrintInv /\ ~crash /\ Printer!Close => PrintInv'
<1> SUFFICES ASSUME Assumptions, PrintInv, ~crash, Printer!Close
             PROVE  PrintInv'
  OBVIOUS
<1> DEFINE symbols == IF Printer!Top.type = "Array" THEN <<"]">>
                      ELSE Printer!Pretty(Printer!Tabs(Len(calls) - 1)) \o <<"}">>
<1>1. at = "close" /\ at \in Writing /\ calls # <<>>
  BY DEF Printer!Close, Writing, PrintInv, StateIsSound, CallsAreSound
<1>2. /\ Printer!Pop \in Seq(PrintFrames) /\ tree # NULL
      /\ \A k \in DOMAIN Printer!Pop : Printer!Pop[k].current \in DOMAIN tree
      /\ Len(calls) \in Nat \ {0}
  BY <1>1, PopIsTyped
<1>3. symbols \in Seq(Symbols)
  <2>1. <<"]">> \in Seq(Symbols) /\ <<"}">> \in Seq(Symbols)
    BY PunctuationIsText
  <2>2. Len(calls) - 1 \in Nat
    BY <1>2
  <2>3. Printer!Pretty(Printer!Tabs(Len(calls) - 1)) \in Seq(Symbols)
    BY <2>2, PunctuationIsText
  <2>4. Printer!Pretty(Printer!Tabs(Len(calls) - 1)) \o <<"}">> \in Seq(Symbols)
    BY <2>1, <2>3, PiecesAreText
  <2> QED BY <2>1, <2>4
<1>4. Printer!Emit(Len(symbols) + 1, Printer!Terminated(symbols), 0, Printer!Pop, "printed")
  BY DEF Printer!Close
<1> HIDE DEF symbols
<1>5. /\ Printer!Terminated(symbols) \in Seq(Printer!Byte) /\ Len(symbols) + 1 \in Nat
      /\ Len(Printer!Terminated(symbols)) <= (Len(symbols) + 1) + 1
      /\ 0 \in 0 .. Len(symbols) + 1
  BY <1>3, TextsAreTyped
<1>6. GoesOn(Printer!Pop, "printed")
  BY <1>2 DEF GoesOn, Writing
<1> QED BY <1>1, <1>3, <1>4, <1>5, <1>6, EmitIsSound

LEMMA PrintNothingIsSound == Assumptions /\ PrintInv /\ ~crash /\ Printer!PrintNothing => PrintInv'
<1> SUFFICES ASSUME Assumptions, PrintInv, ~crash, Printer!PrintNothing
             PROVE  PrintInv'
  OBVIOUS
<1>1. /\ at = "value" /\ at \in Writing \ {"close"} /\ at' = "false"
      /\ UNCHANGED <<tree, mode, format, size, hooks, calls, out, crash, short>>
  BY DEF Printer!PrintNothing, Writing, Printer!args
<1>2. Printer!TypeOK /\ StateIsSound /\ BlocksAreCounted /\ p.buffer # NULL
  BY <1>1 DEF PrintInv, StateIsSound
<1>3. p \in PrintBuffers /\ p.freed = FALSE
  BY <1>1, <1>2, Basics DEF BlocksAreCounted
<1>4. size' \in Sizes \cup {0} /\ Printer!WritesStayInside' /\ Printer!OnlyTheTextIsLeft'
  BY <1>1 DEF PrintInv, Printer!WritesStayInside, Printer!OnlyTheTextIsLeft, Printer!Textless
<1>5. out' = NULL /\ at' \notin Writing /\ (mode' = "print" => size' = 0)
  BY <1>1, <1>2 DEF StateIsSound, Writing
<1>6. CASE /\ Printer!Type = "Raw" /\ Printer!Item.text = NULL /\ mode # "preallocated"
           /\ p' = [p EXCEPT !.freed = TRUE] /\ blocks' = blocks - 1
  <2>1. Printer!Textless
    <3>1. tree # NULL /\ Printer!Item.type = "Raw"
      BY <1>6 DEF Printer!Type
    <3>2. \E i \in DOMAIN tree : Printer!Item = tree[i]
      BY <1>1, <3>1, ItemIsThere
    <3> QED BY <1>6, <3>1, <3>2 DEF Printer!Textless
  <2>2. blocks' = 0
    BY <1>1, <1>2, <1>6 DEF BlocksAreCounted
  <2>3. p' \in PrintBuffers /\ p'.buffer = p.buffer /\ p'.freed = TRUE
    <3>1. [p EXCEPT !.freed = TRUE] \in PrintBuffers
      BY <1>3, Basics, BuffersAreClosed
    <3> QED BY <1>3, <1>6, <3>1 DEF PrintBuffers
  <2>4. Printer!TypeOK'
    <3>1. blocks' \in -1 .. 1
      BY <2>2
    <3> QED BY <1>1, <1>2, <2>3, <3>1 DEF Printer!TypeOK, PrintBuffers
  <2>5. BlocksAreCounted'
    BY <1>1, <1>5, <1>6, <2>1, <2>2, <2>3 DEF BlocksAreCounted, Printer!Textless
  <2> QED BY <1>1, <1>4, <1>5, <2>4, <2>5 DEF PrintInv, StateIsSound
<1>7. CASE UNCHANGED <<p, blocks>>
  <2>1. Printer!TypeOK'
    BY <1>1, <1>2, <1>7 DEF Printer!TypeOK
  <2>2. BlocksAreCounted'
    BY <1>1, <1>2, <1>3, <1>5, <1>7 DEF BlocksAreCounted
  <2> QED BY <1>1, <1>4, <1>5, <2>1, <2>2 DEF PrintInv, StateIsSound
<1> QED BY <1>6, <1>7 DEF Printer!PrintNothing

LEMMA UpdateOffsetIsSound == Assumptions /\ PrintInv /\ ~crash /\ Printer!UpdateOffset => PrintInv'
<1> SUFFICES ASSUME Assumptions, PrintInv, ~crash, Printer!UpdateOffset
             PROVE  PrintInv'
  OBVIOUS
<1>1. /\ at \in {"named", "printed"} /\ at \in Writing
      /\ UNCHANGED <<tree, mode, format, size, hooks, calls, out, blocks, short>>
      /\ \/ at = "named" /\ at' = "colon"
         \/ at = "printed" /\ (calls # <<>> \/ mode = "print") /\ at' = "more"
  BY DEF Printer!UpdateOffset, Writing, Printer!args
<1>2. /\ Printer!TypeOK /\ StateIsSound /\ BlocksAreCounted /\ CallsAreSound /\ p.buffer # NULL
      /\ Printer!IsString /\ p.length = Len(p.buffer)
  BY <1>1 DEF PrintInv, StateIsSound
<1>3. /\ p \in PrintBuffers /\ p.buffer \in Seq(Printer!Byte) /\ Len(p.buffer) \in 0 .. INT_MAX
      /\ p.offset \in 0 .. INT_MAX /\ INT_MAX \in Nat
  BY <1>2, Basics
<1>4. p' = [p EXCEPT !.offset = Printer!Min(Printer!Ends) - 1] /\ crash' = crash
  BY <1>2 DEF Printer!UpdateOffset
<1>5. Printer!Min(Printer!Ends) \in p.offset + 1 .. Len(p.buffer)
  <2>1. Printer!Ends \in SUBSET Nat /\ Printer!Ends # {}
    BY <1>2, <1>3 DEF Printer!Ends, Printer!IsString
  <2>2. Printer!Min(Printer!Ends) \in Printer!Ends
    BY <2>1, MinIsLeast
  <2> QED BY <2>2 DEF Printer!Ends
<1>6. Printer!Min(Printer!Ends) - 1 \in 0 .. INT_MAX /\ Printer!Min(Printer!Ends) - 1 < Len(p.buffer)
  BY <1>3, <1>5
<1>7. /\ p' \in PrintBuffers /\ p'.buffer = p.buffer /\ p'.length = p.length
      /\ p'.freed = p.freed /\ p'.offset = Printer!Min(Printer!Ends) - 1
  <2>1. [p EXCEPT !.offset = Printer!Min(Printer!Ends) - 1] \in PrintBuffers
    BY <1>3, <1>6, Basics, BuffersAreClosed
  <2> QED BY <1>3, <1>4, <2>1 DEF PrintBuffers
<1>8. Printer!TypeOK'
  BY <1>1, <1>2, <1>4, <1>7 DEF Printer!TypeOK, PrintBuffers
<1>9. size' \in Sizes \cup {0} /\ Printer!WritesStayInside' /\ Printer!OnlyTheTextIsLeft'
  BY <1>1, <1>4 DEF PrintInv, Printer!WritesStayInside, Printer!OnlyTheTextIsLeft, Printer!Textless
<1>10. BufferIsSound'
  BY <1>2, <1>6, <1>7 DEF BufferIsSound
<1>11. CallsAreSound'
  BY <1>1, <1>2 DEF CallsAreSound
<1>12. BlocksAreCounted'
  BY <1>1, <1>2, <1>7 DEF BlocksAreCounted, Writing, Printer!Textless
<1>13. StateIsSound'
  BY <1>1, <1>2, <1>7, <1>10, <1>11, <1>12 DEF StateIsSound, Writing
<1> QED BY <1>8, <1>9, <1>13 DEF PrintInv

-----------------------------------------------------------------------------
(* The steps of cJSON_Print and of the others                              *)

LEMMA BeginIsSound == Assumptions /\ PrintInv /\ ~crash /\ Printer!Begin => PrintInv'
<1> SUFFICES ASSUME Assumptions, PrintInv, ~crash, Printer!Begin
             PROVE  PrintInv'
  OBVIOUS
<1>1. /\ at = "begin"
      /\ UNCHANGED <<tree, mode, format, size, hooks, calls, out, crash>>
  BY DEF Printer!Begin, Printer!args
<1>2. /\ Printer!TypeOK /\ StateIsSound /\ BlocksAreCounted /\ size \in Sizes \cup {0}
      /\ p = [buffer |-> NULL, length |-> 0, offset |-> 0, freed |-> FALSE]
      /\ blocks = 0 /\ calls = <<>> /\ out = NULL /\ (mode = "print" => size = 0)
  BY <1>1 DEF PrintInv, StateIsSound
<1>3. p \in PrintBuffers /\ INT_MAX \in Nat /\ Initial \in 1 .. INT_MAX /\ NULL \notin Seq(Printer!Byte)
  BY Basics DEF Assumptions, Printer!PrintAssumption
<1>4. size' \in Sizes \cup {0} /\ Printer!WritesStayInside' /\ (mode' = "print" => size' = 0)
  BY <1>1, <1>2 DEF PrintInv, Printer!WritesStayInside
<1>5. CASE /\ size >= 0
           /\ p' = [p EXCEPT !.buffer = Printer!Bytes(IF mode = "print" THEN Initial ELSE size),
                             !.length = IF mode = "print" THEN 0 ELSE size]
           /\ blocks' = (IF mode = "preallocated" THEN 0 ELSE 1)
           /\ at' = "value" /\ UNCHANGED short
  <2> DEFINE room == IF mode = "print" THEN Initial ELSE size
  <2>1. size \in 0 .. INT_MAX
    <3>1. CASE size = 0
      BY <1>3, <3>1
    <3>2. CASE size \in Sizes
      <4>1. size \in Int /\ size <= INT_MAX
        BY <3>2 DEF Assumptions, Printer!PrintAssumption
      <4> QED BY <1>3, <1>5, <4>1
    <3> QED BY <1>2, <3>1, <3>2
  <2>2. room \in 0 .. INT_MAX /\ (IF mode = "print" THEN 0 ELSE size) \in 0 .. INT_MAX
    BY <1>3, <2>1
  <2>3. p' = [p EXCEPT !.buffer = Printer!Bytes(room), !.length = IF mode = "print" THEN 0 ELSE size]
    BY <1>5
  <2>4. Printer!Bytes(room) \in Seq(Printer!Byte) /\ Len(Printer!Bytes(room)) = room
    <3> HIDE DEF room
    <3>1. JUNK \in Printer!Byte
      BY DEF Printer!Byte
    <3>2. room \in Nat
      BY <1>3, <2>2
    <3> QED BY <3>1, <3>2 DEF Printer!Bytes
  <2>5. Printer!Bytes(room) # NULL
    BY <1>3, <2>4
  <2>6. /\ p' \in PrintBuffers /\ p'.buffer = Printer!Bytes(room) /\ p'.offset = 0
        /\ p'.freed = FALSE
        /\ p'.length = IF mode = "print" THEN 0 ELSE size
    <3> HIDE DEF room
    <3>1. 0 \in 0 .. INT_MAX /\ Printer!Bytes(room) \in Seq(Printer!Byte) \cup {NULL}
      BY <1>3, <2>4
    <3>2. [p EXCEPT !.buffer = Printer!Bytes(room), !.length = IF mode = "print" THEN 0 ELSE size]
            \in PrintBuffers
      BY <1>3, <2>2, <3>1, BuffersAreClosed
    <3> QED BY <1>2, <2>3, <3>2
  <2>7. Len(p'.buffer) = room /\ p'.buffer # NULL
    BY <2>4, <2>5, <2>6
  <2>8. Len(p'.buffer) <= INT_MAX
    BY <1>3, <2>2, <2>7
  <2>9. Printer!TypeOK'
    <3>1. blocks' \in -1 .. 1
      BY <1>5
    <3> QED BY <1>1, <1>2, <1>5, <2>6, <2>8, <3>1 DEF Printer!TypeOK, PrintBuffers
  <2>10. BufferIsSound'
    BY <1>1, <1>3, <2>1, <2>6, <2>7 DEF BufferIsSound
  <2>11. CallsAreSound'
    BY <1>1, <1>2, <1>5 DEF CallsAreSound
  <2>12. BlocksAreCounted'
    BY <1>1, <1>5, <2>6 DEF BlocksAreCounted
  <2>13. StateIsSound'
    BY <1>1, <1>2, <1>5, <2>7, <2>10, <2>11, <2>12 DEF StateIsSound, Writing
  <2>14. Printer!OnlyTheTextIsLeft'
    BY <1>5 DEF Printer!OnlyTheTextIsLeft
  <2> QED BY <1>4, <2>9, <2>13, <2>14 DEF PrintInv
<1>6. CASE at' = "done" /\ short' = (size >= 0) /\ UNCHANGED <<p, blocks>>
  <2>1. short' \in BOOLEAN
    BY <1>6
  <2>2. Printer!TypeOK'
    BY <1>1, <1>2, <1>6, <2>1 DEF Printer!TypeOK
  <2>3. BlocksAreCounted'
    BY <1>1, <1>2, <1>6 DEF BlocksAreCounted, Writing
  <2>4. StateIsSound'
    BY <1>1, <1>2, <1>6, <2>3 DEF StateIsSound, Writing
  <2>5. Printer!OnlyTheTextIsLeft'
    BY <1>1, <1>2, <1>6 DEF Printer!OnlyTheTextIsLeft
  <2> QED BY <1>4, <2>2, <2>4, <2>5 DEF PrintInv
<1> QED BY <1>5, <1>6 DEF Printer!Begin

LEMMA CopyIsSound == Assumptions /\ PrintInv /\ ~crash /\ Printer!Copy => PrintInv'
<1> SUFFICES ASSUME Assumptions, PrintInv, ~crash, Printer!Copy
             PROVE  PrintInv'
  OBVIOUS
<1>1. /\ at = "more" /\ calls = <<>> /\ at \in Writing /\ at' = "done"
      /\ UNCHANGED <<tree, mode, format, size, hooks, p, calls, crash>>
  BY DEF Printer!Copy, Writing, Printer!args
<1>2. /\ Printer!TypeOK /\ StateIsSound /\ BlocksAreCounted /\ CallsAreSound /\ BufferIsSound
      /\ size \in Sizes \cup {0} /\ p.buffer # NULL /\ out = NULL
  BY <1>1 DEF PrintInv, StateIsSound, Writing
<1>3. mode = "print" /\ blocks = 1 /\ p.freed = FALSE
  <2>1. mode = "print"
    BY <1>1, <1>2 DEF CallsAreSound
  <2> QED BY <1>1, <1>2, <2>1, Basics DEF BlocksAreCounted, Writing
<1>4. /\ size' \in Sizes \cup {0} /\ Printer!WritesStayInside' /\ at' \notin Writing
      /\ (mode' = "print" => size' = 0)
  BY <1>1, <1>2 DEF PrintInv, Printer!WritesStayInside, StateIsSound, Writing, Printer!Textless
<1>5. CASE /\ out' = Printer!Terminated(SubSeq(p.buffer, 1, Printer!Min({p.length, p.offset})))
           /\ UNCHANGED <<blocks, short>>
  <2> DEFINE last == Printer!Min({p.length, p.offset})
  <2>1. /\ p.buffer \in Seq(Printer!Byte) /\ p.length \in Nat /\ p.offset \in Nat
        /\ NULL \notin Seq(Printer!Byte)
        /\ Len(p.buffer) \in Nat
    BY <1>2, Basics
  <2>2. last \in {p.length, p.offset} /\ last <= p.offset
    BY <2>1, MinIsLeast
  <2>3. last \in Nat /\ last <= Len(p.buffer)
    <3> HIDE DEF last
    <3> QED BY <1>2, <2>1, <2>2 DEF BufferIsSound
  <2>4. SubSeq(p.buffer, 1, last) \in Seq(Printer!Byte)
    <3> HIDE DEF last
    <3> QED BY <2>1, <2>3
  <2>5. out' \in Seq(Printer!Byte)
    <3> HIDE DEF last
    <3>1. NUL \in Printer!Byte
      BY DEF Printer!Byte
    <3>2. Append(SubSeq(p.buffer, 1, last), NUL) \in Seq(Printer!Byte)
      BY <2>4, <3>1
    <3> QED BY <1>5, <3>2 DEF Printer!Terminated, last
  <2>6. Printer!TypeOK'
    BY <1>1, <1>2, <1>5, <2>5 DEF Printer!TypeOK
  <2>7. Printer!OnlyTheTextIsLeft'
    BY <1>1, <1>3, <1>5, <2>1, <2>5 DEF Printer!OnlyTheTextIsLeft
  <2>8. StateIsSound'
    BY <1>1, <1>3, <1>4, <1>5 DEF StateIsSound, BlocksAreCounted
  <2> QED BY <1>4, <2>6, <2>7, <2>8 DEF PrintInv
<1>6. CASE short' = TRUE /\ blocks' = blocks - 1 /\ UNCHANGED out
  <2>1. blocks' = 0
    BY <1>3, <1>6
  <2>2. blocks' \in -1 .. 1
    BY <2>1
  <2>3. Printer!TypeOK'
    BY <1>1, <1>2, <1>6, <2>2 DEF Printer!TypeOK
  <2>4. Printer!OnlyTheTextIsLeft'
    BY <1>2, <1>6, <2>1 DEF Printer!OnlyTheTextIsLeft
  <2>5. StateIsSound'
    BY <1>1, <1>3, <1>4, <1>6 DEF StateIsSound, BlocksAreCounted
  <2> QED BY <1>4, <2>3, <2>4, <2>5 DEF PrintInv
<1> QED BY <1>5, <1>6 DEF Printer!Copy

LEMMA GiveBufferIsSound == Assumptions /\ PrintInv /\ ~crash /\ Printer!GiveBuffer => PrintInv'
<1> SUFFICES ASSUME Assumptions, PrintInv, ~crash, Printer!GiveBuffer
             PROVE  PrintInv'
  OBVIOUS
<1>1. /\ at = "printed" /\ at \in Writing /\ mode # "print" /\ at' = "done" /\ out' = p.buffer
      /\ UNCHANGED <<tree, mode, format, size, hooks, p, calls, blocks, crash, short>>
  BY DEF Printer!GiveBuffer, Writing, Printer!args
<1>2. /\ Printer!TypeOK /\ StateIsSound /\ BlocksAreCounted
      /\ size \in Sizes \cup {0} /\ p.buffer # NULL
  BY <1>1 DEF PrintInv, StateIsSound
<1>3. p.freed = FALSE /\ blocks = IF mode = "preallocated" THEN 0 ELSE 1
  BY <1>1, <1>2, Basics DEF BlocksAreCounted, Writing
<1>4. /\ size' \in Sizes \cup {0} /\ Printer!WritesStayInside' /\ at' \notin Writing
  BY <1>1, <1>2 DEF PrintInv, Printer!WritesStayInside, Writing, Printer!Textless
<1>5. Printer!TypeOK'
  BY <1>1, <1>2, Basics DEF Printer!TypeOK
<1>6. Printer!OnlyTheTextIsLeft'
  BY <1>1, <1>2, <1>3 DEF Printer!OnlyTheTextIsLeft
<1>7. StateIsSound'
  BY <1>1, <1>3, <1>4 DEF StateIsSound, BlocksAreCounted
<1> QED BY <1>4, <1>5, <1>6, <1>7 DEF PrintInv

LEMMA FailIsSound == Assumptions /\ PrintInv /\ ~crash /\ Printer!Fail => PrintInv'
<1> SUFFICES ASSUME Assumptions, PrintInv, ~crash, Printer!Fail
             PROVE  PrintInv'
  OBVIOUS
<1>1. /\ at = "false" /\ at \notin Writing /\ at' = "done" /\ at' \notin Writing /\ calls' = <<>>
      /\ UNCHANGED <<tree, mode, format, size, hooks, p, out, short>>
  BY DEF Printer!Fail, Writing, Printer!args
<1>2. /\ Printer!TypeOK /\ StateIsSound /\ BlocksAreCounted
      /\ size \in Sizes \cup {0} /\ out = NULL /\ (mode = "print" => size = 0)
  BY <1>1 DEF PrintInv, StateIsSound
<1>3. calls' \in Seq(PrintFrames) /\ p.freed \in BOOLEAN
  BY <1>1, Basics
<1>4. CASE mode = "print" /\ p.buffer # NULL /\ blocks' = blocks - 1 /\ crash' = p.freed
  <2>1. blocks = IF p.freed THEN 0 ELSE 1
    BY <1>1, <1>2, <1>4 DEF BlocksAreCounted
  <2>2. blocks' = IF p.freed THEN -1 ELSE 0
    BY <1>4, <2>1
  <2>3. blocks' \in -1 .. 1
    BY <2>2
  <2>4. crash' \in BOOLEAN
    BY <1>3, <1>4
  <2>5. Printer!TypeOK'
    BY <1>1, <1>2, <1>3, <2>3, <2>4 DEF Printer!TypeOK, PrintFrames
  <2>6. Printer!WritesStayInside'
    BY <1>1, <1>2, <1>4 DEF Printer!WritesStayInside, BlocksAreCounted, Printer!Textless
  <2>7. Printer!OnlyTheTextIsLeft'
    BY <1>1, <1>2, <1>4, <2>2 DEF Printer!OnlyTheTextIsLeft
  <2>8. ~crash' => StateIsSound'
    BY <1>1, <1>2, <1>4, <2>2 DEF StateIsSound, BlocksAreCounted
  <2> QED BY <1>1, <1>2, <2>5, <2>6, <2>7, <2>8 DEF PrintInv
<1>5. CASE ~ (mode = "print" /\ p.buffer # NULL) /\ UNCHANGED <<blocks, crash>>
  <2>1. Printer!TypeOK'
    BY <1>1, <1>2, <1>3, <1>5 DEF Printer!TypeOK, PrintFrames
  <2>2. Printer!WritesStayInside'
    BY <1>1, <1>5 DEF PrintInv, Printer!WritesStayInside, Printer!Textless
  <2>3. Printer!OnlyTheTextIsLeft'
    BY <1>1, <1>2, <1>5 DEF Printer!OnlyTheTextIsLeft, BlocksAreCounted, Printer!TypeOK
  <2>4. StateIsSound'
    BY <1>1, <1>2, <1>5 DEF StateIsSound, BlocksAreCounted, Printer!Textless
  <2> QED BY <1>1, <1>2, <2>1, <2>2, <2>3, <2>4 DEF PrintInv
<1> QED BY <1>4, <1>5 DEF Printer!Fail

-----------------------------------------------------------------------------
(* The theorems                                                            *)

LEMMA PrintInitIsSound == Assumptions /\ Printer!Init => PrintInv
<1> SUFFICES ASSUME Assumptions, Printer!Init
             PROVE  PrintInv
  OBVIOUS
<1>1. size \in Sizes \cup {0} /\ (mode = "print" => size = 0)
  BY DEF Printer!Init
<1>2. Printer!TypeOK
  <2>1. p \in PrintBuffers /\ p.buffer = NULL
    <3>1. INT_MAX \in Nat
      BY DEF Assumptions, Printer!PrintAssumption
    <3>2. 0 \in 0 .. INT_MAX
      BY <3>1
    <3> QED BY <3>2 DEF Printer!Init, PrintBuffers
  <2>2. calls \in Seq(PrintFrames)
    BY DEF Printer!Init
  <2>3. blocks \in -1 .. 1
    BY DEF Printer!Init
  <2>4. {format, hooks, crash, short} \subseteq BOOLEAN
    BY DEF Printer!Init
  <2>5. tree \in Trees \cup {NULL} /\ mode \in {"print", "buffered", "preallocated"}
        /\ out \in Seq(Printer!Byte) \cup {NULL}
    BY DEF Printer!Init
  <2> QED BY <2>1, <2>2, <2>3, <2>4, <2>5 DEF Printer!TypeOK, PrintBuffers, PrintFrames
<1>3. Printer!WritesStayInside /\ Printer!OnlyTheTextIsLeft
  BY DEF Printer!Init, Printer!WritesStayInside, Printer!OnlyTheTextIsLeft
<1>4. StateIsSound
  <2>1. p.freed = FALSE
    BY DEF Printer!Init
  <2> QED BY <1>1, <2>1 DEF Printer!Init, StateIsSound, BlocksAreCounted, Writing
<1> QED BY <1>1, <1>2, <1>3, <1>4 DEF PrintInv

LEMMA PrintStepIsSound == Assumptions /\ PrintInv /\ [Printer!Next]_printing => PrintInv'
<1> SUFFICES ASSUME Assumptions, PrintInv, [Printer!Next]_printing
             PROVE  PrintInv'
  OBVIOUS
<1>1. CASE Printer!Next
  <2>1. ~crash
    BY <1>1 DEF Printer!Next
  <2> QED BY <1>1, <2>1, PrintTextIsSound, PrintNumberIsSound, PrintNothingIsSound,
             OpenArrayIsSound, OpenObjectIsSound, IndentIsSound, PrintKeyIsSound,
             PrintColonIsSound, UpdateOffsetIsSound, MoreIsSound, CloseIsSound, BeginIsSound,
             CopyIsSound, GiveBufferIsSound, FailIsSound DEF Printer!Next
<1>2. CASE UNCHANGED printing
  <2>1. /\ Printer!TypeOK' = Printer!TypeOK /\ Printer!WritesStayInside' = Printer!WritesStayInside
        /\ Printer!OnlyTheTextIsLeft' = Printer!OnlyTheTextIsLeft
    BY <1>2 DEF printing, Printer!TypeOK, Printer!WritesStayInside, Printer!OnlyTheTextIsLeft,
                Printer!Textless
  <2>2. StateIsSound' = StateIsSound
    BY <1>2 DEF printing, StateIsSound, BufferIsSound, CallsAreSound, BlocksAreCounted,
                Printer!IsString,
                Printer!Ends, Printer!Textless
  <2> QED BY <1>2, <2>1, <2>2 DEF printing, PrintInv
<1> QED BY <1>1, <1>2

\* What has been printed ends somewhere.
OutIsTerminated == out # NULL => \E i \in DOMAIN out : out[i] = NUL

\* The copy gets its NUL, and a buffer that is given away holds a string.
LEMMA OutStaysTerminated ==
  Assumptions /\ PrintInv /\ OutIsTerminated /\ [Printer!Next]_printing => OutIsTerminated'
<1> SUFFICES ASSUME Assumptions, PrintInv, OutIsTerminated, [Printer!Next]_printing, ~UNCHANGED out
             PROVE  OutIsTerminated'
  BY DEF OutIsTerminated
<1>1. ~UNCHANGED printing
  BY DEF printing
<1>2. ~crash /\ (Printer!Copy \/ Printer!GiveBuffer)
  <2>1. ASSUME NEW n, NEW symbols, NEW advance, NEW frames, NEW step,
               Printer!Emit(n, symbols, advance, frames, step)
        PROVE  UNCHANGED out
    BY <2>1 DEF Printer!Emit
  <2>2. ~Printer!PrintText /\ ~Printer!PrintNumber /\ ~Printer!OpenArray
    BY <2>1, Zenon DEF Printer!PrintText, Printer!PrintNumber, Printer!OpenArray
  <2>3. ~Printer!OpenObject /\ ~Printer!Indent /\ ~Printer!PrintKey
    BY <2>1, Zenon DEF Printer!OpenObject, Printer!Indent, Printer!PrintKey
  <2>4. ~Printer!PrintColon /\ ~Printer!Close
    BY <2>1, Zenon DEF Printer!PrintColon, Printer!Close
  <2>5. ~Printer!More
    BY <2>1 DEF Printer!More
  <2>6. ~Printer!Begin /\ ~Printer!PrintNothing /\ ~Printer!UpdateOffset /\ ~Printer!Fail
    BY DEF Printer!Begin, Printer!PrintNothing, Printer!UpdateOffset, Printer!Fail
  <2> QED BY <1>1, <2>2, <2>3, <2>4, <2>5, <2>6 DEF Printer!Next
<1>3. Printer!TypeOK /\ StateIsSound
  BY <1>2 DEF PrintInv
<1>4. CASE Printer!Copy
  <2>1. at \in Writing
    BY <1>4 DEF Printer!Copy, Writing
  <2>2. p.buffer # NULL /\ BufferIsSound
    BY <1>3, <2>1 DEF StateIsSound
  <2>3. /\ p.buffer \in Seq(Printer!Byte) /\ p.length \in Nat /\ p.offset \in Nat
        /\ Len(p.buffer) \in Nat
    BY <1>3, <2>2, Basics
  <2> DEFINE last == Printer!Min({p.length, p.offset})
             kept == SubSeq(p.buffer, 1, last)
  <2>4. last \in {p.length, p.offset} /\ last <= p.offset
    BY <2>3, MinIsLeast
  <2>5. out' = Append(kept, NUL)
    BY <1>4 DEF Printer!Copy, Printer!Terminated
  <2> HIDE DEF last
  <2>6. last \in Nat /\ last <= Len(p.buffer)
    BY <2>2, <2>3, <2>4 DEF BufferIsSound
  <2>7. kept \in Seq(Printer!Byte)
    BY <2>3, <2>6
  <2> HIDE DEF kept
  <2>8. Len(out') \in DOMAIN out' /\ out'[Len(out')] = NUL
    BY <2>5, <2>7
  <2> QED BY <2>8 DEF OutIsTerminated
<1>5. CASE Printer!GiveBuffer
  <2>1. at = "printed" /\ out' = p.buffer
    BY <1>5 DEF Printer!GiveBuffer
  <2>2. p.buffer # NULL /\ Printer!IsString
    BY <1>3, <2>1 DEF StateIsSound, Writing
  <2>3. p.buffer \in Seq(Printer!Byte) /\ p.offset \in Nat /\ Len(p.buffer) \in Nat
    BY <1>3, <2>2, Basics
  <2>4. PICK i \in p.offset + 1 .. Len(p.buffer) : p.buffer[i] = NUL
    BY <2>2 DEF Printer!IsString, Printer!Ends
  <2>5. i \in DOMAIN p.buffer
    BY <2>3, <2>4
  <2> QED BY <2>1, <2>4, <2>5 DEF OutIsTerminated
<1> QED BY <1>2, <1>4, <1>5

-----------------------------------------------------------------------------
(* The printer in front of the parser                                      *)

\* The printer's assumptions are part of those about the text.
LEMMA TextAssumptions == Assumptions
BY TextAssumption DEF Assumptions

\* Once the text has been handed over, the printer does nothing.
LEMMA NothingAfterHandover == at = "handed" => ~Printer!Next
BY DEF Printer!Next, Printer!Begin, Printer!PrintText, Printer!PrintNumber,
       Printer!PrintNothing, Printer!OpenArray, Printer!OpenObject, Printer!Indent,
       Printer!PrintKey, Printer!PrintColon, Printer!UpdateOffset, Printer!More,
       Printer!Close, Printer!Copy, Printer!GiveBuffer, Printer!Fail

\* The printer until the handover, and what it leaves.
HandoverInv ==
  (PrintInv /\ OutIsTerminated) \/ (at = "handed" /\ ~crash /\ Printer!TypeOK)

\* A printer that has done nothing yet is typed.
LEMMA IdleIsTyped ==
  ASSUME tree \in Trees \cup {NULL}, mode = "print", format = FALSE, hooks = TRUE,
         p = [buffer |-> NULL, length |-> 0, offset |-> 0, freed |-> FALSE],
         calls \in Seq(PrintFrames), out = NULL, blocks = 0, crash = FALSE, short = FALSE
  PROVE  Printer!TypeOK
<1>1. INT_MAX \in Nat
  BY TextAssumptions DEF Assumptions, Printer!PrintAssumption
<1>2. 0 \in 0 .. INT_MAX /\ 0 \in -1 .. 1
  BY <1>1
<1>3. p \in PrintBuffers /\ p.buffer = NULL
  BY <1>2 DEF PrintBuffers
<1>4. {format, hooks, crash, short} \subseteq BOOLEAN
  OBVIOUS
<1> QED BY <1>2, <1>3, <1>4 DEF Printer!TypeOK, PrintBuffers, PrintFrames

\* The invariant holds at first.
LEMMA PrinterStarts == TextInit => HandoverInv
<1>1. CASE Printer!Init
  <2>1. PrintInv
    BY <1>1, TextAssumptions, PrintInitIsSound
  <2>2. OutIsTerminated
    BY <1>1 DEF Printer!Init, OutIsTerminated
  <2> QED BY <2>1, <2>2 DEF HandoverInv
<1>2. ASSUME ~Printer!Init, TextInit
      PROVE  HandoverInv
  <2>1. /\ tree = NULL /\ mode = "print" /\ format = FALSE /\ hooks = TRUE
        /\ p = [buffer |-> NULL, length |-> 0, offset |-> 0, freed |-> FALSE]
        /\ calls = <<>> /\ at = "handed" /\ out = NULL /\ blocks = 0
        /\ crash = FALSE /\ short = FALSE
    BY <1>2 DEF TextInit
  <2>2. calls \in Seq(PrintFrames)
    BY <2>1
  <2> QED BY <2>1, <2>2, IdleIsTyped DEF HandoverInv
<1> QED BY <1>1, <1>2

\* No step of the printer, of the handover or of the parser breaks it.
LEMMA PrinterStays == HandoverInv /\ [TextNext]_textVars => HandoverInv'
<1> SUFFICES ASSUME HandoverInv, [TextNext]_textVars
             PROVE  HandoverInv'
  OBVIOUS
<1>1. Printer!TypeOK
  BY DEF HandoverInv, PrintInv
<1>2. CASE Printer!Next
  <2>1. PrintInv /\ OutIsTerminated
    BY <1>2, NothingAfterHandover DEF HandoverInv
  <2>2. PrintInv' /\ OutIsTerminated'
    BY <1>2, <2>1, TextAssumptions, PrintStepIsSound, OutStaysTerminated
  <2> QED BY <2>2 DEF HandoverInv
<1>3. CASE Handover
  <2>1. /\ at' = "handed" /\ ~crash' /\ tree' = tree /\ calls' = calls
        /\ mode' = "print" /\ format' = FALSE /\ hooks' = TRUE /\ out' = NULL
        /\ p' = [buffer |-> NULL, length |-> 0, offset |-> 0, freed |-> FALSE]
        /\ blocks' = 0 /\ crash' = crash /\ short' = FALSE
    BY <1>3 DEF Handover
  <2>2. tree' \in Trees \cup {NULL} /\ calls' \in Seq(PrintFrames) /\ crash' = FALSE
    BY <1>1, <2>1 DEF Printer!TypeOK, PrintFrames
  <2>3. Printer!TypeOK'
    <3>1. INT_MAX \in Nat
      BY TextAssumptions DEF Assumptions, Printer!PrintAssumption
    <3>2. 0 \in 0 .. INT_MAX /\ 0 \in -1 .. 1
      BY <3>1
    <3>3. p' \in PrintBuffers /\ p'.buffer = NULL
      BY <2>1, <3>2 DEF PrintBuffers
    <3>4. {format, hooks, crash, short}' \subseteq BOOLEAN
      BY <2>1, <2>2
    <3> QED BY <2>1, <2>2, <3>2, <3>3, <3>4 DEF Printer!TypeOK, PrintBuffers, PrintFrames
  <2> QED BY <2>1, <2>3 DEF HandoverInv
<1>4. CASE UNCHANGED printing
  <2>1. Printer!TypeOK'
    BY <1>1, <1>4 DEF printing, Printer!TypeOK
  <2>2. PrintInv /\ OutIsTerminated => PrintInv' /\ OutIsTerminated'
    BY <1>4, TextAssumptions, PrintStepIsSound, OutStaysTerminated DEF printing, Printer!vars
  <2> QED BY <1>4, <2>1, <2>2 DEF HandoverInv, printing
<1> QED BY <1>2, <1>3, <1>4 DEF TextNext, textVars

\* What is handed over is a text of tokens, or none.
LEMMA HandedText ==
  HandoverInv /\ Handover => text' = NULL \/ text' \in Seq(Tokens)
<1> SUFFICES ASSUME HandoverInv, Handover, out # NULL
             PROVE  text' \in Seq(Tokens)
  BY DEF Handover
<1>1. text' = Append(TokensOf(Printed), "end")
  BY DEF Handover
<1>2. PrintInv /\ OutIsTerminated
  BY DEF HandoverInv, Handover
<1>3. out \in Seq(Printer!Byte)
  BY <1>2 DEF PrintInv, Printer!TypeOK
<1> DEFINE nuls == {i \in DOMAIN out : out[i] = NUL}
<1>4. nuls # {} /\ nuls \in SUBSET (Nat \ {0})
  BY <1>2, <1>3 DEF OutIsTerminated
<1>5. Min(nuls) \in nuls
  BY <1>4, MinIsMember
<1>6. Printed = SubSeq(out, 1, Min(nuls) - 1)
  BY DEF Printed
<1> HIDE DEF nuls
<1>7. Min(nuls) \in 1 .. Len(out)
  BY <1>3, <1>5 DEF nuls
<1>8. Printed \in Seq(Printer!Byte)
  BY <1>3, <1>6, <1>7
<1>9. TokensOf(Printed) \in Seq(Tokens)
  BY <1>8, TokensAreTokens
<1>10. "end" \in Tokens
  BY DEF Tokens
<1> QED BY <1>1, <1>9, <1>10

\* The invariant of the parser outlasts the handover.
LEMMA ParserStays == HandoverInv /\ IInv /\ [TextNext]_textVars => IInv'
<1> SUFFICES ASSUME HandoverInv, IInv, [TextNext]_textVars
             PROVE  IInv'
  OBVIOUS
<1>1. ParseAssumption
  BY TextAssumption
<1>2. CASE [Next]_vars
  BY <1>1, <1>2, StepIsSound
<1>3. CASE Handover
  <2>1. UNCHANGED <<pos, require, items, strings, stack, pc, ep, result, fault, starved>>
    BY <1>3 DEF Handover
  <2>2. TypeOK' /\ NoFault' /\ NoResultYet' /\ FreshIsBlank'
    BY <1>3, <2>1, HandedText DEF IInv, TypeOK, NoFault, NoResultYet, FreshIsBlank, FreshItems
  <2>3. Held' = Held /\ Live' = Live /\ Target' = Target
    BY <2>1 DEF Held, Live, Target, Top
  <2>4. LinksAreOwned' /\ HeldIsAll' /\ TextsAreOwned' /\ ListsAreLinked'
    BY <2>1, <2>3 DEF IInv, LinksAreOwned, HeldIsAll, TextsAreOwned, ListsAreLinked
  <2>5. FramesAreSound' /\ TargetIsBlank'
    BY <2>1, <2>3 DEF IInv, FramesAreSound, TargetIsBlank, Running
  <2> QED BY <2>2, <2>4, <2>5 DEF IInv
<1> QED BY <1>2, <1>3 DEF TextNext, textVars

\* The printbuffer, the calls and the text are what they are meant to be, and
\* neither length nor offset leaves the range of an int.
THEOREM PrinterTyped == TextSpec => []Printer!TypeOK
<1>1. TextInit => HandoverInv
  BY PrinterStarts
<1>2. HandoverInv /\ [TextNext]_textVars => HandoverInv'
  BY PrinterStays
<1>3. HandoverInv => Printer!TypeOK
  BY DEF HandoverInv, PrintInv
<1> QED BY <1>1, <1>2, <1>3, PTL DEF TextSpec

\* In front of a parser as on its own, a printer writes where room was
\* reserved for it.
THEOREM PrinterStaysInside == TextSpec => []WritesStayInside
<1>1. TextInit => HandoverInv
  BY PrinterStarts
<1>2. HandoverInv /\ [TextNext]_textVars => HandoverInv'
  BY PrinterStays
<1>3. HandoverInv => WritesStayInside
  BY DEF HandoverInv, PrintInv, Printer!WritesStayInside, WritesStayInside
<1> QED BY <1>1, <1>2, <1>3, PTL DEF TextSpec

\* A printer whose text is handed over has kept nothing for itself.
THEOREM PrinterKeepsNothing == TextSpec => []OnlyTheTextIsLeft
<1>1. TextInit => HandoverInv
  BY PrinterStarts
<1>2. HandoverInv /\ [TextNext]_textVars => HandoverInv'
  BY PrinterStays
<1>3. HandoverInv => OnlyTheTextIsLeft
  BY DEF HandoverInv, PrintInv, Printer!OnlyTheTextIsLeft, OnlyTheTextIsLeft
<1> QED BY <1>1, <1>2, <1>3, PTL DEF TextSpec

\* Each item and each string that is allocated has one owner at each moment,
\* also when the text comes from a printer.
THEOREM ParserHoldsOnce == TextSpec => []EverythingIsHeldOnce
<1>1. ParseAssumption
  BY TextAssumption
<1>2. TextInit => HandoverInv /\ IInv
  <2>1. TextInit => Init
    BY DEF TextInit, Init
  <2> QED BY <1>1, <2>1, PrinterStarts, InitIsSound
<1>3. HandoverInv /\ IInv /\ [TextNext]_textVars => (HandoverInv /\ IInv)'
  BY PrinterStays, ParserStays
<1>4. IInv => EverythingIsHeldOnce
  BY <1>1, HeldOnce
<1> QED BY <1>2, <1>3, <1>4, PTL DEF TextSpec
=============================================================================
