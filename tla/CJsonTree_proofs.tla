-------------------------- MODULE CJsonTree_proofs --------------------------
(***************************************************************************)
(* What holds of cJSON's memory for every number of items, whatever        *)
(* allocation fails: as long as nothing has been used that was freed or    *)
(* never allocated, the memory is a forest.  It is made of lists that are  *)
(* linked in both directions, every item has one owner, every string has   *)
(* one, and a copy has nothing in common with its original but looks the   *)
(* same.  What the searches, the conversions and the requests build of it  *)
(* is given back in the end.                                               *)
(*                                                                         *)
(* The items that an operation reaches are the least set that is closed    *)
(* under ownership.  Links says that the holders' sets are apart, and each *)
(* operation is shown to keep Links by what it assigns.  The steps of the  *)
(* calls that take several keep what Working and Copied say of their       *)
(* activations.                                                            *)
(***************************************************************************)
EXTENDS CJsonTree, NssTrees, FiniteSetTheorems, TLAPS

-----------------------------------------------------------------------------
(* The least closed sets                                                   *)

\* A walk from an item in use visits it and what its items lead to, visits no
\* more than it must, and comes to every other item from one that it visits.
LEMMA BehindIsLeast ==
  ASSUME NEW m \in Memory, NEW c \in InUse(m)
  PROVE  /\ c \in Behind(m, c) /\ Behind(m, c) \subseteq InUse(m)
         /\ IsClosed(m, Behind(m, c))
         /\ \A S \in SUBSET InUse(m) : c \in S /\ IsClosed(m, S) => Behind(m, c) \subseteq S
         /\ \A p \in Behind(m, c) \ {c} :
              \E q \in Behind(m, c) : p \in NextOwned(m.item[q])
<1> DEFINE B == Behind(m, c)
<1>1. c \in B /\ B \subseteq InUse(m)
  BY DEF Behind
<1>2. \A S \in SUBSET InUse(m) : c \in S /\ IsClosed(m, S) => B \subseteq S
  BY DEF Behind
<1>3. IsClosed(m, B)
  <2> SUFFICES ASSUME NEW p \in B, NEW q \in NextOwned(m.item[p]), Live(m, q)
               PROVE  q \in B
    BY DEF IsClosed
  <2>1. q \in InUse(m)
    BY DEF InUse, Live
  <2> SUFFICES ASSUME NEW S \in SUBSET InUse(m), c \in S, IsClosed(m, S)
               PROVE  q \in S
    BY <2>1 DEF Behind
  <2>2. p \in S
    BY <1>2
  <2> QED BY <2>2 DEF IsClosed
<1>4. ASSUME NEW p \in B \ {c}
      PROVE  \E q \in B : p \in NextOwned(m.item[q])
  <2> SUFFICES ASSUME \A q \in B : p \notin NextOwned(m.item[q])
               PROVE  FALSE
    OBVIOUS
  <2>1. IsClosed(m, B \ {p})
    BY <1>3 DEF IsClosed
  <2>2. B \ {p} \in SUBSET InUse(m) /\ c \in B \ {p}
    BY <1>1
  <2> QED BY <1>2, <2>1, <2>2
<1> QED BY <1>1, <1>2, <1>3, <1>4

\* The items of a list are the first one and what follows it, and no more.
LEMMA ChildrenAreLeast ==
  ASSUME NEW m \in Memory, NEW a \in Items, m.item[a].child \in InUse(m)
  PROVE  /\ m.item[a].child \in Children(m, a) /\ Children(m, a) \subseteq InUse(m)
         /\ \A c \in Children(m, a) :
              m.item[c].next \in InUse(m) => m.item[c].next \in Children(m, a)
         /\ \A S \in SUBSET InUse(m) :
              /\ m.item[a].child \in S
              /\ \A q \in S : m.item[q].next \in InUse(m) => m.item[q].next \in S
              => Children(m, a) \subseteq S
<1> DEFINE C == Children(m, a)
           first == m.item[a].child
           IsChain(S) == first \in S /\ \A q \in S : Live(m, m.item[q].next) => m.item[q].next \in S
<1>1. \A p : Live(m, p) <=> p \in InUse(m)
  BY DEF InUse, Live
<1>2. C = {c \in InUse(m) : \A S \in {T \in SUBSET InUse(m) : IsChain(T)} : c \in S}
  BY <1>1 DEF Children
<1> HIDE DEF C
<1>3. first \in C /\ C \subseteq InUse(m)
  BY <1>2
<1>4. ASSUME NEW S \in SUBSET InUse(m), IsChain(S)
      PROVE  C \subseteq S
  BY <1>2, <1>4
<1>5. ASSUME NEW c \in C, m.item[c].next \in InUse(m)
      PROVE  m.item[c].next \in C
  <2> SUFFICES ASSUME NEW S \in SUBSET InUse(m), IsChain(S)
               PROVE  m.item[c].next \in S
    BY <1>2, <1>5
  <2> QED BY <1>1, <1>4, <1>5
<1> QED BY <1>1, <1>3, <1>4, <1>5 DEF C

-----------------------------------------------------------------------------
(* Forests                                                                 *)

\* The items in use form trees, of which nothing but the holders owns the
\* roots: links lead to items in use, the two directions of a list agree, no
\* item has two owners, and every item belongs to the tree of a holder.
Links(m, holders) ==
  /\ holders \subseteq InUse(m)
  /\ \A p \in InUse(m) : NextOwned(m.item[p]) \subseteq InUse(m)
  /\ \A p \in InUse(m) : m.item[p].next # NULL => m.item[m.item[p].next].prev = p
  /\ \A p \in InUse(m) :
       m.item[p].prev # NULL => /\ m.item[p].prev \in InUse(m)
                                /\ m.item[m.item[p].prev].next = p
  /\ \A p \in InUse(m) :
       ~m.item[p].reference /\ m.item[p].child # NULL => m.item[m.item[p].child].prev = NULL
  /\ \A p, q \in InUse(m) :
       /\ ~m.item[p].reference /\ ~m.item[q].reference
       /\ m.item[p].child # NULL /\ m.item[p].child = m.item[q].child
       => p = q
  /\ \A h \in holders :
       /\ m.item[h].next = NULL /\ m.item[h].prev = NULL
       /\ \A q \in InUse(m) : ~m.item[q].reference => m.item[q].child # h
  /\ \A S \in SUBSET InUse(m) : holders \subseteq S /\ IsClosed(m, S) => S = InUse(m)

\* Where the links of the items in use lead.
LEMMA LinkTypes ==
  ASSUME NEW m \in Memory, NEW holders, Links(m, holders)
  PROVE  \A p \in InUse(m) :
           /\ p \in Items /\ p # NULL /\ m.item[p] \in Nodes
           /\ m.item[p].reference \in BOOLEAN
           /\ m.item[p].next \in Address /\ m.item[p].prev \in Address
           /\ m.item[p].child \in Address
           /\ m.item[p].next # NULL =>
                m.item[p].next \in InUse(m) /\ m.item[m.item[p].next].prev = p
           /\ m.item[p].prev # NULL =>
                m.item[p].prev \in InUse(m) /\ m.item[m.item[p].prev].next = p
           /\ ~m.item[p].reference /\ m.item[p].child # NULL =>
                m.item[p].child \in InUse(m) /\ m.item[m.item[p].child].prev = NULL
           /\ \A q : q \in NextOwned(m.item[p]) <=>
                q # NULL /\ (q = m.item[p].next \/ (~m.item[p].reference /\ q = m.item[p].child))
<1> SUFFICES ASSUME NEW p \in InUse(m)
             PROVE  /\ p \in Items /\ p # NULL /\ m.item[p] \in Nodes
                    /\ m.item[p].reference \in BOOLEAN
                    /\ m.item[p].next \in Address /\ m.item[p].prev \in Address
                    /\ m.item[p].child \in Address
                    /\ m.item[p].next # NULL =>
                         m.item[p].next \in InUse(m) /\ m.item[m.item[p].next].prev = p
                    /\ m.item[p].prev # NULL =>
                         m.item[p].prev \in InUse(m) /\ m.item[m.item[p].prev].next = p
                    /\ ~m.item[p].reference /\ m.item[p].child # NULL =>
                         m.item[p].child \in InUse(m) /\ m.item[m.item[p].child].prev = NULL
                    /\ \A q : q \in NextOwned(m.item[p]) <=>
                         /\ q # NULL
                         /\ q = m.item[p].next \/ (~m.item[p].reference /\ q = m.item[p].child)
  OBVIOUS
<1>1. p \in Items /\ p # NULL /\ m.item[p] \in Nodes
  BY AddressAssumption DEF InUse, Live, Memory
<1>2. \A q : q \in NextOwned(m.item[p]) <=>
        /\ q # NULL
        /\ q = m.item[p].next \/ (~m.item[p].reference /\ q = m.item[p].child)
  BY DEF NextOwned
<1>3. /\ m.item[p].reference \in BOOLEAN
      /\ m.item[p].next \in Address /\ m.item[p].prev \in Address
      /\ m.item[p].child \in Address
  BY <1>1 DEF Nodes
<1>4. /\ m.item[p].next # NULL =>
           m.item[p].next \in InUse(m) /\ m.item[m.item[p].next].prev = p
      /\ m.item[p].prev # NULL =>
           m.item[p].prev \in InUse(m) /\ m.item[m.item[p].prev].next = p
      /\ ~m.item[p].reference /\ m.item[p].child # NULL =>
           m.item[p].child \in InUse(m) /\ m.item[m.item[p].child].prev = NULL
  BY <1>2 DEF Links
<1> QED BY <1>1, <1>2, <1>3, <1>4

\* A list ends.
LEMMA ListsEnd ==
  ASSUME NEW m \in Memory, NEW holders, Links(m, holders), NEW a \in InUse(m),
         ~m.item[a].reference, m.item[a].child # NULL
  PROVE  /\ Last(m, a) \in Children(m, a) /\ Last(m, a) \in InUse(m)
         /\ m.item[Last(m, a)].next = NULL
<1> DEFINE C == Children(m, a)
           first == m.item[a].child
<1>1. a \in Items /\ first \in InUse(m) /\ m.item[first].prev = NULL
  BY ONLY m \in Memory, Links(m, holders), a \in InUse(m), ~m.item[a].reference,
          m.item[a].child # NULL, LinkTypes
<1>2. /\ first \in C /\ C \subseteq InUse(m)
      /\ \A c \in C : m.item[c].next \in InUse(m) => m.item[c].next \in C
  BY <1>1, ChildrenAreLeast
<1> HIDE DEF C
<1>3. \E c \in C : m.item[c].next = NULL
  <2> SUFFICES ASSUME \A c \in C : m.item[c].next # NULL
               PROVE  FALSE
    OBVIOUS
  <2> DEFINE f == [c \in C |-> m.item[c].next]
             T == C \ {first}
  <2>1. \A c \in C : m.item[c].next \in C /\ m.item[m.item[c].next].prev = c
    BY <1>2, LinkTypes
  <2>2. \A c \in C : c # NULL
    BY <1>2, LinkTypes
  <2>3. f \in [C -> T]
    BY <1>1, <2>1, <2>2
  <2>4. IsFiniteSet(C)
    BY <1>2, FS_Subset, AddressAssumption DEF InUse
  <2>5. IsFiniteSet(T) /\ Cardinality(T) = Cardinality(C) - 1 /\ Cardinality(C) \in Nat
    <3>1. IsFiniteSet(T)
      BY <2>4, FS_RemoveElement
    <3>2. Cardinality(T) = IF first \in C THEN Cardinality(C) - 1 ELSE Cardinality(C)
      BY <2>4, FS_RemoveElement
    <3>3. Cardinality(C) \in Nat
      BY <2>4, FS_CardinalityType
    <3> QED BY <1>2, <3>1, <3>2, <3>3
  <2>6. Cardinality(T) < Cardinality(C)
    BY <2>5
  <2> HIDE DEF f, T
  <2>7. \E x, y \in C : x # y /\ f[x] = f[y]
    BY <2>3, <2>4, <2>5, <2>6, FS_PigeonHole
  <2> QED BY <2>1, <2>7 DEF f
<1>4. Last(m, a) \in C /\ m.item[Last(m, a)].next = NULL
  BY <1>3 DEF Last, C
<1> QED BY <1>2, <1>4 DEF C

\* Only the first item of a list has none before it.
LEMMA ListsBegin ==
  ASSUME NEW m \in Memory, NEW holders, Links(m, holders), NEW a \in InUse(m),
         ~m.item[a].reference, NEW c \in Children(m, a)
  PROVE  /\ m.item[a].child # NULL /\ c \in InUse(m)
         /\ m.item[c].prev = NULL <=> c = m.item[a].child
         /\ m.item[c].prev # NULL => m.item[c].prev \in Children(m, a) \ {c}
         /\ m.item[c].next # NULL => m.item[c].next \in Children(m, a)
<1> DEFINE C == Children(m, a)
           first == m.item[a].child
<1>1. first # NULL
  BY AddressAssumption DEF Children, Live
<1>2. a \in Items /\ first \in InUse(m) /\ m.item[first].prev = NULL
  BY ONLY <1>1, m \in Memory, Links(m, holders), a \in InUse(m), ~m.item[a].reference, LinkTypes
<1>3. /\ first \in C /\ C \subseteq InUse(m)
      /\ \A d \in C : m.item[d].next \in InUse(m) => m.item[d].next \in C
      /\ \A S \in SUBSET InUse(m) :
           /\ first \in S
           /\ \A q \in S : m.item[q].next \in InUse(m) => m.item[q].next \in S
           => C \subseteq S
  BY <1>2, ChildrenAreLeast
<1> HIDE DEF C
<1>4. \A d \in C : m.item[d].next # NULL => m.item[d].next \in C
  BY <1>3, LinkTypes
<1>5. ASSUME NEW d \in C, d # first
      PROVE  m.item[d].prev # NULL /\ m.item[d].prev \in C \ {d}
  <2> DEFINE S == C \ {d}
  <2>1. PICK q \in S : m.item[q].next \in InUse(m) /\ m.item[q].next \notin S
    BY <1>3, <1>5
  <2>2. m.item[q].next = d
    BY <1>3, <2>1
  <2>3. d # NULL /\ q # NULL
    BY <1>3, LinkTypes
  <2> QED BY <1>3, <2>2, <2>3 DEF Links
<1>6. c \in C
  BY DEF C
<1> QED BY <1>1, <1>2, <1>3, <1>4, <1>5, <1>6 DEF C

\* w is m with x put between p and n in the list of a.
SpliceIn(m, w, a, p, x, n) ==
  /\ InUse(w) = InUse(m)
  /\ \A q \in Items :
       /\ w.item[q].reference = m.item[q].reference
       /\ w.item[q].next = IF q = p THEN x ELSE IF q = x THEN n ELSE m.item[q].next
       /\ w.item[q].prev = IF q = x THEN p ELSE IF q = n THEN x ELSE m.item[q].prev
       /\ w.item[q].child = IF q = a /\ p = NULL THEN x ELSE m.item[q].child

\* w is m with c taken from between p and n in the list of a.
SpliceOut(m, w, a, p, c, n) ==
  /\ InUse(w) = InUse(m)
  /\ \A q \in Items :
       /\ w.item[q].reference = m.item[q].reference
       /\ w.item[q].next = IF q = c THEN NULL ELSE IF q = p THEN n ELSE m.item[q].next
       /\ w.item[q].prev = IF q = c THEN NULL ELSE IF q = n THEN p ELSE m.item[q].prev
       /\ w.item[q].child = IF q = a /\ p = NULL THEN n ELSE m.item[q].child

\* Between p and n is a place in the list of a.
IsPlace(m, a, p, n) ==
  \/ p = NULL /\ n = m.item[a].child
  \/ p \in Children(m, a) /\ n = m.item[p].next

\* A holder becomes an element of a list that it does not own.
LEMMA InsertKeepsLinks ==
  ASSUME NEW m \in Memory, NEW w \in Memory, NEW holders, Links(m, holders),
         NEW a \in InUse(m), ~m.item[a].reference, NEW x \in holders, a \notin Behind(m, x),
         NEW p, NEW n, IsPlace(m, a, p, n), SpliceIn(m, w, a, p, x, n)
  PROVE  Links(w, holders \ {x})
<1> DEFINE U == InUse(m)
<1>0. \A q \in U : /\ q \in Items /\ q # NULL
                   /\ m.item[q].next # NULL =>
                        m.item[q].next \in U /\ m.item[m.item[q].next].prev = q
                   /\ m.item[q].prev # NULL =>
                        m.item[q].prev \in U /\ m.item[m.item[q].prev].next = q
  BY LinkTypes
<1>1. /\ x \in U /\ x # NULL /\ m.item[x].next = NULL /\ m.item[x].prev = NULL
      /\ \A q \in U : ~m.item[q].reference => m.item[q].child # x
      /\ \A q \in U : m.item[q].next # x /\ m.item[q].prev # x
  <2>1. /\ x \in U /\ m.item[x].next = NULL /\ m.item[x].prev = NULL
        /\ \A q \in U : ~m.item[q].reference => m.item[q].child # x
    BY DEF Links
  <2> QED BY <1>0, <2>1
<1>2. a # x
  BY <1>1, BehindIsLeast
<1>21. /\ p # NULL => p \in U /\ p # x /\ p \in Children(m, a) /\ n = m.item[p].next
       /\ n # NULL => n \in U /\ n # x /\ m.item[n].prev = p
       /\ p = NULL => n = m.item[a].child
  <2>1. CASE p = NULL /\ n = m.item[a].child
    <3>1. n # NULL => n \in U /\ m.item[n].prev = NULL
      BY <2>1 DEF Links, NextOwned
    <3> QED BY <1>1, <2>1, <3>1
  <2>2. CASE p \in Children(m, a) /\ n = m.item[p].next
    <3>1. p \in U /\ m.item[a].child # NULL
          /\ (m.item[p].prev = NULL <=> p = m.item[a].child)
      BY <2>2, ListsBegin
    <3>2. p # x
      BY <1>1, <3>1
    <3> QED BY <1>0, <1>1, <2>2, <3>1, <3>2
  <2> QED BY <2>1, <2>2 DEF IsPlace
<1>3. \A q \in U : /\ q \in Items /\ q # NULL
                   /\ w.item[q].reference = m.item[q].reference
                   /\ w.item[q].next = IF q = p THEN x ELSE IF q = x THEN n ELSE m.item[q].next
                   /\ w.item[q].prev = IF q = x THEN p ELSE IF q = n THEN x ELSE m.item[q].prev
                   /\ w.item[q].child = IF q = a /\ p = NULL THEN x ELSE m.item[q].child
  BY LinkTypes DEF SpliceIn
<1>4. InUse(w) = U
  BY DEF SpliceIn
<1>5. \A q \in U : \A r : r \in NextOwned(w.item[q]) <=>
        r # NULL /\ (r = w.item[q].next \/ (~w.item[q].reference /\ r = w.item[q].child))
  BY DEF NextOwned
<1>6. \A q \in U : NextOwned(w.item[q]) \subseteq U
  <2>1. \A q \in U : ~m.item[q].reference /\ m.item[q].child # NULL => m.item[q].child \in U
    BY LinkTypes
  <2> QED BY <1>0, <1>1, <1>21, <1>3, <1>5, <2>1
<1>7. \A q \in U : w.item[q].next # NULL => w.item[w.item[q].next].prev = q
  <2> SUFFICES ASSUME NEW q \in U, w.item[q].next # NULL
               PROVE  w.item[w.item[q].next].prev = q
    OBVIOUS
  <2>1. CASE q = p
    BY <1>1, <1>21, <1>3, <2>1
  <2>2. CASE q # p /\ q = x
    BY <1>1, <1>21, <1>3, <2>2
  <2>3. CASE q # p /\ q # x
    <3>1. w.item[q].next = m.item[q].next /\ m.item[q].next \in U
      BY <1>0, <1>3, <2>3
    <3>2. m.item[q].next # x /\ m.item[m.item[q].next].prev = q
      BY <1>0, <1>1, <3>1
    <3>3. m.item[q].next # n
      BY <1>0, <1>21, <2>3, <3>1, <3>2
    <3> QED BY <1>3, <3>1, <3>2, <3>3
  <2> QED BY <2>1, <2>2, <2>3
<1>8. \A q \in U : w.item[q].prev # NULL =>
        w.item[q].prev \in U /\ w.item[w.item[q].prev].next = q
  <2> SUFFICES ASSUME NEW q \in U, w.item[q].prev # NULL
               PROVE  w.item[q].prev \in U /\ w.item[w.item[q].prev].next = q
    OBVIOUS
  <2>1. CASE q = x
    BY <1>1, <1>21, <1>3, <2>1
  <2>2. CASE q # x /\ q = n
    BY <1>1, <1>21, <1>3, <2>2
  <2>3. CASE q # x /\ q # n
    <3>1. w.item[q].prev = m.item[q].prev /\ m.item[q].prev \in U
      BY <1>0, <1>3, <2>3
    <3>2. m.item[q].prev # x /\ m.item[m.item[q].prev].next = q
      BY <1>0, <1>1, <3>1
    <3>3. m.item[q].prev # p
      BY <1>0, <1>21, <2>3, <3>1, <3>2
    <3> QED BY <1>3, <3>1, <3>2, <3>3
  <2> QED BY <2>1, <2>2, <2>3
<1>9. \A q \in U : ~w.item[q].reference /\ w.item[q].child # NULL =>
        w.item[w.item[q].child].prev = NULL
  <2> SUFFICES ASSUME NEW q \in U, ~w.item[q].reference, w.item[q].child # NULL
               PROVE  w.item[w.item[q].child].prev = NULL
    OBVIOUS
  <2>1. CASE q = a /\ p = NULL
    BY <1>1, <1>3, <2>1
  <2>2. CASE ~(q = a /\ p = NULL)
    <3>1. /\ w.item[q].child = m.item[q].child /\ m.item[q].child \in U
          /\ m.item[m.item[q].child].prev = NULL /\ m.item[q].child # x
      BY <1>1, <1>3, <2>2, LinkTypes
    <3>2. m.item[q].child # n
      <4>1. CASE p = NULL
        BY <1>21, <1>3, <2>2, <3>1, <4>1 DEF Links
      <4>2. CASE p # NULL
        BY <1>21, <3>1, <4>2, <1>0
      <4> QED BY <4>1, <4>2
    <3> QED BY <1>3, <3>1, <3>2
  <2> QED BY <2>1, <2>2
<1>10. \A q, r \in U :
         /\ ~w.item[q].reference /\ ~w.item[r].reference
         /\ w.item[q].child # NULL /\ w.item[q].child = w.item[r].child
         => q = r
  <2>1. \A q, r \in U :
          /\ ~m.item[q].reference /\ ~m.item[r].reference
          /\ m.item[q].child # NULL /\ m.item[q].child = m.item[r].child
          => q = r
    BY DEF Links
  <2> QED BY <1>1, <1>3, <2>1
<1>11. \A h \in holders \ {x} :
         /\ w.item[h].next = NULL /\ w.item[h].prev = NULL
         /\ \A q \in U : ~w.item[q].reference => w.item[q].child # h
  <2> SUFFICES ASSUME NEW h \in holders, h # x
               PROVE  /\ w.item[h].next = NULL /\ w.item[h].prev = NULL
                      /\ \A q \in U : ~w.item[q].reference => w.item[q].child # h
    OBVIOUS
  <2>1. /\ h \in U /\ m.item[h].next = NULL /\ m.item[h].prev = NULL
        /\ \A q \in U : ~m.item[q].reference => m.item[q].child # h
    BY DEF Links
  <2>2. h # n
    <3>1. CASE p = NULL
      BY <1>21, <2>1, <3>1
    <3>2. CASE p # NULL
      BY <1>0, <1>21, <2>1, <3>2
    <3> QED BY <3>1, <3>2
  <2>3. h # p
    <3> SUFFICES ASSUME h = p PROVE FALSE
      OBVIOUS
    <3>1. p # NULL
      BY <1>0, <2>1
    <3>2. p = m.item[a].child
      BY <1>21, <2>1, <3>1, ListsBegin
    <3> QED BY <2>1, <3>2
  <2> QED BY <1>3, <2>1, <2>2, <2>3
<1>12. ASSUME NEW S \in SUBSET U, holders \ {x} \subseteq S, IsClosed(w, S)
       PROVE  S = U
  <2>1. \A q \in S : NextOwned(w.item[q]) \subseteq S
    BY <1>4, <1>6, <1>12 DEF IsClosed, InUse
  <2>2. \A T \in SUBSET U : holders \subseteq T
                           /\ (\A q \in T : NextOwned(m.item[q]) \subseteq T) => T = U
    BY DEF Links, IsClosed
  <2>3. \A q \in U : \A r : r \in NextOwned(m.item[q]) <=>
          r # NULL /\ (r = m.item[q].next \/ (~m.item[q].reference /\ r = m.item[q].child))
    BY LinkTypes
  <2>4. CASE x \in S
    <3>1. \A q \in S : NextOwned(m.item[q]) \subseteq S
      <4> SUFFICES ASSUME NEW q \in S, NEW r \in NextOwned(m.item[q])
                   PROVE  r \in S
        OBVIOUS
      <4>1. r # NULL /\ (r = m.item[q].next \/ (~m.item[q].reference /\ r = m.item[q].child))
        BY <2>3
      <4>2. CASE r \in NextOwned(w.item[q])
        BY <2>1, <4>2
      <4>3. CASE r \notin NextOwned(w.item[q])
        <5>1. r = n
          BY <1>1, <1>21, <1>3, <1>5, <4>1, <4>3
        <5>2. n \in NextOwned(w.item[x]) /\ x # p
          BY <1>1, <1>21, <1>3, <1>5, <4>1, <5>1
        <5> QED BY <2>1, <2>4, <5>1, <5>2
      <4> QED BY <4>2, <4>3
    <3> QED BY <2>2, <2>4, <3>1, <1>12
  <2>5. CASE x \notin S
    <3> DEFINE B == Behind(m, x)
    <3>1. B \subseteq U /\ x \in B /\ \A q \in B : NextOwned(m.item[q]) \subseteq B
      <4>1. B \subseteq U /\ x \in B /\ IsClosed(m, B)
        BY <1>1, BehindIsLeast
      <4>2. \A q \in U : NextOwned(m.item[q]) \subseteq U
        BY DEF Links
      <4> QED BY <4>1, <4>2 DEF IsClosed, InUse
    <3>2. /\ p = NULL => a \notin S
          /\ p \notin S
      BY <1>1, <1>21, <1>3, <1>5, <2>1, <2>5
    <3>3. \A q \in S : NextOwned(m.item[q]) \subseteq S
      BY <1>3, <1>5, <2>1, <2>3, <2>5, <3>2
    <3> HIDE DEF B
    <3>4. S \cup B = U
      <4>1. holders \subseteq S \cup B /\ S \cup B \in SUBSET U
        BY <1>12, <3>1
      <4>2. \A q \in S \cup B : NextOwned(m.item[q]) \subseteq S \cup B
        BY <3>1, <3>3
      <4> QED BY <2>2, <4>1, <4>2
    <3>5. a \in S
      BY <3>4 DEF B
    <3>6. p # NULL
      BY <3>2, <3>5
    <3>7. m.item[a].child # NULL /\ p \in Children(m, a)
      BY <1>21, <3>6, ListsBegin
    <3>8. m.item[a].child \in S /\ a \in Items
      BY <2>3, <3>3, <3>5, <3>7, <1>0
    <3>9. \A q \in S : m.item[q].next \in U => m.item[q].next \in S
      BY <1>0, <2>3, <3>3
    <3>10. Children(m, a) \subseteq S
      BY <3>8, <3>9, ChildrenAreLeast
    <3> QED BY <3>2, <3>7, <3>10
  <2> QED BY <2>4, <2>5
<1>13. holders \ {x} \subseteq U
  BY DEF Links
<1> QED BY <1>4, <1>6, <1>7, <1>8, <1>9, <1>10, <1>11, <1>12, <1>13 DEF Links

\* An element that is taken from a list becomes a holder.
LEMMA RemoveKeepsLinks ==
  ASSUME NEW m \in Memory, NEW w \in Memory, NEW holders, Links(m, holders),
         NEW a \in InUse(m), ~m.item[a].reference, NEW c \in Children(m, a),
         SpliceOut(m, w, a, m.item[c].prev, c, m.item[c].next)
  PROVE  Links(w, holders \cup {c})
<1> DEFINE U == InUse(m)
           p == m.item[c].prev
           n == m.item[c].next
<1>0. \A q \in U : /\ q \in Items /\ q # NULL
                   /\ m.item[q].next # NULL =>
                        m.item[q].next \in U /\ m.item[m.item[q].next].prev = q
                   /\ m.item[q].prev # NULL =>
                        m.item[q].prev \in U /\ m.item[m.item[q].prev].next = q
  BY LinkTypes
<1>1. /\ c \in U /\ c # NULL
      /\ p = NULL <=> c = m.item[a].child
      /\ p # NULL => p \in U /\ m.item[p].next = c
      /\ n # NULL => n \in U /\ m.item[n].prev = c
  BY <1>0, ListsBegin
<1>2. c \notin holders
  <2>1. CASE p = NULL
    BY <1>1, <2>1 DEF Links
  <2>2. CASE p # NULL
    BY <2>2 DEF Links
  <2> QED BY <2>1, <2>2
<1>3. \A q \in U : /\ q \in Items /\ q # NULL
                   /\ w.item[q].reference = m.item[q].reference
                   /\ w.item[q].next = IF q = c THEN NULL ELSE IF q = p THEN n ELSE m.item[q].next
                   /\ w.item[q].prev = IF q = c THEN NULL ELSE IF q = n THEN p ELSE m.item[q].prev
                   /\ w.item[q].child = IF q = a /\ p = NULL THEN n ELSE m.item[q].child
  BY <1>0 DEF SpliceOut
<1>4. InUse(w) = U
  BY DEF SpliceOut
<1>5. \A q \in U : \A r : r \in NextOwned(w.item[q]) <=>
        r # NULL /\ (r = w.item[q].next \/ (~w.item[q].reference /\ r = w.item[q].child))
  BY DEF NextOwned
<1> HIDE DEF p, n
<1>6. \A q \in U : NextOwned(w.item[q]) \subseteq U
  <2>1. \A q \in U : ~m.item[q].reference /\ m.item[q].child # NULL => m.item[q].child \in U
    BY LinkTypes
  <2> QED BY <1>0, <1>1, <1>3, <1>5, <2>1
<1>61. n # c /\ p # c
  <2>1. p # c
    BY <1>1, ListsBegin DEF p
  <2> QED BY <1>1, <2>1 DEF p
<1>7. \A q \in U : w.item[q].next # NULL => w.item[w.item[q].next].prev = q
  <2> SUFFICES ASSUME NEW q \in U, w.item[q].next # NULL
               PROVE  w.item[w.item[q].next].prev = q
    OBVIOUS
  <2>1. q # c
    BY <1>3
  <2>2. CASE q = p
    BY <1>1, <1>3, <1>61, <2>2
  <2>3. CASE q # p
    <3>1. w.item[q].next = m.item[q].next /\ m.item[q].next \in U
          /\ m.item[m.item[q].next].prev = q
      BY <1>0, <1>3, <2>1, <2>3
    <3>2. m.item[q].next # c /\ m.item[q].next # n
      BY <1>1, <2>1, <2>3, <3>1 DEF p
    <3> QED BY <1>3, <3>1, <3>2
  <2> QED BY <2>2, <2>3
<1>8. \A q \in U : w.item[q].prev # NULL =>
        w.item[q].prev \in U /\ w.item[w.item[q].prev].next = q
  <2> SUFFICES ASSUME NEW q \in U, w.item[q].prev # NULL
               PROVE  w.item[q].prev \in U /\ w.item[w.item[q].prev].next = q
    OBVIOUS
  <2>1. q # c
    BY <1>3
  <2>2. CASE q = n
    <3>1. w.item[q].prev = p
      BY <1>3, <2>1, <2>2
    <3> QED BY <1>1, <1>3, <1>61, <2>2, <3>1
  <2>3. CASE q # n
    <3>1. w.item[q].prev = m.item[q].prev /\ m.item[q].prev \in U
          /\ m.item[m.item[q].prev].next = q
      BY <1>0, <1>3, <2>1, <2>3
    <3>2. m.item[q].prev # c /\ m.item[q].prev # p
      BY <1>1, <2>1, <2>3, <3>1 DEF n
    <3> QED BY <1>3, <3>1, <3>2
  <2> QED BY <2>2, <2>3
<1>9. \A q \in U : ~w.item[q].reference /\ w.item[q].child # NULL =>
        w.item[w.item[q].child].prev = NULL
  <2> SUFFICES ASSUME NEW q \in U, ~w.item[q].reference, w.item[q].child # NULL
               PROVE  w.item[w.item[q].child].prev = NULL
    OBVIOUS
  <2>1. CASE q = a /\ p = NULL
    BY <1>1, <1>3, <1>61, <2>1
  <2>2. CASE ~(q = a /\ p = NULL)
    <3>1. /\ w.item[q].child = m.item[q].child /\ m.item[q].child \in U
          /\ m.item[m.item[q].child].prev = NULL
      BY <1>3, <2>2, LinkTypes
    <3>2. m.item[q].child # n
      BY <1>1, <3>1
    <3> QED BY <1>3, <3>1, <3>2
  <2> QED BY <2>1, <2>2
<1>91. \A q, r \in U :
         /\ ~m.item[q].reference /\ ~m.item[r].reference
         /\ m.item[q].child # NULL /\ m.item[q].child = m.item[r].child
         => q = r
  BY DEF Links
<1>92. \A q \in U : ~m.item[q].reference /\ m.item[q].child # NULL =>
         m.item[q].child \in U /\ m.item[m.item[q].child].prev = NULL
  BY LinkTypes
<1>93. \A q \in U : ~m.item[q].reference /\ m.item[q].child # NULL => m.item[q].child # n
  BY <1>1, <1>92
<1>10. \A q, r \in U :
         /\ ~w.item[q].reference /\ ~w.item[r].reference
         /\ w.item[q].child # NULL /\ w.item[q].child = w.item[r].child
         => q = r
  BY <1>1, <1>3, <1>91, <1>93
<1>11. \A h \in holders \cup {c} :
         /\ w.item[h].next = NULL /\ w.item[h].prev = NULL
         /\ \A q \in U : ~w.item[q].reference => w.item[q].child # h
  <2>1. ASSUME NEW h \in holders
        PROVE  /\ w.item[h].next = NULL /\ w.item[h].prev = NULL
               /\ \A q \in U : ~w.item[q].reference => w.item[q].child # h
    <3>1. /\ h \in U /\ m.item[h].next = NULL /\ m.item[h].prev = NULL
          /\ \A q \in U : ~m.item[q].reference => m.item[q].child # h
      BY DEF Links
    <3>2. h # c /\ h # n /\ h # p
      BY <1>0, <1>1, <1>2, <3>1
    <3> QED BY <1>1, <1>3, <3>1, <3>2
  <2>2. w.item[c].next = NULL /\ w.item[c].prev = NULL
    BY <1>1, <1>3
  <2>3. ASSUME NEW q \in U, ~w.item[q].reference
        PROVE  w.item[q].child # c
    <3>1. CASE q = a /\ p = NULL
      BY <1>3, <1>61, <3>1
    <3>2. CASE ~(q = a /\ p = NULL)
      <4>1. w.item[q].child = m.item[q].child /\ ~m.item[q].reference
        BY <1>3, <2>3, <3>2
      <4>2. CASE p = NULL
        BY <1>1, <1>91, <3>2, <4>1, <4>2
      <4>3. CASE p # NULL
        BY <1>0, <1>1, <1>92, <4>1, <4>3 DEF p
      <4> QED BY <4>2, <4>3
    <3> QED BY <3>1, <3>2
  <2> QED BY <2>1, <2>2, <2>3
<1>12. ASSUME NEW S \in SUBSET U, holders \cup {c} \subseteq S, IsClosed(w, S)
       PROVE  S = U
  <2>1. \A q \in S : NextOwned(w.item[q]) \subseteq S
    BY <1>4, <1>6, <1>12 DEF IsClosed, InUse
  <2>2. \A T \in SUBSET U : holders \subseteq T
                           /\ (\A q \in T : NextOwned(m.item[q]) \subseteq T) => T = U
    BY DEF Links, IsClosed
  <2>3. \A q \in U : \A r : r \in NextOwned(m.item[q]) <=>
          r # NULL /\ (r = m.item[q].next \/ (~m.item[q].reference /\ r = m.item[q].child))
    BY LinkTypes
  \* The item whose link leads past c now.
  <2> DEFINE o == IF p = NULL THEN a ELSE p
  <2>4. o \in U /\ o # c
    <3>1. CASE p = NULL
      <4> SUFFICES ASSUME a = c PROVE FALSE
        BY <3>1
      <4>1. \A q \in U : m.item[q].next # c
        BY <1>0, <1>1, <3>1 DEF p
      <4>2. \A q \in U \ {c} : m.item[q].reference \/ m.item[q].child # c
        BY <1>1, <1>91, <3>1
      <4>3. \A q \in U : NextOwned(m.item[q]) \subseteq U
        BY DEF Links
      <4>4. \A q \in U \ {c} : NextOwned(m.item[q]) \subseteq U \ {c}
        BY <2>3, <4>1, <4>2, <4>3
      <4>5. holders \subseteq U \ {c}
        BY <1>2 DEF Links
      <4>6. U \ {c} \in SUBSET U
        OBVIOUS
      <4>7. U \ {c} = U
        BY ONLY <2>2, <4>4, <4>5, <4>6
      <4> QED BY <1>1, <4>7
    <3>2. CASE p # NULL
      BY <1>1, <1>61, <3>2
    <3> QED BY <3>1, <3>2
  <2>50. ASSUME NEW q \in U, q # o, q # c
         PROVE  NextOwned(w.item[q]) = NextOwned(m.item[q])
    <3>1. w.item[q].next = m.item[q].next /\ w.item[q].child = m.item[q].child
          /\ w.item[q].reference = m.item[q].reference
      <4>1. CASE p = NULL
        BY <1>3, <1>0, <2>50, <4>1
      <4>2. CASE p # NULL
        BY <1>3, <2>50, <4>2
      <4> QED BY <4>1, <4>2
    <3> QED BY <3>1 DEF NextOwned
  <2>5. \A q \in U : q # o /\ q # c => NextOwned(w.item[q]) = NextOwned(m.item[q])
    BY <2>50
  <2>6. CASE o \in S
    <3>1. n # NULL => n \in S
      <4>1. CASE p = NULL
        <5>1. w.item[a].child = n /\ ~w.item[a].reference
          BY <1>3, <4>1
        <5> QED BY <1>5, <2>1, <2>6, <4>1, <5>1
      <4>2. CASE p # NULL
        <5>1. w.item[p].next = n
          BY <1>1, <1>3, <1>61, <4>2
        <5> QED BY <1>1, <1>5, <2>1, <2>6, <4>2, <5>1
      <4> QED BY <4>1, <4>2
    <3>2. \A q \in S : NextOwned(m.item[q]) \subseteq S
      <4> SUFFICES ASSUME NEW q \in S, NEW r \in NextOwned(m.item[q])
                   PROVE  r \in S
        OBVIOUS
      <4>1. r # NULL /\ (r = m.item[q].next \/ (~m.item[q].reference /\ r = m.item[q].child))
        BY <2>3
      <4>2. CASE r = c
        BY <1>12, <4>2
      <4>3. CASE r # c /\ q = c
        <5>1. CASE r = m.item[c].next
          BY <3>1, <4>1, <5>1 DEF n
        <5>2. CASE r # m.item[c].next
          <6>1. w.item[c].child = m.item[c].child /\ ~w.item[c].reference /\ r = m.item[c].child
            BY <1>1, <1>3, <2>4, <4>1, <4>3, <5>2
          <6> QED BY <1>1, <1>5, <1>12, <2>1, <4>1, <6>1
        <5> QED BY <5>1, <5>2
      <4>4. CASE r # c /\ q = o
        <5>1. CASE p = NULL
          <6>1. m.item[q].child = c
            BY <1>1, <4>4, <5>1
          <6>2. r = m.item[q].next /\ w.item[q].next = m.item[q].next
            BY <1>0, <1>3, <2>4, <4>1, <4>4, <5>1, <6>1
          <6> QED BY <1>5, <2>1, <4>1, <6>2
        <5>2. CASE p # NULL
          <6>1. m.item[q].next = c
            BY <1>1, <4>4, <5>2
          <6>2. r = m.item[q].child /\ w.item[q].child = m.item[q].child
                /\ ~w.item[q].reference
            BY <1>3, <4>1, <4>4, <5>2, <6>1
          <6> QED BY <1>5, <2>1, <4>1, <6>2
        <5> QED BY <5>1, <5>2
      <4>5. CASE q # c /\ q # o
        BY <2>1, <2>5, <4>5
      <4> QED BY <4>2, <4>3, <4>4, <4>5
    <3> QED BY <2>2, <3>2, <1>12
  <2>7. CASE o \notin S
    <3> DEFINE D == Behind(w, c)
    <3>1. /\ c \in D /\ D \subseteq U
          /\ \A d \in D \ {c} : \E q \in D : d \in NextOwned(w.item[q])
      BY <1>1, <1>4, BehindIsLeast
    <3> HIDE DEF D
    <3>2. \A q, d \in U : \A r : r \in NextOwned(w.item[q]) /\ r \in NextOwned(w.item[d]) => q = d
      <4> SUFFICES ASSUME NEW q \in U, NEW d \in U, NEW r,
                          r \in NextOwned(w.item[q]), r \in NextOwned(w.item[d])
                   PROVE  q = d
        OBVIOUS
      <4>1. r # NULL /\ (r = w.item[q].next \/ (~w.item[q].reference /\ r = w.item[q].child))
                    /\ (r = w.item[d].next \/ (~w.item[d].reference /\ r = w.item[d].child))
        BY <1>5
      <4> QED BY <1>3, <1>7, <1>9, <1>10, <4>1
    <3>3. \A q \in U : \A h \in holders \cup {c} : h \notin NextOwned(w.item[q])
      <4> SUFFICES ASSUME NEW q \in U, NEW h \in holders \cup {c}, h \in NextOwned(w.item[q])
                   PROVE  FALSE
        OBVIOUS
      <4>1. h # NULL /\ (h = w.item[q].next \/ (~w.item[q].reference /\ h = w.item[q].child))
        BY <1>5
      <4> QED BY <1>3, <1>7, <1>11, <4>1
    <3>4. \A q \in S \ D : NextOwned(m.item[q]) \subseteq S \ D
      <4> SUFFICES ASSUME NEW q \in S \ D, NEW r \in NextOwned(m.item[q])
                   PROVE  r \in S \ D
        OBVIOUS
      <4>1. r \in NextOwned(w.item[q]) /\ r \in S
        BY <2>1, <2>5, <2>7, <3>1
      <4>2. r # c
        BY <3>3, <4>1
      <4> QED BY <3>1, <3>2, <4>1, <4>2
    <3>5. holders \subseteq S \ D
      BY <1>2, <1>12, <3>1, <3>3
    <3>6. S \ D = U
      BY <2>2, <3>4, <3>5
    <3> QED BY <1>1, <3>1, <3>6
  <2> QED BY <2>6, <2>7
<1>13. holders \cup {c} \subseteq U
  BY <1>1 DEF Links
<1> QED BY <1>4, <1>6, <1>7, <1>8, <1>9, <1>10, <1>11, <1>12, <1>13 DEF Links

\* An item is the next one or the child of at most one item, and of exactly one
\* when it is not a holder.
LEMMA OneOwner ==
  ASSUME NEW m \in Memory, NEW holders, Links(m, holders)
  PROVE  /\ \A q, d \in InUse(m) : \A r :
              r \in NextOwned(m.item[q]) /\ r \in NextOwned(m.item[d]) => q = d
         /\ \A q \in InUse(m) : \A h \in holders : h \notin NextOwned(m.item[q])
         /\ \A p \in InUse(m) \ holders : \E q \in InUse(m) : p \in NextOwned(m.item[q])
         /\ \A q \in InUse(m) :
              ~m.item[q].reference /\ m.item[q].next # NULL => m.item[q].next # m.item[q].child
<1> DEFINE U == InUse(m)
<1>1. \A q \in U : /\ q # NULL
                   /\ m.item[q].next # NULL => m.item[m.item[q].next].prev = q
                   /\ ~m.item[q].reference /\ m.item[q].child # NULL =>
                        m.item[m.item[q].child].prev = NULL
                   /\ \A r : r \in NextOwned(m.item[q]) <=>
                        r # NULL /\ (r = m.item[q].next \/ (~m.item[q].reference /\ r = m.item[q].child))
  BY LinkTypes
<1>2. \A q, d \in U :
         /\ ~m.item[q].reference /\ ~m.item[d].reference
         /\ m.item[q].child # NULL /\ m.item[q].child = m.item[d].child
         => q = d
  BY DEF Links
<1>3. \A q, d \in U : \A r :
        r \in NextOwned(m.item[q]) /\ r \in NextOwned(m.item[d]) => q = d
  BY <1>1, <1>2
<1>4. \A q \in U : \A h \in holders : h \notin NextOwned(m.item[q])
  <2>1. \A h \in holders : m.item[h].prev = NULL
          /\ \A q \in U : ~m.item[q].reference => m.item[q].child # h
    BY DEF Links
  <2> QED BY <1>1, <2>1
<1>5. \A q \in U :
        ~m.item[q].reference /\ m.item[q].next # NULL => m.item[q].next # m.item[q].child
  BY <1>1
<1>6. ASSUME NEW p \in U \ holders
      PROVE  \E q \in U : p \in NextOwned(m.item[q])
  <2> SUFFICES ASSUME \A q \in U : p \notin NextOwned(m.item[q])
               PROVE  FALSE
    OBVIOUS
  <2>1. U \ {p} \in SUBSET U /\ holders \subseteq U \ {p}
    BY DEF Links
  <2>2. IsClosed(m, U \ {p})
    BY DEF Links, IsClosed
  <2>3. U \ {p} = U
    BY <2>1, <2>2 DEF Links
  <2> QED BY <2>3
<1> QED BY <1>3, <1>4, <1>5, <1>6

\* The trees of two holders have nothing in common, and what a tree does not
\* own it does not lead to.
LEMMA BehindIsApart ==
  ASSUME NEW m \in Memory, NEW holders, Links(m, holders), NEW x \in holders
  PROVE  /\ x \in Behind(m, x) /\ Behind(m, x) \subseteq InUse(m)
         /\ \A q \in Behind(m, x) : NextOwned(m.item[q]) \subseteq Behind(m, x)
         /\ \A q \in InUse(m) : NextOwned(m.item[q]) \cap Behind(m, x) # {} => q \in Behind(m, x)
         /\ \A h \in holders : h \in Behind(m, x) => h = x
<1> DEFINE U == InUse(m)
           B == Behind(m, x)
<1>1. x \in U /\ \A q \in U : NextOwned(m.item[q]) \subseteq U
  BY DEF Links
<1>2. /\ x \in B /\ B \subseteq U /\ IsClosed(m, B)
      /\ \A p \in B \ {x} : \E q \in B : p \in NextOwned(m.item[q])
  BY <1>1, BehindIsLeast
<1> HIDE DEF B
<1>3. \A q \in B : NextOwned(m.item[q]) \subseteq B
  BY <1>1, <1>2 DEF IsClosed, InUse
<1>4. /\ \A q, d \in U : \A r :
           r \in NextOwned(m.item[q]) /\ r \in NextOwned(m.item[d]) => q = d
      /\ \A q \in U : \A h \in holders : h \notin NextOwned(m.item[q])
  BY OneOwner
<1>5. \A q \in U : NextOwned(m.item[q]) \cap B # {} => q \in B
  BY <1>2, <1>4
<1>6. \A h \in holders : h \in B => h = x
  BY <1>2, <1>4
<1> QED BY <1>2, <1>3, <1>5, <1>6 DEF B

\* The tree of a holder is taken away.
LEMMA DeleteKeepsLinks ==
  ASSUME NEW m \in Memory, NEW w \in Memory, NEW holders, Links(m, holders),
         NEW x \in holders, InUse(w) = InUse(m) \ Behind(m, x),
         \A q \in InUse(w) : w.item[q] = m.item[q]
  PROVE  Links(w, holders \ {x})
<1> DEFINE U == InUse(m)
           B == Behind(m, x)
           V == U \ B
<1>1. /\ x \in B /\ B \subseteq U
      /\ \A q \in B : NextOwned(m.item[q]) \subseteq B
      /\ \A q \in U : NextOwned(m.item[q]) \cap B # {} => q \in B
      /\ \A h \in holders : h \in B => h = x
  BY BehindIsApart
<1>2. InUse(w) = V /\ \A q \in V : w.item[q] = m.item[q]
  OBVIOUS
<1> HIDE DEF B
<1>3. \A q \in U : /\ q # NULL
                   /\ m.item[q].next # NULL =>
                        m.item[q].next \in U /\ m.item[m.item[q].next].prev = q
                   /\ m.item[q].prev # NULL =>
                        m.item[q].prev \in U /\ m.item[m.item[q].prev].next = q
                   /\ ~m.item[q].reference /\ m.item[q].child # NULL =>
                        m.item[q].child \in U /\ m.item[m.item[q].child].prev = NULL
                   /\ \A r : r \in NextOwned(m.item[q]) <=>
                        r # NULL /\ (r = m.item[q].next \/ (~m.item[q].reference /\ r = m.item[q].child))
  BY LinkTypes
<1>4. \A q \in V : NextOwned(m.item[q]) \subseteq V
  BY <1>1, <1>3
<1>5. ASSUME NEW q \in V, m.item[q].prev # NULL
      PROVE  m.item[q].prev \in V
  <2>1. m.item[q].prev \in U /\ q \in NextOwned(m.item[m.item[q].prev])
    BY <1>3, <1>5
  <2> QED BY <1>1, <2>1
<1>51. \A q \in V : /\ m.item[q].next # NULL => m.item[q].next \in V
                    /\ ~m.item[q].reference /\ m.item[q].child # NULL => m.item[q].child \in V
  BY <1>3, <1>4
<1>6. holders \ {x} \subseteq V
  BY <1>1 DEF Links
<1>7. \A p \in V : NextOwned(w.item[p]) \subseteq V
  BY <1>2, <1>4
<1>8. \A p \in V : w.item[p].next # NULL => w.item[w.item[p].next].prev = p
  BY <1>2, <1>3, <1>51
<1>9. \A p \in V : w.item[p].prev # NULL =>
        w.item[p].prev \in V /\ w.item[w.item[p].prev].next = p
  BY <1>2, <1>3, <1>5
<1>10. \A p \in V : ~w.item[p].reference /\ w.item[p].child # NULL =>
         w.item[w.item[p].child].prev = NULL
  BY <1>2, <1>3, <1>51
<1>11. \A p, q \in V :
         /\ ~w.item[p].reference /\ ~w.item[q].reference
         /\ w.item[p].child # NULL /\ w.item[p].child = w.item[q].child
         => p = q
  BY <1>2 DEF Links
<1>12. \A h \in holders \ {x} :
         /\ w.item[h].next = NULL /\ w.item[h].prev = NULL
         /\ \A q \in V : ~w.item[q].reference => w.item[q].child # h
  BY <1>2, <1>6 DEF Links
<1>13. ASSUME NEW S \in SUBSET V, holders \ {x} \subseteq S, IsClosed(w, S)
       PROVE  S = V
  <2>1. \A q \in S : NextOwned(m.item[q]) \subseteq S
    BY <1>2, <1>4, <1>13 DEF IsClosed, InUse
  <2>2. \A q \in S \cup B : NextOwned(m.item[q]) \subseteq S \cup B
    BY <1>1, <2>1
  <2>3. S \cup B \in SUBSET U /\ holders \subseteq S \cup B
    BY <1>1, <1>13
  <2>4. S \cup B = U
    BY <2>2, <2>3 DEF Links, IsClosed
  <2> QED BY <2>4
<1> QED BY <1>2, <1>6, <1>7, <1>8, <1>9, <1>10, <1>11, <1>12, <1>13 DEF Links

\* Links say nothing of the other fields.
LEMMA SameLinks ==
  ASSUME NEW m \in Memory, NEW w \in Memory, NEW holders, Links(m, holders),
         InUse(w) = InUse(m),
         \A q \in InUse(m) : /\ w.item[q].reference = m.item[q].reference
                             /\ w.item[q].next = m.item[q].next
                             /\ w.item[q].prev = m.item[q].prev
                             /\ w.item[q].child = m.item[q].child
  PROVE  /\ Links(w, holders)
         /\ \A p \in InUse(m) : Behind(w, p) = Behind(m, p)
         /\ \A p \in InUse(m) : Children(w, p) = Children(m, p)
<1> DEFINE U == InUse(m)
<1>1. \A q \in U : NextOwned(w.item[q]) = NextOwned(m.item[q])
  BY DEF NextOwned
<1>2. \A S \in SUBSET U : IsClosed(w, S) <=> IsClosed(m, S)
  <2>1. \A q : Live(w, q) <=> Live(m, q)
    BY DEF InUse, Live
  <2> QED BY <1>1, <2>1 DEF IsClosed
<1>3. /\ holders \subseteq U
      /\ \A p \in U : NextOwned(m.item[p]) \subseteq U
      /\ \A p \in U : m.item[p].next # NULL =>
           m.item[p].next \in U /\ m.item[m.item[p].next].prev = p
      /\ \A p \in U : m.item[p].prev # NULL =>
           m.item[p].prev \in U /\ m.item[m.item[p].prev].next = p
      /\ \A p \in U : ~m.item[p].reference /\ m.item[p].child # NULL =>
           m.item[p].child \in U /\ m.item[m.item[p].child].prev = NULL
  BY LinkTypes DEF Links
<1>4. \A S \in SUBSET U : holders \subseteq S /\ IsClosed(w, S) => S = U
  BY <1>2 DEF Links
<1>5. \A p, q \in U :
        /\ ~w.item[p].reference /\ ~w.item[q].reference
        /\ w.item[p].child # NULL /\ w.item[p].child = w.item[q].child
        => p = q
  BY DEF Links
<1>6. \A h \in holders :
         /\ w.item[h].next = NULL /\ w.item[h].prev = NULL
         /\ \A q \in U : ~w.item[q].reference => w.item[q].child # h
  BY DEF Links
<1>7. Links(w, holders)
  <2>1. \A p \in U : NextOwned(w.item[p]) \subseteq U
    BY <1>1, <1>3
  <2>2. \A p \in U : w.item[p].next # NULL => w.item[w.item[p].next].prev = p
    BY <1>3
  <2>3. \A p \in U : w.item[p].prev # NULL =>
          w.item[p].prev \in U /\ w.item[w.item[p].prev].next = p
    BY <1>3
  <2>4. \A p \in U : ~w.item[p].reference /\ w.item[p].child # NULL =>
          w.item[w.item[p].child].prev = NULL
    BY <1>3
  <2> QED BY <1>3, <1>4, <1>5, <1>6, <2>1, <2>2, <2>3, <2>4 DEF Links
<1>8. \A p \in U : Behind(w, p) = Behind(m, p)
  BY <1>2 DEF Behind
<1>9. ASSUME NEW p \in U
      PROVE  Children(w, p) = Children(m, p)
  <2>1. \A q : Live(w, q) <=> Live(m, q)
    BY DEF InUse, Live
  <2>2. \A S \in SUBSET U :
          (m.item[p].child \in S /\ \A q \in S : Live(m, m.item[q].next) => m.item[q].next \in S)
          <=> (w.item[p].child \in S /\ \A q \in S : Live(w, w.item[q].next) => w.item[q].next \in S)
    BY <2>1
  <2> DEFINE CM == {S \in SUBSET U : m.item[p].child \in S /\ \A q \in S : Live(m, m.item[q].next) => m.item[q].next \in S}
             CW == {S \in SUBSET U : w.item[p].child \in S /\ \A q \in S : Live(w, w.item[q].next) => w.item[q].next \in S}
  <2>3. CM = CW
    BY <2>2
  <2>4. Children(m, p) = IF Live(m, m.item[p].child) THEN {c \in U : \A S \in CM : c \in S} ELSE {}
    BY DEF Children
  <2>5. Children(w, p) = IF Live(w, w.item[p].child) THEN {c \in U : \A S \in CW : c \in S} ELSE {}
    BY DEF Children
  <2> HIDE DEF CM, CW
  <2> QED BY <2>1, <2>3, <2>4, <2>5
<1> QED BY <1>7, <1>8, <1>9

-----------------------------------------------------------------------------
(* Assignments                                                             *)

\* w differs from m at most in how the items in T are linked.
Relinked(m, w, T) ==
  /\ w \in Memory
  /\ w.text = m.text /\ w.fault = m.fault /\ w.starved = m.starved /\ w.budget = m.budget
  /\ \A q \in Items :
       /\ w.item[q].live = m.item[q].live /\ w.item[q].reference = m.item[q].reference
       /\ w.item[q].constName = m.item[q].constName
       /\ w.item[q].value = m.item[q].value /\ w.item[q].name = m.item[q].name
       /\ w.item[q].ref = m.item[q].ref
       /\ q \notin T => w.item[q] = m.item[q]

\* One link of p becomes v, and all others stay.
NextSet(m, w, p, v) ==
  \A q \in Items : /\ w.item[q].next = IF q = p THEN v ELSE m.item[q].next
                   /\ w.item[q].prev = m.item[q].prev
                   /\ w.item[q].child = m.item[q].child

\* The link back becomes v.
PrevSet(m, w, p, v) ==
  \A q \in Items : /\ w.item[q].prev = IF q = p THEN v ELSE m.item[q].prev
                   /\ w.item[q].next = m.item[q].next
                   /\ w.item[q].child = m.item[q].child

\* The link to the children becomes v.
ChildSet(m, w, p, v) ==
  \A q \in Items : /\ w.item[q].child = IF q = p THEN v ELSE m.item[q].child
                   /\ w.item[q].next = m.item[q].next
                   /\ w.item[q].prev = m.item[q].prev

\* p holds n from now on.
Put(m, w, p, n) ==
  /\ w \in Memory
  /\ w.text = m.text /\ w.fault = m.fault /\ w.starved = m.starved /\ w.budget = m.budget
  /\ w.item[p] = n /\ \A q \in Items \ {p} : w.item[q] = m.item[q]
  /\ InUse(w) = IF n.live THEN InUse(m) \cup {p} ELSE InUse(m) \ {p}

\* One item is given another content.
LEMMA OneItem ==
  ASSUME NEW m \in Memory, NEW p \in Items, NEW n \in Nodes, NEW w,
         w = [m EXCEPT !.item = [m.item EXCEPT ![p] = n]]
  PROVE  Put(m, w, p, n)
<1>1. m.item \in [Items -> Nodes]
  BY DEF Memory
<1>2. w \in Memory
  BY <1>1 DEF Memory
<1>3. /\ w.text = m.text /\ w.fault = m.fault /\ w.starved = m.starved /\ w.budget = m.budget
      /\ w.item[p] = n /\ \A q \in Items \ {p} : w.item[q] = m.item[q]
  BY <1>1, <1>2 DEF Memory
<1>4. InUse(w) = IF n.live THEN InUse(m) \cup {p} ELSE InUse(m) \ {p}
  BY <1>3 DEF InUse, Live
<1> QED BY <1>2, <1>3, <1>4 DEF Put

\* What one assignment to the field next of an item in use does.
LEMMA SetNext ==
  ASSUME NEW m \in Memory, NEW p \in InUse(m), NEW v \in Address,
         NEW w, w = Set(m, p, "next", v)
  PROVE  /\ Relinked(m, w, {p}) /\ InUse(w) = InUse(m) /\ w \in Memory
         /\ NextSet(m, w, p, v)
<1> DEFINE n == [m.item[p] EXCEPT !.next = v]
<1>1. p \in Items /\ Live(m, p) /\ m.item[p] \in Nodes
  BY DEF InUse, Memory
<1>2. n \in Nodes
  BY <1>1 DEF Nodes
<1>3. /\ n.next = v /\ n.prev = m.item[p].prev /\ n.child = m.item[p].child
      /\ n.live = m.item[p].live /\ n.reference = m.item[p].reference
      /\ n.constName = m.item[p].constName /\ n.value = m.item[p].value
      /\ n.name = m.item[p].name /\ n.ref = m.item[p].ref
  BY <1>1 DEF Nodes
<1>4. w = [m EXCEPT !.item = [m.item EXCEPT ![p] = n]]
  BY <1>1 DEF Set
<1> HIDE DEF n
<1>5. /\ w \in Memory /\ w.text = m.text /\ w.fault = m.fault /\ w.starved = m.starved
      /\ w.budget = m.budget
      /\ w.item[p] = n /\ \A q \in Items \ {p} : w.item[q] = m.item[q]
  BY <1>1, <1>2, <1>4, OneItem DEF Put
<1>6. NextSet(m, w, p, v)
  BY <1>3, <1>5 DEF NextSet
<1>7. Relinked(m, w, {p})
  BY <1>3, <1>5 DEF Relinked
<1>8. InUse(w) = InUse(m)
  BY <1>7 DEF Relinked, InUse, Live
<1> QED BY <1>5, <1>6, <1>7, <1>8

\* What one assignment to the field prev of an item in use does.
LEMMA SetPrev ==
  ASSUME NEW m \in Memory, NEW p \in InUse(m), NEW v \in Address,
         NEW w, w = Set(m, p, "prev", v)
  PROVE  /\ Relinked(m, w, {p}) /\ InUse(w) = InUse(m) /\ w \in Memory
         /\ PrevSet(m, w, p, v)
<1> DEFINE n == [m.item[p] EXCEPT !.prev = v]
<1>1. p \in Items /\ Live(m, p) /\ m.item[p] \in Nodes
  BY DEF InUse, Memory
<1>2. n \in Nodes
  BY <1>1 DEF Nodes
<1>3. /\ n.prev = v /\ n.next = m.item[p].next /\ n.child = m.item[p].child
      /\ n.live = m.item[p].live /\ n.reference = m.item[p].reference
      /\ n.constName = m.item[p].constName /\ n.value = m.item[p].value
      /\ n.name = m.item[p].name /\ n.ref = m.item[p].ref
  BY <1>1 DEF Nodes
<1>4. w = [m EXCEPT !.item = [m.item EXCEPT ![p] = n]]
  BY <1>1 DEF Set
<1> HIDE DEF n
<1>5. /\ w \in Memory /\ w.text = m.text /\ w.fault = m.fault /\ w.starved = m.starved
      /\ w.budget = m.budget
      /\ w.item[p] = n /\ \A q \in Items \ {p} : w.item[q] = m.item[q]
  BY <1>1, <1>2, <1>4, OneItem DEF Put
<1>6. PrevSet(m, w, p, v)
  BY <1>3, <1>5 DEF PrevSet
<1>7. Relinked(m, w, {p})
  BY <1>3, <1>5 DEF Relinked
<1>8. InUse(w) = InUse(m)
  BY <1>7 DEF Relinked, InUse, Live
<1> QED BY <1>5, <1>6, <1>7, <1>8

\* What one assignment to the field child of an item in use does.
LEMMA SetChild ==
  ASSUME NEW m \in Memory, NEW p \in InUse(m), NEW v \in Address,
         NEW w, w = Set(m, p, "child", v)
  PROVE  /\ Relinked(m, w, {p}) /\ InUse(w) = InUse(m) /\ w \in Memory
         /\ ChildSet(m, w, p, v)
<1> DEFINE n == [m.item[p] EXCEPT !.child = v]
<1>1. p \in Items /\ Live(m, p) /\ m.item[p] \in Nodes
  BY DEF InUse, Memory
<1>2. n \in Nodes
  BY <1>1 DEF Nodes
<1>3. /\ n.child = v /\ n.next = m.item[p].next /\ n.prev = m.item[p].prev
      /\ n.live = m.item[p].live /\ n.reference = m.item[p].reference
      /\ n.constName = m.item[p].constName /\ n.value = m.item[p].value
      /\ n.name = m.item[p].name /\ n.ref = m.item[p].ref
  BY <1>1 DEF Nodes
<1>4. w = [m EXCEPT !.item = [m.item EXCEPT ![p] = n]]
  BY <1>1 DEF Set
<1> HIDE DEF n
<1>5. /\ w \in Memory /\ w.text = m.text /\ w.fault = m.fault /\ w.starved = m.starved
      /\ w.budget = m.budget
      /\ w.item[p] = n /\ \A q \in Items \ {p} : w.item[q] = m.item[q]
  BY <1>1, <1>2, <1>4, OneItem DEF Put
<1>6. ChildSet(m, w, p, v)
  BY <1>3, <1>5 DEF ChildSet
<1>7. Relinked(m, w, {p})
  BY <1>3, <1>5 DEF Relinked
<1>8. InUse(w) = InUse(m)
  BY <1>7 DEF Relinked, InUse, Live
<1> QED BY <1>5, <1>6, <1>7, <1>8

\* Assignments one after another.
LEMMA RelinkedTwice ==
  ASSUME NEW m \in Memory, NEW v, NEW w, NEW T, NEW S, Relinked(m, v, T), Relinked(v, w, S)
  PROVE  Relinked(m, w, T \cup S) /\ InUse(v) = InUse(m) /\ InUse(w) = InUse(m)
<1>1. Relinked(m, w, T \cup S)
  BY DEF Relinked
<1>2. InUse(v) = InUse(m)
  BY DEF Relinked, InUse, Live
<1>3. InUse(w) = InUse(m)
  BY DEF Relinked, InUse, Live
<1> QED BY <1>1, <1>2, <1>3

-----------------------------------------------------------------------------
(* Operations on lists                                                     *)

\* Two items are made neighbours.
Joined(m, w, p, x) ==
  \A q \in Items : /\ w.item[q].next = IF q = p THEN x ELSE m.item[q].next
                   /\ w.item[q].prev = IF q = x THEN p ELSE m.item[q].prev
                   /\ w.item[q].child = m.item[q].child

\* suffix_object links two items.
LEMMA SuffixLinks ==
  ASSUME NEW m \in Memory, NEW p \in InUse(m), NEW x \in InUse(m),
         NEW w, w = Suffix(m, p, x)
  PROVE  Relinked(m, w, {p, x}) /\ InUse(w) = InUse(m) /\ Joined(m, w, p, x)
<1> DEFINE v == Set(m, p, "next", x)
<1>1. x \in Address /\ p \in Address
  BY DEF Address, InUse
<1>2. /\ Relinked(m, v, {p}) /\ InUse(v) = InUse(m) /\ v \in Memory
      /\ NextSet(m, v, p, x)
  BY <1>1, SetNext
<1>3. w = Set(v, x, "prev", p)
  BY DEF Suffix
<1> HIDE DEF v
<1>4. Relinked(v, w, {x}) /\ PrevSet(v, w, x, p)
  BY <1>1, <1>2, <1>3, SetPrev
<1>5. Relinked(m, w, {p} \cup {x}) /\ InUse(w) = InUse(m)
  BY <1>2, <1>4, RelinkedTwice
<1>6. {p} \cup {x} = {p, x}
  OBVIOUS
<1>7. Joined(m, w, p, x)
  BY <1>2, <1>4 DEF Joined, NextSet, PrevSet
<1> QED BY <1>5, <1>6, <1>7

\* A holder that is appended belongs to the list from then on.
LEMMA AppendKeepsLinks ==
  ASSUME NEW m \in Memory, NEW holders, Links(m, holders), NEW a \in InUse(m),
         ~m.item[a].reference, NEW x \in holders, a \notin Behind(m, x),
         NEW w, w = AddItemToArray(m, a, x)
  PROVE  Relinked(m, w, InUse(m)) /\ Links(w, holders \ {x})
<1>1. /\ x \in InUse(m) /\ x # NULL /\ a # NULL /\ x \in Address
      /\ m.item[x].next = NULL /\ m.item[x].prev = NULL
  <2>1. x \in InUse(m) /\ m.item[x].next = NULL /\ m.item[x].prev = NULL
    BY DEF Links
  <2> QED BY <2>1, LinkTypes DEF Address
<1>2. \A q \in Items : q # NULL
  BY AddressAssumption
<1>3. CASE m.item[a].child = NULL
  <2>1. w = Set(m, a, "child", x)
    BY <1>1, <1>3 DEF AddItemToArray
  <2>2. /\ Relinked(m, w, {a})
        /\ ChildSet(m, w, a, x)
    BY <1>1, <2>1, SetChild
  <2>3. w \in Memory /\ InUse(w) = InUse(m) /\ Relinked(m, w, InUse(m))
    BY <2>2 DEF Relinked, InUse, Live
  <2>4. SpliceIn(m, w, a, NULL, x, NULL)
    BY <1>1, <1>2, <2>2, <2>3 DEF SpliceIn, Relinked, ChildSet
  <2>5. IsPlace(m, a, NULL, NULL)
    BY <1>3 DEF IsPlace
  <2>6. Links(w, holders \ {x})
    BY <2>3, <2>4, <2>5, InsertKeepsLinks
  <2> QED BY <2>3, <2>6
<1>4. CASE m.item[a].child # NULL
  <2> DEFINE p == Last(m, a)
  <2>1. w = Suffix(m, p, x)
    BY <1>1, <1>4 DEF AddItemToArray
  <2>2. p \in Children(m, a) /\ p \in InUse(m) /\ m.item[p].next = NULL
    BY <1>4, ListsEnd
  <2> HIDE DEF p
  <2>3. Relinked(m, w, {p, x}) /\ Joined(m, w, p, x)
    BY <1>1, <2>1, <2>2, SuffixLinks
  <2>4. w \in Memory /\ InUse(w) = InUse(m) /\ Relinked(m, w, InUse(m))
    BY <1>1, <2>2, <2>3 DEF Relinked, InUse, Live
  <2>41. p # NULL
    BY <1>2, <2>2 DEF InUse
  <2>5. SpliceIn(m, w, a, p, x, NULL)
    BY <1>1, <1>2, <2>2, <2>3, <2>4, <2>41 DEF SpliceIn, Relinked, Joined
  <2>6. IsPlace(m, a, p, NULL)
    BY <2>2 DEF IsPlace
  <2>7. Links(w, holders \ {x})
    BY <2>4, <2>5, <2>6, InsertKeepsLinks
  <2> QED BY <2>4, <2>7
<1> QED BY <1>3, <1>4

\* The assignments of DetachItemFromArray take an element out of its list.
LEMMA UnlinkTakesOut ==
  ASSUME NEW m \in Memory, NEW holders, Links(m, holders), NEW a \in InUse(m),
         ~m.item[a].reference, NEW c \in Children(m, a), NEW w, w = Unlink(m, a, c)
  PROVE  /\ Relinked(m, w, InUse(m)) /\ Links(w, holders \cup {c})
         /\ SpliceOut(m, w, a, m.item[c].prev, c, m.item[c].next)
<1> DEFINE p == m.item[c].prev
           n == m.item[c].next
           U == InUse(m)
           v1 == IF p = NULL THEN m ELSE Set(m, p, "next", n)
           v2 == IF n = NULL THEN v1 ELSE Set(v1, n, "prev", p)
           v3 == IF c = m.item[a].child THEN Set(v2, a, "child", n) ELSE v2
           v4 == Set(v3, c, "prev", NULL)
<1>01. w = Set(v4, c, "next", NULL)
  BY DEF Unlink
<1>0. \A q \in U : /\ q \in Items /\ q # NULL
                   /\ m.item[q].next \in Address /\ m.item[q].prev \in Address
                   /\ m.item[q].next # NULL =>
                        m.item[q].next \in U /\ m.item[m.item[q].next].prev = q
                   /\ m.item[q].prev # NULL =>
                        m.item[q].prev \in U /\ m.item[m.item[q].prev].next = q
  BY LinkTypes
<1>1. /\ c \in U /\ c # NULL /\ p \in Address /\ n \in Address /\ NULL \in Address
      /\ p = NULL <=> c = m.item[a].child
      /\ p # NULL => p \in U /\ p # c
      /\ n # NULL => n \in U /\ m.item[n].prev = c
  BY <1>0, ListsBegin DEF Address
<1>2. n # c
  BY <1>1, <1>0
<1> HIDE DEF p, n
<1>3. /\ Relinked(m, v1, U) /\ InUse(v1) = U /\ v1 \in Memory
      /\ \A q \in Items : /\ v1.item[q].next = IF q = p THEN n ELSE m.item[q].next
                          /\ v1.item[q].prev = m.item[q].prev
                          /\ v1.item[q].child = m.item[q].child
  <2>0. \A q \in Items : q # NULL
    BY AddressAssumption
  <2>1. CASE p = NULL
    BY <2>0, <2>1 DEF Relinked
  <2>2. CASE p # NULL
    <3>1. /\ Relinked(m, v1, {p})
          /\ NextSet(m, v1, p, n)
      BY <1>1, <2>2, SetNext
    <3> HIDE DEF v1
    <3>2. Relinked(m, v1, U) /\ InUse(v1) = U /\ v1 \in Memory
      BY <1>1, <2>2, <3>1 DEF Relinked, InUse, Live
    <3> QED BY <3>1, <3>2 DEF NextSet
  <2> QED BY <2>1, <2>2
<1> HIDE DEF v1
<1>4. /\ Relinked(m, v2, U) /\ InUse(v2) = U /\ v2 \in Memory
      /\ \A q \in Items : /\ v2.item[q].next = IF q = p THEN n ELSE m.item[q].next
                          /\ v2.item[q].prev = IF q = n THEN p ELSE m.item[q].prev
                          /\ v2.item[q].child = m.item[q].child
  <2>0. \A q \in Items : q # NULL
    BY AddressAssumption
  <2>1. CASE n = NULL
    BY <1>3, <2>0, <2>1
  <2>2. CASE n # NULL
    <3>1. /\ Relinked(v1, v2, {n})
          /\ PrevSet(v1, v2, n, p)
      BY <1>1, <1>3, <2>2, SetPrev
    <3> HIDE DEF v2
    <3>2. Relinked(m, v2, U) /\ InUse(v2) = U /\ v2 \in Memory
      BY <1>1, <1>3, <2>2, <3>1 DEF Relinked, InUse, Live
    <3> QED BY <1>3, <3>1, <3>2 DEF PrevSet
  <2> QED BY <2>1, <2>2
<1> HIDE DEF v2
<1>5. /\ Relinked(m, v3, U) /\ InUse(v3) = U /\ v3 \in Memory
      /\ \A q \in Items : /\ v3.item[q].next = IF q = p THEN n ELSE m.item[q].next
                          /\ v3.item[q].prev = IF q = n THEN p ELSE m.item[q].prev
                          /\ v3.item[q].child = IF q = a /\ p = NULL THEN n ELSE m.item[q].child
  <2>1. CASE p # NULL
    BY <1>1, <1>4, <2>1
  <2>2. CASE p = NULL
    <3>1. /\ Relinked(v2, v3, {a})
          /\ ChildSet(v2, v3, a, n)
      BY <1>1, <1>4, <2>2, SetChild
    <3> HIDE DEF v3
    <3>2. Relinked(m, v3, U) /\ InUse(v3) = U /\ v3 \in Memory
      BY <1>4, <3>1 DEF Relinked, InUse, Live
    <3> QED BY <1>4, <2>2, <3>1, <3>2 DEF ChildSet
  <2> QED BY <2>1, <2>2
<1> HIDE DEF v3
<1>6. /\ Relinked(v3, v4, {c})
      /\ PrevSet(v3, v4, c, NULL)
  BY <1>1, <1>5, SetPrev
<1>7. InUse(v4) = U /\ v4 \in Memory
  BY <1>5, <1>6 DEF Relinked, InUse, Live
<1> HIDE DEF v4
<1>8. /\ Relinked(v4, w, {c})
      /\ NextSet(v4, w, c, NULL)
  BY <1>01, <1>1, <1>7, SetNext
<1>9. Relinked(v3, w, {c} \cup {c})
  BY <1>5, <1>6, <1>8, RelinkedTwice
<1>10. Relinked(m, w, U \cup ({c} \cup {c})) /\ InUse(w) = U
  BY <1>5, <1>9, RelinkedTwice
<1>11. Relinked(m, w, U) /\ w \in Memory
  <2>1. U \cup ({c} \cup {c}) = U
    BY <1>1
  <2>2. Relinked(m, w, U)
    BY <1>10, <2>1
  <2> QED BY <2>2 DEF Relinked
<1>12. SpliceOut(m, w, a, p, c, n)
  <2>1. \A q \in Items : w.item[q].reference = m.item[q].reference
    BY <1>11 DEF Relinked
  <2> QED BY <1>5, <1>6, <1>8, <1>10, <2>1 DEF SpliceOut, NextSet, PrevSet
<1>13. Links(w, holders \cup {c})
  BY <1>11, <1>12, RemoveKeepsLinks DEF p, n
<1> QED BY <1>11, <1>12, <1>13 DEF p, n

\* A holder that is inserted belongs to the list from then on.
LEMMA InsertItemKeepsLinks ==
  ASSUME NEW m \in Memory, NEW holders, Links(m, holders), NEW a \in InUse(m),
         ~m.item[a].reference, NEW x \in holders, a \notin Behind(m, x),
         NEW c \in Children(m, a) \cup {NULL}, NEW w, w = InsertItemInArray(m, a, c, x)
  PROVE  Relinked(m, w, InUse(m)) /\ Links(w, holders \ {x})
<1>1. CASE c = NULL
  <2>1. w = AddItemToArray(m, a, x)
    BY <1>1 DEF InsertItemInArray
  <2> QED BY <2>1, AppendKeepsLinks
<1>2. CASE c # NULL
  <2> DEFINE p == m.item[c].prev
             U == InUse(m)
             v1 == Set(m, x, "next", c)
             v2 == Set(v1, x, "prev", p)
             v3 == Set(v2, c, "prev", x)
  <2>1. c \in Children(m, a)
    BY <1>2
  <2>2. /\ c \in U
        /\ p = NULL <=> c = m.item[a].child
        /\ p # NULL => p \in Children(m, a) /\ p # c
    BY <2>1, ListsBegin
  <2>3. \A q \in U : /\ q \in Items /\ q # NULL
                     /\ m.item[q].prev \in Address
                     /\ m.item[q].next # NULL => m.item[m.item[q].next].prev = q
                     /\ m.item[q].prev # NULL =>
                          m.item[q].prev \in U /\ m.item[m.item[q].prev].next = q
    BY LinkTypes
  <2>4. /\ x \in U /\ m.item[x].next = NULL /\ m.item[x].prev = NULL
        /\ \A q \in U : ~m.item[q].reference => m.item[q].child # x
    BY DEF Links
  <2>5. x # c
    BY <2>2, <2>3, <2>4
  <2>6. c \in Address /\ p \in Address /\ x \in Address /\ (p # NULL => p \in U /\ m.item[p].next = c /\ p # x)
    BY <2>2, <2>3, <2>4, <2>5 DEF Address
  <2>7. IsPlace(m, a, p, c)
    BY <2>2, <2>6 DEF IsPlace
  <2>8. w = IF c = m.item[a].child THEN Set(v3, a, "child", x)
            ELSE Set(v3, v3.item[x].prev, "next", x)
    BY <1>2 DEF InsertItemInArray
  <2> HIDE DEF p
  <2>9. Relinked(m, v1, {x}) /\ InUse(v1) = U /\ v1 \in Memory /\ NextSet(m, v1, x, c)
    BY <2>4, <2>6, SetNext
  <2> HIDE DEF v1
  <2>10. Relinked(v1, v2, {x}) /\ InUse(v2) = U /\ v2 \in Memory /\ PrevSet(v1, v2, x, p)
    <3>1. v1 \in Memory /\ x \in InUse(v1) /\ p \in Address /\ InUse(v1) = U
      BY <2>4, <2>6, <2>9
    <3> QED BY ONLY <3>1, SetPrev
  <2> HIDE DEF v2
  <2>11. Relinked(v2, v3, {c}) /\ InUse(v3) = U /\ v3 \in Memory /\ PrevSet(v2, v3, c, x)
    BY <2>2, <2>6, <2>10, SetPrev
  <2> HIDE DEF v3
  <2>12. v3.item[x].prev = p
    BY <2>3, <2>4, <2>5, <2>10, <2>11 DEF PrevSet
  <2>13. /\ \A q \in Items :
              /\ v3.item[q].next = IF q = x THEN c ELSE m.item[q].next
              /\ v3.item[q].prev = IF q = x THEN p ELSE IF q = c THEN x ELSE m.item[q].prev
              /\ v3.item[q].child = m.item[q].child
    BY <2>5, <2>9, <2>10, <2>11 DEF NextSet, PrevSet
  <2>14. /\ w \in Memory /\ InUse(w) = U
         /\ \E T \in SUBSET U : Relinked(v3, w, T)
         /\ \A q \in Items :
              /\ w.item[q].next = IF q = p THEN x ELSE IF q = x THEN c ELSE m.item[q].next
              /\ w.item[q].prev = IF q = x THEN p ELSE IF q = c THEN x ELSE m.item[q].prev
              /\ w.item[q].child = IF q = a /\ p = NULL THEN x ELSE m.item[q].child
    <3>1. CASE p = NULL
      <4>1. w = Set(v3, a, "child", x)
        BY <2>2, <2>8, <3>1
      <4>2. Relinked(v3, w, {a}) /\ InUse(w) = U /\ w \in Memory /\ ChildSet(v3, w, a, x)
        BY <2>6, <2>11, <4>1, SetChild
      <4>3. \A q \in Items : q # p
        BY <3>1, AddressAssumption
      <4>4. \A q \in Items :
              /\ w.item[q].next = IF q = p THEN x ELSE IF q = x THEN c ELSE m.item[q].next
              /\ w.item[q].prev = IF q = x THEN p ELSE IF q = c THEN x ELSE m.item[q].prev
              /\ w.item[q].child = IF q = a /\ p = NULL THEN x ELSE m.item[q].child
        BY <2>13, <3>1, <4>2, <4>3 DEF ChildSet
      <4> QED BY <4>2, <4>4
    <3>2. CASE p # NULL
      <4>1. w = Set(v3, p, "next", x) /\ p \in U
        BY <2>2, <2>6, <2>8, <2>12, <3>2
      <4>2. Relinked(v3, w, {p}) /\ InUse(w) = U /\ w \in Memory /\ NextSet(v3, w, p, x)
        BY <2>6, <2>11, <4>1, SetNext
      <4>3. \A q \in Items :
              /\ w.item[q].next = IF q = p THEN x ELSE IF q = x THEN c ELSE m.item[q].next
              /\ w.item[q].prev = IF q = x THEN p ELSE IF q = c THEN x ELSE m.item[q].prev
              /\ w.item[q].child = IF q = a /\ p = NULL THEN x ELSE m.item[q].child
        BY <2>13, <3>2, <4>2 DEF NextSet
      <4> QED BY <4>1, <4>2, <4>3
    <3> QED BY <3>1, <3>2
  <2>15. PICK T \in SUBSET U : Relinked(v3, w, T)
    BY <2>14
  <2>16. Relinked(m, w, U)
    <3>1. Relinked(m, v2, {x} \cup {x})
      BY <2>9, <2>10, RelinkedTwice
    <3>2. Relinked(m, v3, ({x} \cup {x}) \cup {c})
      BY <2>11, <3>1, RelinkedTwice
    <3>3. Relinked(m, w, (({x} \cup {x}) \cup {c}) \cup T)
      BY <2>15, <3>2, RelinkedTwice
    <3> QED BY <2>2, <2>4, <3>3 DEF Relinked, InUse
  <2>17. SpliceIn(m, w, a, p, x, c)
    <3>1. \A q \in Items : w.item[q].reference = m.item[q].reference
      BY <2>16 DEF Relinked
    <3> QED BY <2>14, <3>1 DEF SpliceIn
  <2>18. Links(w, holders \ {x})
    BY <2>7, <2>14, <2>17, InsertKeepsLinks
  <2> QED BY <2>16, <2>18
<1> QED BY <1>1, <1>2

\* Without one of its elements a list still has the place where it was, and is
\* still no part of another tree.
LEMMA PlaceStays ==
  ASSUME NEW m \in Memory, NEW v \in Memory, NEW holders, Links(m, holders), NEW a \in InUse(m),
         ~m.item[a].reference, NEW x \in holders, a \notin Behind(m, x), NEW c \in Children(m, a),
         NEW p, p = m.item[c].prev, NEW n, n = m.item[c].next,
         Links(v, holders \cup {c}), SpliceOut(m, v, a, p, c, n)
  PROVE  IsPlace(v, a, p, n) /\ a \notin Behind(v, x)
<1> DEFINE U == InUse(m)
           B == Behind(m, x)
           C == Children(m, a)
<1>1. /\ c \in U /\ m.item[a].child # NULL
      /\ p = NULL <=> c = m.item[a].child
      /\ p # NULL => p \in C /\ p # c
  BY ListsBegin
<1>2. \A q \in U : /\ q \in Items /\ q # NULL
                   /\ m.item[q].next # NULL =>
                        m.item[q].next \in U /\ m.item[m.item[q].next].prev = q
                   /\ m.item[q].prev # NULL =>
                        m.item[q].prev \in U /\ m.item[m.item[q].prev].next = q
                   /\ ~m.item[q].reference /\ m.item[q].child # NULL => m.item[q].child \in U
                   /\ \A r : r \in NextOwned(m.item[q]) <=>
                        r # NULL /\ (r = m.item[q].next \/ (~m.item[q].reference /\ r = m.item[q].child))
  BY LinkTypes
<1>3. /\ InUse(v) = U
      /\ \A q \in U :
         /\ v.item[q].reference = m.item[q].reference
         /\ v.item[q].next = IF q = c THEN NULL ELSE IF q = p THEN n ELSE m.item[q].next
         /\ v.item[q].child = IF q = a /\ p = NULL THEN n ELSE m.item[q].child
  BY <1>2 DEF SpliceOut
<1>4. /\ m.item[a].child \in C /\ C \subseteq U
      /\ \A S \in SUBSET U :
           /\ m.item[a].child \in S
           /\ \A q \in S : m.item[q].next \in U => m.item[q].next \in S
           => C \subseteq S
  BY <1>1, <1>2, ChildrenAreLeast
<1> HIDE DEF C
<1>5. a \notin Behind(v, x)
  <2>1. /\ x \in B /\ B \subseteq U
        /\ \A q \in B : NextOwned(m.item[q]) \subseteq B
        /\ \A q \in U : NextOwned(m.item[q]) \cap B # {} => q \in B
    BY BehindIsApart
  <2>2. a \notin B
    OBVIOUS
  <2> HIDE DEF B
  <2>3. C \cap B = {}
    <3>1. m.item[a].child \in C \ B
      BY <1>1, <1>2, <1>4, <2>1, <2>2
    <3>2. ASSUME NEW q \in U \ B, m.item[q].next \in U
          PROVE  m.item[q].next \in U \ B
      <4>1. m.item[q].next \in NextOwned(m.item[q])
        BY <1>2, <3>2
      <4> QED BY <2>1, <3>2, <4>1
    <3>3. C \subseteq U \ B
      BY <1>4, <3>1, <3>2
    <3> QED BY <3>3
  <2>4. \A q \in B : v.item[q].next = m.item[q].next /\ v.item[q].child = m.item[q].child
                     /\ v.item[q].reference = m.item[q].reference
    <3>1. c \in C
      BY DEF C
    <3> QED BY <1>1, <1>2, <1>3, <2>1, <2>2, <2>3, <3>1
  <2>5. \A q \in B : NextOwned(v.item[q]) \subseteq B
    BY <2>1, <2>4 DEF NextOwned
  <2>6. IsClosed(v, B)
    BY <2>5 DEF IsClosed
  <2>7. Behind(v, x) \subseteq B
    BY <1>3, <2>1, <2>6, BehindIsLeast
  <2> QED BY <2>2, <2>7
<1>6. CASE p = NULL
  <2>1. n = v.item[a].child
    BY <1>3, <1>6
  <2> QED BY <1>5, <1>6, <2>1 DEF IsPlace
<1>7. CASE p # NULL
  <2> DEFINE D == Children(v, a)
  <2>1. v.item[a].child = m.item[a].child /\ v.item[a].child \in InUse(v) /\ a \in Items
    BY <1>2, <1>3, <1>1, <1>7
  <2>2. /\ v.item[a].child \in D /\ D \subseteq U
        /\ \A q \in D : v.item[q].next \in U => v.item[q].next \in D
    BY <1>3, <2>1, ChildrenAreLeast
  <2> HIDE DEF D
  <2>20. p \in C /\ p # c /\ p \in U /\ m.item[p].next = c /\ c # NULL
    BY <1>1, <1>2, <1>7
  <2>21. SUFFICES p \in D
    <3>1. v.item[p].next = n
      BY <1>3, <2>20
    <3> QED BY <1>5, <3>1 DEF IsPlace, D
  <2>3. SUFFICES ASSUME p \notin D PROVE FALSE
    OBVIOUS
  <2>4. \A q \in D \ {c} : m.item[q].next \in U => m.item[q].next \in D \ {c}
    <3>1. \A q \in D \ {c} : v.item[q].next = m.item[q].next /\ q \in U
      BY <1>3, <2>2, <2>3
    <3>2. \A q \in D \ {c} : m.item[q].next # c
      BY <1>2, <2>20, <2>3, <3>1
    <3> QED BY <2>2, <3>1, <3>2
  <2>5. C \subseteq D \ {c}
    <3>1. m.item[a].child \in D \ {c}
      BY <1>1, <1>7, <2>1, <2>2
    <3> QED BY <1>4, <2>2, <2>4, <3>1
  <2> QED BY <2>5, <2>20, <2>3
<1> QED BY <1>6, <1>7

\* What cJSON_ReplaceItemInArray has done before it deletes the old element.
ReplaceLinks(m, a, c, x) ==
  LET n == m.item[c]
      linked == Set(Set(m, x, "next", n.next), x, "prev", n.prev)
      after == IF n.next = NULL THEN linked ELSE Set(linked, n.next, "prev", x)
      first == IF c = m.item[a].child THEN Set(after, a, "child", x)
                                      ELSE Set(after, n.prev, "next", x)
  IN  Set(Set(first, c, "next", NULL), c, "prev", NULL)

\* The new element takes the place of the old one, which becomes a holder.
LEMMA ReplaceKeepsLinks ==
  ASSUME NEW m \in Memory, NEW holders, Links(m, holders), NEW a \in InUse(m),
         ~m.item[a].reference, NEW x \in holders, a \notin Behind(m, x),
         NEW c \in Children(m, a), NEW w, w = ReplaceLinks(m, a, c, x)
  PROVE  Relinked(m, w, InUse(m)) /\ Links(w, (holders \cup {c}) \ {x})
<1> DEFINE p == m.item[c].prev
           n == m.item[c].next
           U == InUse(m)
           v1 == Set(m, x, "next", n)
           v2 == Set(v1, x, "prev", p)
           v3 == IF n = NULL THEN v2 ELSE Set(v2, n, "prev", x)
           v4 == IF c = m.item[a].child THEN Set(v3, a, "child", x) ELSE Set(v3, p, "next", x)
           v5 == Set(v4, c, "next", NULL)
           v == Unlink(m, a, c)
<1>1. /\ Relinked(m, v, U) /\ Links(v, holders \cup {c}) /\ SpliceOut(m, v, a, p, c, n)
  BY UnlinkTakesOut
<1>2. v \in Memory /\ InUse(v) = U
  BY <1>1 DEF Relinked, SpliceOut
<1> HIDE DEF v
<1>3. IsPlace(v, a, p, n) /\ a \notin Behind(v, x)
  BY <1>1, <1>2, PlaceStays
<1>4. w = Set(v5, c, "prev", NULL)
  BY DEF ReplaceLinks
<1>5. /\ c \in U
      /\ p = NULL <=> c = m.item[a].child
      /\ p # NULL => p \in Children(m, a) /\ p # c
  BY ListsBegin
<1>6. \A q \in U : /\ q \in Items /\ q # NULL
                   /\ m.item[q].prev \in Address /\ m.item[q].next \in Address
                   /\ m.item[q].next # NULL =>
                        m.item[q].next \in U /\ m.item[m.item[q].next].prev = q
                   /\ m.item[q].prev # NULL =>
                        m.item[q].prev \in U /\ m.item[m.item[q].prev].next = q
  BY LinkTypes
<1>7. /\ x \in U /\ m.item[x].next = NULL /\ m.item[x].prev = NULL
      /\ \A q \in U : ~m.item[q].reference => m.item[q].child # x
  BY DEF Links
<1>8. x # c
  BY <1>5, <1>6, <1>7
<1>9. /\ p \in Address /\ n \in Address /\ x \in Address /\ NULL \in Address
      /\ p # NULL => p \in U /\ m.item[p].next = c /\ p # x /\ p # c
      /\ n # NULL => n \in U /\ m.item[n].prev = c /\ n # x /\ n # c
  <2>1. n # c
    BY <1>5, <1>6
  <2> QED BY <1>5, <1>6, <1>7, <1>8, <2>1 DEF Address
<1>91. \A q \in Items : q # NULL
  BY AddressAssumption
<1> HIDE DEF p, n
<1>10. Relinked(m, v1, {x}) /\ InUse(v1) = U /\ v1 \in Memory /\ NextSet(m, v1, x, n)
  BY <1>7, <1>9, SetNext
<1> HIDE DEF v1
<1>11. Relinked(v1, v2, {x}) /\ InUse(v2) = U /\ v2 \in Memory /\ PrevSet(v1, v2, x, p)
  <2>1. v1 \in Memory /\ x \in InUse(v1) /\ p \in Address /\ InUse(v1) = U
    BY <1>7, <1>9, <1>10
  <2> QED BY ONLY <2>1, SetPrev
<1> HIDE DEF v2
<1>12. /\ Relinked(m, v2, U)
       /\ \A q \in Items :
            /\ v2.item[q].next = IF q = x THEN n ELSE m.item[q].next
            /\ v2.item[q].prev = IF q = x THEN p ELSE m.item[q].prev
            /\ v2.item[q].child = m.item[q].child
  <2>1. Relinked(m, v2, {x} \cup {x})
    BY <1>10, <1>11, RelinkedTwice
  <2> QED BY <1>7, <1>10, <1>11, <2>1 DEF Relinked, NextSet, PrevSet
<1>13. /\ Relinked(m, v3, U) /\ InUse(v3) = U /\ v3 \in Memory
       /\ \A q \in Items :
            /\ v3.item[q].next = IF q = x THEN n ELSE m.item[q].next
            /\ v3.item[q].prev = IF q = x THEN p ELSE IF q = n THEN x ELSE m.item[q].prev
            /\ v3.item[q].child = m.item[q].child
  <2>1. CASE n = NULL
    BY <1>11, <1>12, <1>91, <2>1
  <2>2. CASE n # NULL
    <3>1. v3 = Set(v2, n, "prev", x) /\ n \in InUse(v2) /\ x \in Address /\ v2 \in Memory
      BY <1>9, <1>11, <2>2
    <3> HIDE DEF v3
    <3>2. Relinked(v2, v3, {n}) /\ InUse(v3) = U /\ v3 \in Memory /\ PrevSet(v2, v3, n, x)
      BY ONLY <3>1, SetPrev, <1>11
    <3>3. Relinked(m, v3, U \cup {n})
      BY <1>12, <3>2, RelinkedTwice
    <3>4. U \cup {n} = U
      BY <1>9, <2>2
    <3>5. Relinked(m, v3, U)
      BY <3>3, <3>4
    <3> QED BY <1>9, <1>12, <2>2, <3>2, <3>5 DEF PrevSet
  <2> QED BY <2>1, <2>2
<1> HIDE DEF v3
<1>14. /\ Relinked(m, v4, U) /\ InUse(v4) = U /\ v4 \in Memory
       /\ \A q \in Items :
            /\ v4.item[q].next = IF q = p THEN x ELSE IF q = x THEN n ELSE m.item[q].next
            /\ v4.item[q].prev = IF q = x THEN p ELSE IF q = n THEN x ELSE m.item[q].prev
            /\ v4.item[q].child = IF q = a /\ p = NULL THEN x ELSE m.item[q].child
  <2>1. CASE p = NULL
    <3>1. v4 = Set(v3, a, "child", x) /\ a \in InUse(v3) /\ x \in Address /\ v3 \in Memory
      BY <1>5, <1>9, <1>13, <2>1
    <3> HIDE DEF v4
    <3>2. Relinked(v3, v4, {a}) /\ InUse(v4) = U /\ v4 \in Memory /\ ChildSet(v3, v4, a, x)
      BY ONLY <3>1, SetChild, <1>13
    <3>3. Relinked(m, v4, U \cup {a})
      BY <1>13, <3>2, RelinkedTwice
    <3>4. U \cup {a} = U
      OBVIOUS
    <3>5. Relinked(m, v4, U)
      BY <3>3, <3>4
    <3> QED BY <1>13, <1>91, <2>1, <3>2, <3>5 DEF ChildSet
  <2>2. CASE p # NULL
    <3>1. v4 = Set(v3, p, "next", x) /\ p \in InUse(v3) /\ x \in Address /\ v3 \in Memory
      BY <1>5, <1>9, <1>13, <2>2
    <3> HIDE DEF v4
    <3>2. Relinked(v3, v4, {p}) /\ InUse(v4) = U /\ v4 \in Memory /\ NextSet(v3, v4, p, x)
      BY ONLY <3>1, SetNext, <1>13
    <3>3. Relinked(m, v4, U \cup {p})
      BY <1>13, <3>2, RelinkedTwice
    <3>4. U \cup {p} = U
      BY <1>9, <2>2
    <3>5. Relinked(m, v4, U)
      BY <3>3, <3>4
    <3> QED BY <1>13, <2>2, <3>2, <3>5 DEF NextSet
  <2> QED BY <2>1, <2>2
<1> HIDE DEF v4
<1>15. Relinked(v4, v5, {c}) /\ InUse(v5) = U /\ v5 \in Memory /\ NextSet(v4, v5, c, NULL)
  <2>1. v4 \in Memory /\ c \in InUse(v4) /\ NULL \in Address /\ InUse(v4) = U
    BY <1>5, <1>9, <1>14
  <2> QED BY ONLY <2>1, SetNext
<1> HIDE DEF v5
<1>16. Relinked(v5, w, {c}) /\ InUse(w) = U /\ w \in Memory /\ PrevSet(v5, w, c, NULL)
  <2>1. v5 \in Memory /\ c \in InUse(v5) /\ NULL \in Address /\ InUse(v5) = U
    BY <1>5, <1>9, <1>15
  <2> QED BY ONLY <2>1, <1>4, SetPrev
<1>17. Relinked(m, w, U)
  <2>1. Relinked(m, v5, U \cup {c})
    BY <1>14, <1>15, RelinkedTwice
  <2>2. Relinked(m, w, (U \cup {c}) \cup {c})
    BY <1>16, <2>1, RelinkedTwice
  <2>3. (U \cup {c}) \cup {c} = U
    BY <1>5
  <2> QED BY <2>2, <2>3
<1>18. SpliceIn(v, w, a, p, x, n)
  <2>1. \A q \in Items : w.item[q].reference = v.item[q].reference
    BY <1>1, <1>17 DEF Relinked
  <2>2. \A q \in Items :
          /\ v.item[q].next = IF q = c THEN NULL ELSE IF q = p THEN n ELSE m.item[q].next
          /\ v.item[q].prev = IF q = c THEN NULL ELSE IF q = n THEN p ELSE m.item[q].prev
          /\ v.item[q].child = IF q = a /\ p = NULL THEN n ELSE m.item[q].child
    BY <1>1 DEF SpliceOut
  <2>3. \A q \in Items :
          /\ w.item[q].next = IF q = c THEN NULL ELSE v4.item[q].next
          /\ w.item[q].prev = IF q = c THEN NULL ELSE v4.item[q].prev
          /\ w.item[q].child = v4.item[q].child
    BY <1>15, <1>16 DEF NextSet, PrevSet
  <2>4. \A q \in Items :
          /\ w.item[q].next = IF q = p THEN x ELSE IF q = x THEN n ELSE v.item[q].next
          /\ w.item[q].prev = IF q = x THEN p ELSE IF q = n THEN x ELSE v.item[q].prev
          /\ w.item[q].child = IF q = a /\ p = NULL THEN x ELSE v.item[q].child
    <3> SUFFICES ASSUME NEW q \in Items
                 PROVE  /\ w.item[q].next = IF q = p THEN x ELSE IF q = x THEN n ELSE v.item[q].next
                        /\ w.item[q].prev = IF q = x THEN p ELSE IF q = n THEN x ELSE v.item[q].prev
                        /\ w.item[q].child = IF q = a /\ p = NULL THEN x ELSE v.item[q].child
      OBVIOUS
    <3>1. p # c /\ n # c /\ q # NULL
      BY <1>5, <1>6, <1>9, <1>91
    <3>2. w.item[q].next = IF q = p THEN x ELSE IF q = x THEN n ELSE v.item[q].next
      BY <1>8, <1>14, <2>2, <2>3, <3>1
    <3>3. w.item[q].prev = IF q = x THEN p ELSE IF q = n THEN x ELSE v.item[q].prev
      BY <1>8, <1>14, <2>2, <2>3, <3>1
    <3>4. w.item[q].child = IF q = a /\ p = NULL THEN x ELSE v.item[q].child
      BY <1>14, <2>2, <2>3
    <3> QED BY <3>2, <3>3, <3>4
  <2> QED BY <1>2, <1>16, <2>1, <2>4 DEF SpliceIn
<1>19. Links(w, (holders \cup {c}) \ {x})
  <2>1. /\ v \in Memory /\ w \in Memory /\ Links(v, holders \cup {c}) /\ a \in InUse(v)
        /\ ~v.item[a].reference /\ x \in holders \cup {c} /\ a \notin Behind(v, x)
        /\ IsPlace(v, a, p, n) /\ SpliceIn(v, w, a, p, x, n)
    BY <1>1, <1>2, <1>3, <1>6, <1>16, <1>18 DEF Relinked
  <2> QED BY ONLY <2>1, InsertKeepsLinks
<1> QED BY <1>17, <1>19

\* What can be reached from an item is closed under what its items lead to.
LEMMA ReachesIsLeast ==
  ASSUME NEW m, NEW x \in InUse(m)
  PROVE  /\ x \in Reaches(m, x) /\ Reaches(m, x) \subseteq InUse(m)
         /\ \A q \in Reaches(m, x) : Children(m, q) \subseteq Reaches(m, x)
         /\ \A y \in Reaches(m, x) : Reaches(m, y) \subseteq Reaches(m, x)
<1> DEFINE U == InUse(m)
           To(q) == Children(m, q) \cup ({m.item[q].ref} \cap U)
           leads == Leads(m)
           Closed(S) == \A q \in S : To(q) \subseteq S
<1>1. \A y : Reaches(m, y) = {p \in U : \A S \in {T \in SUBSET U : y \in T /\ Closed(T)} : p \in S}
  <2>1. leads = {[from |-> q, to |-> To(q)] : q \in U}
    BY DEF Leads
  <2> HIDE DEF leads, To
  <2>2. ASSUME NEW T \in SUBSET U
        PROVE  (\A l \in leads : l.from \in T => l.to \subseteq T) <=> Closed(T)
    <3>1. ASSUME \A l \in leads : l.from \in T => l.to \subseteq T, NEW q \in T
          PROVE  To(q) \subseteq T
      <4> DEFINE l == [from |-> q, to |-> To(q)]
      <4>1. l \in leads /\ l.from = q /\ l.to = To(q)
        BY <2>1
      <4> QED BY <3>1, <4>1
    <3>2. ASSUME Closed(T), NEW l \in leads, l.from \in T
          PROVE  l.to \subseteq T
      BY <2>1, <3>2
    <3> QED BY <3>1, <3>2
  <2>3. \A y : {T \in SUBSET U : y \in T /\ \A l \in leads : l.from \in T => l.to \subseteq T}
               = {T \in SUBSET U : y \in T /\ Closed(T)}
    BY <2>2
  <2>4. \A y : Reaches(m, y) =
          {p \in U : \A S \in {T \in SUBSET U : y \in T /\ \A l \in leads : l.from \in T => l.to \subseteq T} :
             p \in S}
    BY DEF Reaches, leads
  <2> QED BY <2>3, <2>4
<1>2. \A q \in U : Children(m, q) \subseteq To(q) /\ To(q) \subseteq U
  BY DEF Children
<1> HIDE DEF leads, To
<1>3. x \in Reaches(m, x) /\ Reaches(m, x) \subseteq U
  BY <1>1
<1>4. ASSUME NEW q \in Reaches(m, x)
      PROVE  To(q) \subseteq Reaches(m, x)
  BY <1>1, <1>2, <1>3
<1>5. ASSUME NEW y \in Reaches(m, x)
      PROVE  Reaches(m, y) \subseteq Reaches(m, x)
  BY <1>1, <1>3, <1>4
<1> QED BY <1>2, <1>3, <1>4, <1>5

\* A holder's tree is part of what can be reached from it.
LEMMA BehindIsReached ==
  ASSUME NEW m \in Memory, NEW holders, Links(m, holders), NEW x \in holders
  PROVE  Behind(m, x) \subseteq Reaches(m, x)
<1> DEFINE U == InUse(m)
           R == Reaches(m, x)
           Under(p) == p = x \/ \E q \in R : ~m.item[q].reference /\ p \in Children(m, q)
           T == {p \in R : Under(p)}
<1>1. x \in U /\ m.item[x].next = NULL
  BY DEF Links
<1>2. x \in R /\ R \subseteq U /\ \A q \in R : Children(m, q) \subseteq R
  BY <1>1, ReachesIsLeast
<1> HIDE DEF R
<1>3. \A q \in U : /\ q \in Items /\ q # NULL
                   /\ ~m.item[q].reference /\ m.item[q].child # NULL => m.item[q].child \in U
                   /\ \A r : r \in NextOwned(m.item[q]) <=>
                        r # NULL /\ (r = m.item[q].next \/ (~m.item[q].reference /\ r = m.item[q].child))
  BY LinkTypes
<1>4. ASSUME NEW p \in T, NEW r \in NextOwned(m.item[p])
      PROVE  r \in T
  <2>1. p \in R /\ p \in U /\ Under(p)
    BY <1>2
  <2>2. r # NULL /\ (r = m.item[p].next \/ (~m.item[p].reference /\ r = m.item[p].child))
    BY <1>3, <2>1
  <2>3. CASE r = m.item[p].next
    <3>1. p # x
      BY <1>1, <2>2, <2>3
    <3>2. PICK q \in R : ~m.item[q].reference /\ p \in Children(m, q)
      BY <2>1, <3>1
    <3>3. r \in Children(m, q)
      BY <1>2, <2>2, <2>3, <3>2, ListsBegin
    <3> QED BY <1>2, <3>2, <3>3
  <2>4. CASE ~m.item[p].reference /\ r = m.item[p].child
    <3>1. r \in Children(m, p)
      BY <1>3, <2>1, <2>2, <2>4, ChildrenAreLeast
    <3> QED BY <1>2, <2>1, <2>4, <3>1
  <2> QED BY <2>2, <2>3, <2>4
<1>5. IsClosed(m, T)
  BY <1>4 DEF IsClosed
<1>6. T \in SUBSET U /\ x \in T /\ T \subseteq R
  BY <1>2
<1> HIDE DEF T
<1> QED BY <1>1, <1>5, <1>6, BehindIsLeast DEF R

-----------------------------------------------------------------------------
(* Strings                                                                 *)

\* Every item in use owns its strings alone.
TextsOwned(m) ==
  /\ \A p \in InUse(m) :
       /\ OwnedTexts(m.item[p]) \subseteq m.text
       /\ OwnedValue(m.item[p]) # NULL => OwnedValue(m.item[p]) # OwnedName(m.item[p])
  /\ \A p, q \in InUse(m) :
       p # q => OwnedTexts(m.item[p]) \cap OwnedTexts(m.item[q]) = {}

\* The strings that a function has allocated and not given to an item yet.
Loose(m, loose) ==
  /\ loose \subseteq m.text
  /\ \A p \in InUse(m) : OwnedTexts(m.item[p]) \cap loose = {}

\* What is not loose has an owner.
AllOwned(m, loose) ==
  \A t \in m.text \ loose : \E p \in InUse(m) : t \in OwnedTexts(m.item[p])

\* Free memory holds nothing, and a name that is not on the heap is known to be constant.
Clean(m) ==
  \A p \in Items : /\ ~m.item[p].live => m.item[p] = Node(FALSE)
                   /\ m.item[p].name = LITERAL => m.item[p].constName

\* The holders own what there is: lists linked in both directions, each item and
\* each string with one owner, and some strings that no item owns.
Forest(m, holders, loose) ==
  /\ m \in Memory /\ ~m.fault /\ Clean(m)
  /\ Links(m, holders)
  /\ TextsOwned(m) /\ Loose(m, loose)

\* What does not depend on how items are linked stays when they are linked anew.
LEMMA RelinkedForest ==
  ASSUME NEW m, NEW holders, NEW loose, Forest(m, holders, loose), NEW w,
         Relinked(m, w, InUse(m)), NEW after, Links(w, after)
  PROVE  /\ Forest(w, after, loose) /\ (AllOwned(m, loose) => AllOwned(w, loose))
         /\ w.starved = m.starved /\ w.text = m.text
<1> DEFINE U == InUse(m)
<1>1. m \in Memory /\ w \in Memory /\ w.text = m.text /\ ~w.fault /\ w.starved = m.starved
  BY DEF Forest, Relinked
<1>2. InUse(w) = U /\ \A p \in U : p \in Items
  BY DEF Relinked, InUse, Live
<1>3. \A p \in U : /\ OwnedTexts(w.item[p]) = OwnedTexts(m.item[p])
                   /\ OwnedValue(w.item[p]) = OwnedValue(m.item[p])
                   /\ OwnedName(w.item[p]) = OwnedName(m.item[p])
  BY <1>2 DEF Relinked, OwnedTexts, OwnedValue, OwnedName
<1>4. Clean(w)
  <2>1. \A p \in Items : ~w.item[p].live => w.item[p] = m.item[p] /\ ~m.item[p].live
    BY DEF Relinked, InUse, Live
  <2>2. \A p \in Items : w.item[p].name = m.item[p].name /\ w.item[p].constName = m.item[p].constName
    BY DEF Relinked
  <2> QED BY <2>1, <2>2 DEF Clean, Forest
<1>5. TextsOwned(w) /\ Loose(w, loose)
  BY <1>1, <1>2, <1>3 DEF TextsOwned, Loose, Forest
<1>6. AllOwned(m, loose) => AllOwned(w, loose)
  BY <1>1, <1>2, <1>3 DEF AllOwned
<1> QED BY <1>1, <1>4, <1>5, <1>6 DEF Forest

\* Nor does anything depend on the budget.
LEMMA SameForest ==
  ASSUME NEW m, NEW holders, NEW loose, Forest(m, holders, loose), NEW w \in Memory,
         w.item = m.item, w.text = m.text, ~w.fault
  PROVE  Forest(w, holders, loose) /\ (AllOwned(m, loose) => AllOwned(w, loose))
<1>1. InUse(w) = InUse(m)
  BY DEF InUse, Live
<1>2. Links(w, holders)
  BY <1>1, SameLinks DEF Forest
<1>3. TextsOwned(w) /\ Loose(w, loose) /\ Clean(w)
  BY <1>1 DEF TextsOwned, Loose, Clean, Forest
<1> QED BY <1>1, <1>2, <1>3 DEF Forest, AllOwned

\* The items in tree are given back, and the strings that they own.
Pruned(m, w, dead) ==
  /\ w \in Memory /\ w.fault = m.fault /\ w.starved = m.starved /\ w.budget = m.budget
  /\ InUse(w) = InUse(m) \ dead
  /\ \A q \in Items : w.item[q] = IF q \in dead THEN Node(FALSE) ELSE m.item[q]
  /\ w.text = m.text \ UNION {OwnedTexts(m.item[p]) : p \in dead}

\* Freeing items frees them with their strings, and nothing else.
LEMMA FreeAllPrunes ==
  ASSUME NEW m \in Memory, NEW dead \in SUBSET InUse(m), NEW w, w = FreeAll(m, dead)
  PROVE  Pruned(m, w, dead)
<1> DEFINE gone == UNION {OwnedTexts(m.item[p]) : p \in dead}
           items == [p \in Items |-> IF p \in dead THEN Node(FALSE) ELSE m.item[p]]
<1>1. w = [m EXCEPT !.item = items, !.text = m.text \ gone]
  BY DEF FreeAll
<1>2. Node(FALSE) \in Nodes /\ ~Node(FALSE).live
  BY DEF Node, Nodes, Address
<1>3. items \in [Items -> Nodes]
  BY <1>2 DEF Memory
<1> HIDE DEF gone
<1>4. m.text \ gone \in SUBSET Texts
  BY DEF Memory
<1>5. \A q \in Items : items[q] = IF q \in dead THEN Node(FALSE) ELSE m.item[q]
  OBVIOUS
<1> HIDE DEF items
<1>6. /\ w.item = items /\ w.text = m.text \ gone /\ w.fault = m.fault
      /\ w.starved = m.starved /\ w.budget = m.budget /\ w \in Memory
  BY <1>1, <1>3, <1>4 DEF Memory
<1>7. \A q \in Items : w.item[q] = IF q \in dead THEN Node(FALSE) ELSE m.item[q]
  BY <1>5, <1>6
<1>8. InUse(w) = InUse(m) \ dead
  BY <1>2, <1>7 DEF InUse, Live
<1> QED BY <1>6, <1>7, <1>8 DEF Pruned, gone

\* cJSON_Delete gives back the tree of a holder, and nothing else.
LEMMA DeletePrunes ==
  ASSUME NEW m, NEW holders, NEW loose, Forest(m, holders, loose), NEW x \in holders,
         NEW w, w = Delete(m, x)
  PROVE  /\ Pruned(m, w, Behind(m, x)) /\ Forest(w, holders \ {x}, loose)
         /\ AllOwned(m, loose) => AllOwned(w, loose)
<1> DEFINE U == InUse(m)
           B == Behind(m, x)
<1>0. m \in Memory /\ Links(m, holders) /\ TextsOwned(m) /\ ~m.fault /\ Clean(m) /\ Loose(m, loose)
  BY DEF Forest
<1>1. /\ x \in B /\ B \subseteq U
      /\ \A q \in B : NextOwned(m.item[q]) \subseteq B
  BY <1>0, BehindIsApart
<1>2. /\ \A q, d \in U : \A r :
           r \in NextOwned(m.item[q]) /\ r \in NextOwned(m.item[d]) => q = d
      /\ \A q \in U : \A h \in holders : h \notin NextOwned(m.item[q])
      /\ \A q \in U :
           ~m.item[q].reference /\ m.item[q].next # NULL => m.item[q].next # m.item[q].child
  BY <1>0, OneOwner
<1>3. x # NULL /\ Live(m, x)
  BY <1>1, AddressAssumption DEF InUse
<1>4. FreedOnce(m, x, B)
  <2> HIDE DEF B
  <2>1. \A p \in B : NextOwned(m.item[p]) \subseteq U \ {x}
    BY <1>1, <1>2
  <2>2. \A p \in B : /\ OwnedTexts(m.item[p]) \subseteq m.text
                     /\ OwnedValue(m.item[p]) # NULL => OwnedValue(m.item[p]) # OwnedName(m.item[p])
    BY <1>0, <1>1 DEF TextsOwned
  <2>3. \A p \in B : ~m.item[p].reference /\ m.item[p].next # NULL => m.item[p].next # m.item[p].child
    BY <1>1, <1>2
  <2>4. \A p, q \in B : p # q => /\ NextOwned(m.item[p]) \cap NextOwned(m.item[q]) = {}
                                 /\ OwnedTexts(m.item[p]) \cap OwnedTexts(m.item[q]) = {}
    BY <1>0, <1>1, <1>2 DEF TextsOwned
  <2> QED BY <1>3, <2>1, <2>2, <2>3, <2>4 DEF FreedOnce
<1>5. w = FreeAll(m, B)
  BY <1>3, <1>4 DEF Delete, FreeFrom
<1>6. Pruned(m, w, B)
  BY <1>0, <1>1, <1>5, FreeAllPrunes
<1> HIDE DEF B
<1>7. /\ w \in Memory /\ InUse(w) = U \ B /\ w.fault = m.fault
      /\ \A q \in U \ B : w.item[q] = m.item[q]
      /\ w.text = m.text \ UNION {OwnedTexts(m.item[p]) : p \in B}
  BY <1>6 DEF Pruned, InUse
<1>8. Links(w, holders \ {x})
  BY <1>0, <1>7, DeleteKeepsLinks DEF B
<1>9. Clean(w)
  <2>1. \A q \in Items : w.item[q] = Node(FALSE) \/ w.item[q] = m.item[q]
    BY <1>6 DEF Pruned
  <2>2. Node(FALSE).name # LITERAL
    BY AddressAssumption DEF Node
  <2> QED BY <1>0, <2>1, <2>2 DEF Clean
<1>10. TextsOwned(w) /\ Loose(w, loose)
  <2>1. \A p \in U \ B : OwnedTexts(m.item[p]) \subseteq w.text
    BY <1>0, <1>1, <1>7 DEF TextsOwned
  <2>2. loose \subseteq w.text
    BY <1>0, <1>1, <1>7 DEF Loose
  <2> QED BY <1>0, <1>7, <2>1, <2>2 DEF TextsOwned, Loose
<1>11. AllOwned(m, loose) => AllOwned(w, loose)
  BY <1>7 DEF AllOwned
<1> QED BY <1>0, <1>6, <1>7, <1>8, <1>9, <1>10, <1>11 DEF Forest, B

\* w differs from m at most in the name of x, and in the strings that are allocated.
Relabelled(m, w, x) ==
  /\ w \in Memory /\ w.fault = m.fault
  /\ \A q \in Items \ {x} : w.item[q] = m.item[q]
  /\ w.item[x].live = m.item[x].live /\ w.item[x].reference = m.item[x].reference
  /\ w.item[x].next = m.item[x].next /\ w.item[x].prev = m.item[x].prev
  /\ w.item[x].child = m.item[x].child /\ w.item[x].value = m.item[x].value
  /\ w.item[x].name = LITERAL => w.item[x].constName

\* What becomes of the strings: that of the old name is freed, and that of the
\* new one is owned.
LEMMA RelabelledForest ==
  ASSUME NEW m, NEW holders, NEW loose, Forest(m, holders, loose), NEW x \in InUse(m),
         NEW w, Relabelled(m, w, x),
         NEW old, old = {OwnedName(m.item[x])} \ {NULL},
         NEW new, new = {OwnedName(w.item[x])} \ {NULL},
         (m.text \ old) \cup new \subseteq w.text,
         new \cap (m.text \ old) \subseteq loose
  PROVE  /\ Forest(w, holders, loose \ new) /\ InUse(w) = InUse(m)
         /\ AllOwned(m, loose) /\ w.text = (m.text \ old) \cup new => AllOwned(w, loose \ new)
<1> DEFINE U == InUse(m)
<1>0. m \in Memory /\ Links(m, holders) /\ TextsOwned(m) /\ ~m.fault /\ Clean(m) /\ Loose(m, loose)
  BY DEF Forest
<1>1. x \in Items /\ m.item[x].live
  BY DEF InUse, Live
<1>2. InUse(w) = U
  BY <1>1 DEF Relabelled, InUse, Live
<1>3. w \in Memory /\ ~w.fault
  BY <1>0 DEF Relabelled
<1>4. Links(w, holders)
  <2>1. \A q \in U : /\ w.item[q].reference = m.item[q].reference
                     /\ w.item[q].next = m.item[q].next
                     /\ w.item[q].prev = m.item[q].prev
                     /\ w.item[q].child = m.item[q].child
    BY DEF Relabelled, InUse
  <2> QED BY <1>0, <1>2, <1>3, <2>1, SameLinks
<1>5. Clean(w)
  BY <1>0, <1>1 DEF Clean, Relabelled
<1>6. OwnedValue(w.item[x]) = OwnedValue(m.item[x])
  BY DEF Relabelled, OwnedValue
<1>7. /\ \A q \in U \ {x} : OwnedTexts(w.item[q]) = OwnedTexts(m.item[q])
                           /\ OwnedValue(w.item[q]) = OwnedValue(m.item[q])
                           /\ OwnedName(w.item[q]) = OwnedName(m.item[q])
      /\ OwnedTexts(w.item[x]) = ({OwnedValue(m.item[x])} \ {NULL}) \cup new
      /\ OwnedTexts(m.item[x]) = ({OwnedValue(m.item[x])} \ {NULL}) \cup old
  <2>1. \A q \in U \ {x} : w.item[q] = m.item[q]
    BY DEF Relabelled, InUse
  <2> QED BY <1>6, <2>1 DEF OwnedTexts
<1>8. /\ \A p \in U : /\ OwnedTexts(m.item[p]) \subseteq m.text
                      /\ OwnedTexts(m.item[p]) \cap loose = {}
                      /\ OwnedValue(m.item[p]) # NULL => OwnedValue(m.item[p]) # OwnedName(m.item[p])
      /\ \A p, q \in U : p # q => OwnedTexts(m.item[p]) \cap OwnedTexts(m.item[q]) = {}
      /\ loose \subseteq m.text
  BY <1>0 DEF TextsOwned, Loose
<1>9. /\ OwnedValue(m.item[x]) \notin old
      /\ OwnedValue(m.item[x]) # NULL => OwnedValue(m.item[x]) \in m.text \ (old \cup loose \cup new)
  BY <1>7, <1>8
<1>10. \A q \in U \ {x} : OwnedTexts(m.item[q]) \subseteq m.text \ (old \cup loose \cup new)
  BY <1>7, <1>8
<1>11. TextsOwned(w)
  <2>1. \A p \in U : OwnedTexts(w.item[p]) \subseteq w.text
    BY <1>7, <1>9, <1>10
  <2>2. \A p \in U : OwnedValue(w.item[p]) # NULL => OwnedValue(w.item[p]) # OwnedName(w.item[p])
    BY <1>6, <1>7, <1>8, <1>9
  <2>3. \A q \in U \ {x} : OwnedTexts(w.item[x]) \cap OwnedTexts(w.item[q]) = {}
    BY <1>7, <1>8, <1>10
  <2>4. \A p, q \in U : p # q => OwnedTexts(w.item[p]) \cap OwnedTexts(w.item[q]) = {}
    BY <1>7, <1>8, <2>3
  <2> QED BY <1>2, <2>1, <2>2, <2>4 DEF TextsOwned
<1>12. Loose(w, loose \ new)
  <2>1. loose \cap old = {}
    BY <1>7, <1>8
  <2>2. \A p \in U : OwnedTexts(w.item[p]) \cap (loose \ new) = {}
    BY <1>7, <1>8, <1>9
  <2> QED BY <1>2, <1>8, <2>1, <2>2 DEF Loose
<1>13. ASSUME AllOwned(m, loose), w.text = (m.text \ old) \cup new
       PROVE  AllOwned(w, loose \ new)
  <2> SUFFICES ASSUME NEW t \in w.text \ (loose \ new)
               PROVE  \E p \in U : t \in OwnedTexts(w.item[p])
    BY <1>2 DEF AllOwned
  <2>1. CASE t \in new
    BY <1>7, <2>1
  <2>2. CASE t \notin new
    <3>1. t \in m.text \ loose /\ t \notin old
      BY <1>13, <2>2
    <3>2. PICK p \in U : t \in OwnedTexts(m.item[p])
      BY <1>13, <3>1 DEF AllOwned
    <3> QED BY <1>7, <3>1, <3>2
  <2> QED BY <2>1, <2>2
<1> QED BY <1>2, <1>3, <1>4, <1>5, <1>11, <1>12, <1>13 DEF Forest

-----------------------------------------------------------------------------
(* New items                                                               *)

\* The result of a function that makes an item: without memory it is NULL and
\* nothing has changed; otherwise it is a new item that is in no list and owns
\* new strings.
Made(m, r) ==
  /\ r.mem \in Memory /\ r.mem.fault = m.fault /\ (m.starved => r.mem.starved)
  /\ \/ r.ptr = NULL /\ r.mem.item = m.item /\ r.mem.text = m.text /\ r.mem.starved
     \/ /\ r.ptr \in Items \ InUse(m)
        /\ \A q \in Items \ {r.ptr} : r.mem.item[q] = m.item[q]
        /\ LET n == r.mem.item[r.ptr]
           IN  /\ n.live /\ n.next = NULL /\ n.prev = NULL
               /\ n.reference \/ n.child = NULL
               /\ n.name = LITERAL => n.constName
               /\ OwnedTexts(n) \cap m.text = {}
               /\ OwnedValue(n) # NULL => OwnedValue(n) # OwnedName(n)
               /\ r.mem.text = m.text \cup OwnedTexts(n)

\* A new item is one more holder.
LEMMA MadeForest ==
  ASSUME NEW m, NEW holders, NEW loose, Forest(m, holders, loose), NEW r, Made(m, r),
         NEW after, after = holders \cup ({r.ptr} \ {NULL})
  PROVE  /\ Forest(r.mem, after, loose) /\ (AllOwned(m, loose) => AllOwned(r.mem, loose))
         /\ InUse(r.mem) = InUse(m) \cup ({r.ptr} \ {NULL})
         /\ r.ptr # NULL => r.ptr \notin InUse(m) /\ Behind(r.mem, r.ptr) = {r.ptr}
<1> DEFINE U == InUse(m)
           w == r.mem
           x == r.ptr
<1>0. m \in Memory /\ Links(m, holders) /\ TextsOwned(m) /\ ~m.fault /\ Clean(m) /\ Loose(m, loose)
  BY DEF Forest
<1>1. w \in Memory /\ ~w.fault
  BY <1>0 DEF Made
<1> HIDE DEF w, x
<1>2. CASE x = NULL
  <2>1. w.item = m.item /\ w.text = m.text
    BY <1>2, AddressAssumption DEF Made, w, x
  <2>2. Forest(w, holders, loose) /\ (AllOwned(m, loose) => AllOwned(w, loose))
    BY <1>1, <2>1, SameForest
  <2>3. after = holders /\ InUse(w) = U /\ U \cup ({x} \ {NULL}) = U
    BY <1>2, <2>1 DEF InUse, Live, x
  <2> QED BY <1>2, <2>2, <2>3 DEF w, x
<1>3. CASE x # NULL
  <2> DEFINE V == U \cup {x}
  <2>1. /\ x \in Items \ U
        /\ \A q \in Items \ {x} : w.item[q] = m.item[q]
        /\ w.item[x].live /\ w.item[x].next = NULL /\ w.item[x].prev = NULL
        /\ w.item[x].reference \/ w.item[x].child = NULL
        /\ w.item[x].name = LITERAL => w.item[x].constName
        /\ OwnedTexts(w.item[x]) \cap m.text = {}
        /\ OwnedValue(w.item[x]) # NULL => OwnedValue(w.item[x]) # OwnedName(w.item[x])
        /\ w.text = m.text \cup OwnedTexts(w.item[x])
    BY <1>3 DEF Made, w, x
  <2>2. InUse(w) = V /\ V = U \cup ({x} \ {NULL}) /\ after = holders \cup {x}
    BY <1>3, <2>1 DEF InUse, Live, x
  <2>3. \A q \in U : /\ w.item[q] = m.item[q] /\ q # x /\ q \in Items /\ q # NULL
                     /\ m.item[q].next # NULL =>
                          m.item[q].next \in U /\ m.item[m.item[q].next].prev = q
                     /\ m.item[q].prev # NULL =>
                          m.item[q].prev \in U /\ m.item[m.item[q].prev].next = q
                     /\ ~m.item[q].reference /\ m.item[q].child # NULL =>
                          m.item[q].child \in U /\ m.item[m.item[q].child].prev = NULL
                     /\ NextOwned(m.item[q]) \subseteq U
    <3>1. \A q \in U : w.item[q] = m.item[q] /\ q # x
      BY <2>1 DEF InUse
    <3>2. \A q \in U : NextOwned(m.item[q]) \subseteq U
      BY <1>0 DEF Links
    <3> QED BY <1>0, <3>1, <3>2, LinkTypes
  <2>4. NextOwned(w.item[x]) = {}
    BY <2>1 DEF NextOwned
  <2>5. Links(w, after)
    <3>0. holders \subseteq U
      BY <1>0 DEF Links
    <3>1. after \subseteq V
      BY <2>2, <3>0
    <3>2. \A p \in V : NextOwned(w.item[p]) \subseteq V
      BY <2>3, <2>4
    <3>3. \A p \in V : w.item[p].next # NULL => w.item[w.item[p].next].prev = p
      BY <2>1, <2>3
    <3>4. \A p \in V : w.item[p].prev # NULL => /\ w.item[p].prev \in V
                                                /\ w.item[w.item[p].prev].next = p
      BY <2>1, <2>3
    <3>5. \A p \in V : ~w.item[p].reference /\ w.item[p].child # NULL =>
            w.item[w.item[p].child].prev = NULL
      BY <2>1, <2>3
    <3>60. \A p, q \in U :
            /\ ~m.item[p].reference /\ ~m.item[q].reference
            /\ m.item[p].child # NULL /\ m.item[p].child = m.item[q].child
            => p = q
      BY <1>0 DEF Links
    <3>6. \A p, q \in V :
            /\ ~w.item[p].reference /\ ~w.item[q].reference
            /\ w.item[p].child # NULL /\ w.item[p].child = w.item[q].child
            => p = q
      BY <2>1, <2>3, <3>60
    <3>70. \A h \in holders :
            /\ m.item[h].next = NULL /\ m.item[h].prev = NULL
            /\ \A q \in U : ~m.item[q].reference => m.item[q].child # h
      BY <1>0 DEF Links
    <3>7. \A h \in after :
            /\ w.item[h].next = NULL /\ w.item[h].prev = NULL
            /\ \A q \in V : ~w.item[q].reference => w.item[q].child # h
      <4>1. ASSUME NEW h \in holders
            PROVE  /\ w.item[h].next = NULL /\ w.item[h].prev = NULL
                   /\ \A q \in V : ~w.item[q].reference => w.item[q].child # h
        BY <2>1, <2>3, <3>0, <3>70
      <4>2. \A q \in V : ~w.item[q].reference => w.item[q].child # x
        BY <1>3, <2>1, <2>3
      <4> QED BY <2>1, <2>2, <4>1, <4>2
    <3>8. ASSUME NEW S \in SUBSET V, after \subseteq S, IsClosed(w, S)
          PROVE  S = V
      <4>1. \A q \in S \ {x} : NextOwned(m.item[q]) \subseteq S \ {x}
        <5>1. \A q \in S \ {x} : q \in U /\ NextOwned(m.item[q]) \subseteq U /\ w.item[q] = m.item[q]
          BY <2>3
        <5> QED BY <2>2, <2>1, <3>8, <5>1 DEF IsClosed, InUse
      <4>2. holders \subseteq S \ {x} /\ S \ {x} \in SUBSET U
        BY <2>1, <2>2, <3>0, <3>8
      <4>3. S \ {x} = U
        BY <1>0, <4>1, <4>2 DEF Links, IsClosed
      <4> QED BY <2>2, <3>8, <4>3
    <3> HIDE DEF V
    <3> QED BY <2>2, <3>1, <3>2, <3>3, <3>4, <3>5, <3>6, <3>7, <3>8 DEF Links
  <2>6. Clean(w)
    <3>1. \A q \in Items \ {x} : (~w.item[q].live => w.item[q] = Node(FALSE))
                                 /\ (w.item[q].name = LITERAL => w.item[q].constName)
      BY <1>0, <2>1 DEF Clean
    <3> QED BY <2>1, <3>1 DEF Clean
  <2>7. TextsOwned(w) /\ Loose(w, loose)
    BY <1>0, <2>1, <2>2, <2>3 DEF TextsOwned, Loose
  <2>8. AllOwned(m, loose) => AllOwned(w, loose)
    BY <2>1, <2>2, <2>3 DEF AllOwned
  <2>9. Behind(w, x) = {x}
    <3>1. x \in InUse(w) /\ {x} \in SUBSET InUse(w) /\ IsClosed(w, {x})
      BY <2>2, <2>4 DEF IsClosed
    <3> QED BY <1>1, <3>1, BehindIsLeast
  <2> QED BY <1>1, <2>1, <2>2, <2>5, <2>6, <2>7, <2>8, <2>9 DEF Forest, w, x
<1> QED BY <1>2, <1>3

\* Assignments to what an item in use says about its strings.
LEMMA SetConstName ==
  ASSUME NEW m \in Memory, NEW p \in InUse(m), NEW v \in BOOLEAN,
         NEW w, w = Set(m, p, "constName", v), NEW n, n = [m.item[p] EXCEPT !.constName = v]
  PROVE  Put(m, w, p, n) /\ InUse(w) = InUse(m) /\ w \in Memory
<1>1. p \in Items /\ Live(m, p) /\ m.item[p] \in Nodes /\ m.item[p].live
  BY DEF InUse, Memory, Live
<1>2. n \in Nodes /\ n.live
  BY <1>1 DEF Nodes
<1>3. w = [m EXCEPT !.item = [m.item EXCEPT ![p] = n]]
  BY <1>1 DEF Set
<1>4. Put(m, w, p, n)
  BY <1>1, <1>2, <1>3, OneItem
<1> QED BY <1>2, <1>4 DEF Put

\* An assignment to the name changes one item.
LEMMA SetName ==
  ASSUME NEW m \in Memory, NEW p \in InUse(m), NEW v \in Texts \cup {NULL, LITERAL},
         NEW w, w = Set(m, p, "name", v), NEW n, n = [m.item[p] EXCEPT !.name = v]
  PROVE  Put(m, w, p, n) /\ InUse(w) = InUse(m) /\ w \in Memory
<1>1. p \in Items /\ Live(m, p) /\ m.item[p] \in Nodes /\ m.item[p].live
  BY DEF InUse, Memory, Live
<1>2. n \in Nodes /\ n.live
  BY <1>1 DEF Nodes
<1>3. w = [m EXCEPT !.item = [m.item EXCEPT ![p] = n]]
  BY <1>1 DEF Set
<1>4. Put(m, w, p, n)
  BY <1>1, <1>2, <1>3, OneItem
<1> QED BY <1>2, <1>4 DEF Put

\* An assignment to valuestring changes one item.
LEMMA SetValue ==
  ASSUME NEW m \in Memory, NEW p \in InUse(m), NEW v \in Texts \cup {NULL},
         NEW w, w = Set(m, p, "value", v), NEW n, n = [m.item[p] EXCEPT !.value = v]
  PROVE  Put(m, w, p, n) /\ InUse(w) = InUse(m) /\ w \in Memory
<1>1. p \in Items /\ Live(m, p) /\ m.item[p] \in Nodes /\ m.item[p].live
  BY DEF InUse, Memory, Live
<1>2. n \in Nodes /\ n.live
  BY <1>1 DEF Nodes
<1>3. w = [m EXCEPT !.item = [m.item EXCEPT ![p] = n]]
  BY <1>1 DEF Set
<1>4. Put(m, w, p, n)
  BY <1>1, <1>2, <1>3, OneItem
<1> QED BY <1>2, <1>4 DEF Put

\* cJSON_New_Item
Fresh(m, r) ==
  /\ r.mem \in Memory /\ r.mem.fault = m.fault /\ r.mem.text = m.text
  /\ (m.starved => r.mem.starved)
  /\ \/ r.ptr = NULL /\ r.mem.item = m.item /\ r.mem.starved
     \/ /\ r.ptr \in Items \ InUse(m) /\ r.mem.item[r.ptr] = Node(TRUE)
        /\ \A q \in Items \ {r.ptr} : r.mem.item[q] = m.item[q]
        /\ InUse(r.mem) = InUse(m) \cup {r.ptr}

\* cJSON_New_Item returns an item that was free, or NULL.
LEMMA NewItemIsFresh ==
  ASSUME NEW m \in Memory, NEW r, r = NewItem(m)
  PROVE  Fresh(m, r)
<1> DEFINE free == {p \in Unused(m, Items) : ~m.item[p].live}
           p == OneOf(free)
<1>1. CASE m.budget = 0 \/ free = {}
  <2>1. r.mem = [m EXCEPT !.starved = TRUE] /\ r.ptr = NULL
    BY <1>1 DEF NewItem, Starved, Result
  <2>2. /\ r.mem \in Memory /\ r.mem.item = m.item /\ r.mem.text = m.text
        /\ r.mem.fault = m.fault /\ r.mem.starved
    BY <2>1 DEF Memory
  <2> QED BY <2>1, <2>2 DEF Fresh
<1>2. CASE ~(m.budget = 0 \/ free = {})
  <2>1. p \in free
    BY <1>2 DEF OneOf
  <2>2. p \in Items \ InUse(m)
    BY <2>1 DEF Unused, InUse, Live
  <2>3. r = NewItem(m) /\ NewItem(m) = Result([Spent(m) EXCEPT !.item[p] = Node(TRUE)], p)
    BY <1>2 DEF NewItem
  <2> HIDE DEF free, p
  <2>4. r.mem = [Spent(m) EXCEPT !.item[p] = Node(TRUE)] /\ r.ptr = p
    BY <2>3 DEF Result
  <2> DEFINE s == Spent(m)
  <2>5. s \in Memory /\ s.item = m.item /\ s.text = m.text /\ s.fault = m.fault /\ s.starved = m.starved
    <3>1. m.budget \in Nat /\ m.budget # 0
      BY <1>2 DEF Memory
    <3>2. m.budget - 1 \in Nat
      BY <3>1
    <3> QED BY <3>2 DEF Spent, Memory
  <2>6. r.mem = [s EXCEPT !.item = [s.item EXCEPT ![p] = Node(TRUE)]]
    BY <2>4
  <2>7. Node(TRUE) \in Nodes /\ Node(TRUE).live
    BY DEF Node, Nodes, Address
  <2> HIDE DEF s
  <2>8. /\ r.mem \in Memory /\ r.mem.text = m.text /\ r.mem.fault = m.fault
        /\ r.mem.starved = m.starved
        /\ r.mem.item[p] = Node(TRUE) /\ \A q \in Items \ {p} : r.mem.item[q] = m.item[q]
    <3>1. p \in Items
      BY <2>2
    <3>2. Put(s, r.mem, p, Node(TRUE))
      BY <2>5, <2>6, <2>7, <3>1, OneItem
    <3> QED BY <2>5, <3>2 DEF Put
  <2>9. InUse(r.mem) = InUse(m) \cup {p}
    BY <2>2, <2>7, <2>8 DEF InUse, Live
  <2> QED BY <2>2, <2>4, <2>8, <2>9 DEF Fresh
<1> QED BY <1>1, <1>2

\* cJSON_strdup
Duplicated(m, s, r) ==
  /\ r.mem \in Memory /\ r.mem.item = m.item /\ r.mem.fault = m.fault
  /\ (m.starved => r.mem.starved) /\ InUse(r.mem) = InUse(m)
  /\ \/ r.ptr = NULL /\ r.mem.text = m.text /\ (s # NULL => r.mem.starved)
     \/ s # NULL /\ r.ptr \in Texts \ m.text /\ r.mem.text = m.text \cup {r.ptr}

\* cJSON_strdup returns a string that was free, or NULL, and touches no item.
LEMMA StrdupIsNew ==
  ASSUME NEW m \in Memory, NEW s, NEW r, r = Strdup(m, s)
  PROVE  Duplicated(m, s, r)
<1> DEFINE free == Unused(m, Texts) \ m.text
           t == OneOf(free)
<1>1. CASE s = NULL
  <2>1. r.mem = m /\ r.ptr = NULL
    BY <1>1 DEF Strdup, Result
  <2> QED BY <1>1, <2>1 DEF Duplicated
<1>2. CASE s # NULL /\ (m.budget = 0 \/ free = {})
  <2>1. r.mem = [m EXCEPT !.starved = TRUE] /\ r.ptr = NULL
    BY <1>2 DEF Strdup, Starved, Result
  <2>2. /\ r.mem \in Memory /\ r.mem.item = m.item /\ r.mem.text = m.text
        /\ r.mem.fault = m.fault /\ r.mem.starved
    BY <2>1 DEF Memory
  <2>3. InUse(r.mem) = InUse(m)
    BY <2>2 DEF InUse, Live
  <2> QED BY <2>1, <2>2, <2>3 DEF Duplicated
<1>3. CASE s # NULL /\ ~(m.budget = 0 \/ free = {})
  <2>1. t \in free
    BY <1>3 DEF OneOf
  <2>2. t \in Texts \ m.text
    BY <2>1 DEF Unused
  <2>3. r = Result([Spent(m) EXCEPT !.text = @ \cup {t}], t)
    BY <1>3 DEF Strdup
  <2> HIDE DEF free, t
  <2>4. r.mem = [Spent(m) EXCEPT !.text = @ \cup {t}] /\ r.ptr = t
    BY <2>3 DEF Result
  <2>5. m.budget - 1 \in Nat
    <3>1. m.budget \in Nat /\ m.budget # 0
      BY <1>3 DEF Memory
    <3> QED BY <3>1
  <2> DEFINE s1 == Spent(m)
  <2>51. s1 \in Memory /\ s1.item = m.item /\ s1.text = m.text /\ s1.fault = m.fault /\ s1.starved = m.starved
    BY <2>5 DEF Spent, Memory
  <2>52. r.mem = [s1 EXCEPT !.text = s1.text \cup {t}]
    BY <2>4
  <2> HIDE DEF s1
  <2>53. s1.text \cup {t} \in SUBSET Texts
    BY <2>2, <2>51 DEF Memory
  <2>54. /\ r.mem \in Memory /\ r.mem.item = s1.item /\ r.mem.text = s1.text \cup {t}
        /\ r.mem.fault = s1.fault /\ r.mem.starved = s1.starved
    BY <2>51, <2>52, <2>53 DEF Memory
  <2>6. /\ r.mem \in Memory /\ r.mem.item = m.item /\ r.mem.text = m.text \cup {t}
        /\ r.mem.fault = m.fault /\ r.mem.starved = m.starved
    BY <2>51, <2>54
  <2>7. InUse(r.mem) = InUse(m)
    BY <2>6 DEF InUse, Live
  <2> QED BY <1>3, <2>2, <2>4, <2>6, <2>7 DEF Duplicated
<1> QED BY <1>1, <1>2, <1>3

\* A new item that is deleted at once leaves nothing behind.
Undone(m, r) ==
  /\ r.mem \in Memory /\ r.mem.fault = m.fault /\ r.mem.item = m.item /\ r.mem.text = m.text
  /\ r.ptr = NULL /\ (m.starved => r.mem.starved)

\* After cJSON_Delete the fail path leaves the memory as the call found it.
LEMMA FailUndoes ==
  ASSUME NEW m, NEW holders, NEW loose, Forest(m, holders, loose),
         NEW w, NEW x \in Items, Made(m, Result(w, x)), NEW r, r = Result(Delete(w, x), NULL)
  PROVE  Undone(m, r) /\ r.mem.starved = w.starved
<1> DEFINE d == Result(w, x)
<1>1. d.mem = w /\ d.ptr = x /\ x # NULL
  BY AddressAssumption DEF Result
<1>2. Forest(d.mem, holders \cup ({d.ptr} \ {NULL}), loose) /\ x \notin InUse(m) /\ Behind(w, x) = {x}
  BY <1>1, MadeForest
<1>3. Forest(w, holders \cup {x}, loose)
  <2>1. {d.ptr} \ {NULL} = {x}
    BY <1>1
  <2> QED BY <1>1, <1>2, <2>1
<1>4. r.mem = Delete(w, x) /\ r.ptr = NULL
  BY DEF Result
<1>5. Pruned(w, r.mem, {x})
  <2>1. Pruned(w, r.mem, Behind(w, x))
    <3>1. x \in holders \cup {x}
      OBVIOUS
    <3> QED BY <1>3, <1>4, <3>1, DeletePrunes
  <2> QED BY <1>2, <2>1
<1>6. /\ w.fault = m.fault /\ (m.starved => w.starved)
      /\ \A q \in Items \ {x} : w.item[q] = m.item[q]
      /\ OwnedTexts(w.item[x]) \cap m.text = {} /\ w.text = m.text \cup OwnedTexts(w.item[x])
  BY <1>1 DEF Made
<1>7. m \in Memory /\ m.item[x] = Node(FALSE)
  BY <1>2 DEF Forest, Clean, InUse, Live
<1>8. r.mem \in Memory /\ r.mem.fault = m.fault /\ r.mem.starved = w.starved
  BY <1>5, <1>6 DEF Pruned
<1>9. \A q \in Items : r.mem.item[q] = m.item[q]
  BY <1>5, <1>6, <1>7 DEF Pruned
<1>10. r.mem.item = m.item
  <2>1. r.mem.item \in [Items -> Nodes] /\ m.item \in [Items -> Nodes]
    BY <1>7, <1>8 DEF Memory
  <2> QED BY <1>9, <2>1
<1>11. r.mem.text = m.text
  BY <1>5, <1>6 DEF Pruned
<1> QED BY <1>4, <1>6, <1>8, <1>10, <1>11 DEF Undone

\* An item that has just been made is no reference and has no children.
Blank(r) ==
  r.ptr # NULL => ~r.mem.item[r.ptr].reference /\ r.mem.item[r.ptr].child = NULL

\* A reader sees of the new item what it sees of the original.
Twin(m, i, r) ==
  r.ptr # NULL =>
    /\ r.mem.item[r.ptr].value # NULL <=> m.item[i].value # NULL
    /\ r.mem.item[r.ptr].name # NULL <=> m.item[i].name # NULL

\* An item that has been zeroed points to nothing and owns nothing.
LEMMA FreshNode ==
  /\ Node(TRUE) \in Nodes /\ Node(TRUE).live /\ ~Node(TRUE).reference /\ ~Node(TRUE).constName
  /\ Node(TRUE).next = NULL /\ Node(TRUE).prev = NULL /\ Node(TRUE).child = NULL
  /\ Node(TRUE).value = NULL /\ Node(TRUE).name = NULL /\ Node(TRUE).ref = NULL
  /\ OwnedTexts(Node(TRUE)) = {}
<1>1. /\ Node(TRUE) \in Nodes /\ Node(TRUE).live /\ ~Node(TRUE).reference /\ ~Node(TRUE).constName
      /\ Node(TRUE).next = NULL /\ Node(TRUE).prev = NULL /\ Node(TRUE).child = NULL
      /\ Node(TRUE).value = NULL /\ Node(TRUE).name = NULL /\ Node(TRUE).ref = NULL
  BY DEF Node, Nodes, Address
<1> QED BY <1>1 DEF OwnedTexts, OwnedValue, OwnedName

\* A new item without a value belongs to its caller alone.
LEMMA CreateItemMakes ==
  ASSUME NEW m \in Memory, NEW r, r = CreateItem(m)
  PROVE  Made(m, r) /\ Blank(r)
<1>1. Fresh(m, r)
  BY NewItemIsFresh DEF CreateItem
<1>2. CASE r.ptr = NULL
  BY <1>1, <1>2, AddressAssumption DEF Fresh, Made, Blank
<1>3. CASE r.ptr # NULL
  <2>1. /\ r.ptr \in Items \ InUse(m) /\ r.mem.item[r.ptr] = Node(TRUE)
        /\ \A q \in Items \ {r.ptr} : r.mem.item[q] = m.item[q]
        /\ r.mem \in Memory /\ r.mem.fault = m.fault /\ r.mem.text = m.text
        /\ (m.starved => r.mem.starved)
    BY <1>1, <1>3 DEF Fresh
  <2>2. OwnedTexts(Node(TRUE)) = {} /\ OwnedValue(Node(TRUE)) = NULL
    BY FreshNode DEF OwnedValue
  <2>3. Node(TRUE).name # LITERAL
    BY FreshNode, AddressAssumption
  <2> QED BY <2>1, <2>2, <2>3, FreshNode DEF Made, Blank
<1> QED BY <1>2, <1>3

\* create_reference returns an item that owns nothing of the original.
LEMMA CreateReferenceMakes ==
  ASSUME NEW m \in Memory, NEW i \in InUse(m), NEW r, r = CreateReference(m, i)
  PROVE  Made(m, r)
<1> DEFINE f == NewItem(m)
           n == [m.item[i] EXCEPT !.name = NULL, !.reference = TRUE,
                                  !.next = NULL, !.prev = NULL, !.ref = i]
<1>1. Fresh(m, f)
  BY NewItemIsFresh
<1>2. CASE f.ptr = NULL
  <2>1. r = f
    BY <1>2 DEF CreateReference
  <2> QED BY <1>1, <1>2, <2>1, AddressAssumption DEF Fresh, Made
<1>3. CASE f.ptr # NULL
  <2>0. i \in Items /\ m.item[i] \in Nodes /\ m.item[i].live
    BY DEF InUse, Live, Memory
  <2>1. /\ n \in Nodes /\ n.live /\ n.reference /\ n.next = NULL /\ n.prev = NULL /\ n.name = NULL
    BY <2>0 DEF Nodes, Address
  <2>2. OwnedTexts(n) = {} /\ OwnedValue(n) = NULL
    BY <2>1 DEF OwnedTexts, OwnedValue, OwnedName
  <2>3. r.mem = [f.mem EXCEPT !.item[f.ptr] = n] /\ r.ptr = f.ptr
    BY <1>3 DEF CreateReference, Result
  <2> HIDE DEF f, n
  <2>4. /\ f.ptr \in Items \ InUse(m) /\ f.mem \in Memory
        /\ \A q \in Items \ {f.ptr} : f.mem.item[q] = m.item[q]
        /\ f.mem.fault = m.fault /\ f.mem.text = m.text
        /\ (m.starved => f.mem.starved)
    BY <1>1, <1>3 DEF Fresh
  <2>5. r.mem = [f.mem EXCEPT !.item = [f.mem.item EXCEPT ![f.ptr] = n]]
    BY <2>3
  <2>6. Put(f.mem, r.mem, f.ptr, n)
    <3>1. f.ptr \in Items
      BY <2>4
    <3> QED BY <2>1, <2>4, <2>5, <3>1, OneItem
  <2>7. n.name # LITERAL
    BY <2>1, AddressAssumption
  <2> QED BY <2>1, <2>2, <2>3, <2>4, <2>6, <2>7 DEF Made, Put
<1> QED BY <1>2, <1>3

\* cJSON_CreateString returns an item with a string of its own, or nothing.
LEMMA CreateStringMakes ==
  ASSUME NEW m, NEW holders, NEW loose, Forest(m, holders, loose), NEW r, r = CreateString(m)
  PROVE  Made(m, r) /\ Blank(r)
<1> DEFINE f == NewItem(m)
           c == Strdup(f.mem, LITERAL)
           w == Set(c.mem, f.ptr, "value", c.ptr)
<1>0. m \in Memory
  BY DEF Forest
<1>1. Fresh(m, f)
  BY <1>0, NewItemIsFresh
<1>2. CASE f.ptr = NULL
  <2>1. r = f
    BY <1>2 DEF CreateString
  <2> QED BY <1>1, <1>2, <2>1, AddressAssumption DEF Fresh, Made, Blank
<1>3. CASE f.ptr # NULL
  <2>1. r = IF c.ptr = NULL THEN Result(Delete(c.mem, f.ptr), NULL) ELSE Result(w, f.ptr)
    BY <1>3 DEF CreateString
  <2>2. /\ f.ptr \in Items \ InUse(m) /\ f.mem \in Memory /\ f.mem.item[f.ptr] = Node(TRUE)
        /\ \A q \in Items \ {f.ptr} : f.mem.item[q] = m.item[q]
        /\ f.mem.fault = m.fault /\ f.mem.text = m.text
        /\ (m.starved => f.mem.starved)
        /\ InUse(f.mem) = InUse(m) \cup {f.ptr}
    BY <1>1, <1>3 DEF Fresh
  <2> HIDE DEF f
  <2>3. Duplicated(f.mem, LITERAL, c)
    BY <2>2, StrdupIsNew
  <2> HIDE DEF c
  <2>4. /\ c.mem \in Memory /\ c.mem.item = f.mem.item /\ c.mem.fault = m.fault
        /\ (m.starved => c.mem.starved) /\ f.ptr \in InUse(c.mem)
        /\ \/ c.ptr = NULL /\ c.mem.text = m.text /\ c.mem.starved
           \/ c.ptr \in Texts \ m.text /\ c.mem.text = m.text \cup {c.ptr}
    BY <2>2, <2>3, AddressAssumption DEF Duplicated
  <2>5. CASE c.ptr = NULL
    <3>1. OwnedTexts(Node(TRUE)) = {} /\ OwnedValue(Node(TRUE)) = NULL /\ Node(TRUE).name # LITERAL
      BY FreshNode, AddressAssumption DEF OwnedValue
    <3>2. c.mem.text = m.text /\ c.mem.starved
      BY <2>4, <2>5, AddressAssumption
    <3> DEFINE d == Result(c.mem, f.ptr)
    <3>3. d.mem = c.mem /\ d.ptr = f.ptr
      BY DEF Result
    <3> HIDE DEF d
    <3>31. d.mem.item[d.ptr] = Node(TRUE)
      BY <2>2, <2>4, <3>3
    <3>32. /\ d.ptr \in Items \ InUse(m) /\ d.mem \in Memory /\ d.mem.fault = m.fault
           /\ (m.starved => d.mem.starved)
           /\ \A q \in Items \ {d.ptr} : d.mem.item[q] = m.item[q]
           /\ d.mem.text = m.text \cup OwnedTexts(Node(TRUE))
           /\ OwnedTexts(Node(TRUE)) \cap m.text = {}
      <4>1. d.ptr \in Items \ InUse(m) /\ \A q \in Items \ {d.ptr} : d.mem.item[q] = m.item[q]
        BY ONLY <2>2, <2>4, <3>3
      <4>2. /\ d.mem \in Memory /\ d.mem.fault = m.fault /\ (m.starved => d.mem.starved)
            /\ d.mem.text = m.text
        BY ONLY <2>4, <3>2, <3>3
      <4> QED BY ONLY <3>1, <4>1, <4>2
    <3>33. LET n == Node(TRUE)
           IN  /\ n.live /\ n.next = NULL /\ n.prev = NULL
               /\ n.reference \/ n.child = NULL
               /\ n.name = LITERAL => n.constName
               /\ OwnedValue(n) # NULL => OwnedValue(n) # OwnedName(n)
      BY <3>1, FreshNode
    <3>4. Made(m, d)
      BY <3>31, <3>32, <3>33 DEF Made
    <3> USE DEF d
    <3>5. Undone(m, r) /\ r.mem.starved = c.mem.starved
      BY <2>1, <2>2, <2>5, <3>4, FailUndoes
    <3> QED BY <3>2, <3>5 DEF Undone, Made, Blank
  <2>6. CASE c.ptr # NULL
    <3> DEFINE n == [c.mem.item[f.ptr] EXCEPT !.value = c.ptr]
    <3>1. n = [Node(TRUE) EXCEPT !.value = c.ptr]
      BY <2>2, <2>4
    <3>2. /\ n.live /\ ~n.reference /\ ~n.constName /\ n.next = NULL /\ n.prev = NULL
          /\ n.child = NULL /\ n.value = c.ptr /\ n.name = NULL
      BY <3>1, FreshNode DEF Nodes
    <3>3. c.ptr \in Texts \cup {NULL} /\ c.ptr \in Texts \ m.text /\ c.mem.text = m.text \cup {c.ptr}
      BY <2>4, <2>6
    <3>4. Put(c.mem, w, f.ptr, n)
      BY <2>4, <3>3, SetValue
    <3> HIDE DEF n, w
    <3>5. OwnedTexts(n) = {c.ptr} /\ OwnedValue(n) # OwnedName(n) /\ n.name # LITERAL
      BY <2>6, <3>2, AddressAssumption DEF OwnedTexts, OwnedValue, OwnedName
    <3>6. r.mem = w /\ r.ptr = f.ptr
      BY <2>1, <2>6 DEF Result
    <3> QED BY <2>2, <2>4, <3>2, <3>3, <3>4, <3>5, <3>6 DEF Made, Put, Blank
  <2> QED BY <2>5, <2>6
<1> QED BY <1>2, <1>3

\* x is a new item with a value and a name, the constancy of which is known.
Draft(m, w, x, constant, value, name) ==
  /\ w \in Memory /\ w.fault = m.fault /\ (m.starved => w.starved)
  /\ x \in Items \ InUse(m) /\ InUse(w) = InUse(m) \cup {x}
  /\ \A q \in Items \ {x} : w.item[q] = m.item[q]
  /\ w.item[x].live /\ ~w.item[x].reference
  /\ w.item[x].next = NULL /\ w.item[x].prev = NULL /\ w.item[x].child = NULL
  /\ w.item[x].constName = constant /\ w.item[x].value = value /\ w.item[x].name = name
  /\ OwnedTexts(w.item[x]) \cap m.text = {} /\ w.text = m.text \cup OwnedTexts(w.item[x])
  /\ name = LITERAL => constant
  /\ value # NULL => ~(~constant /\ name = value)

\* A draft is an item that has just been made.
LEMMA DraftIsMade ==
  ASSUME NEW m, NEW w, NEW x, NEW b, NEW v, NEW s, Draft(m, w, x, b, v, s),
         NEW r, r = Result(w, x)
  PROVE  Made(m, r) /\ Blank(r)
<1>1. r.mem = w /\ r.ptr = x
  BY DEF Result
<1>2. OwnedValue(w.item[x]) # NULL => OwnedValue(w.item[x]) # OwnedName(w.item[x])
  BY DEF Draft, OwnedValue, OwnedName
<1>3. w.item[x].name = LITERAL => w.item[x].constName
  BY DEF Draft
<1> QED BY <1>1, <1>2, <1>3 DEF Draft, Made, Blank

\* The copy of an item alone has strings of its own, and as many as the original.
LEMMA DuplicateAloneMakes ==
  ASSUME NEW m, NEW holders, NEW loose, Forest(m, holders, loose), NEW i \in InUse(m),
         NEW r, r = DuplicateAlone(m, i)
  PROVE  Made(m, r) /\ Blank(r) /\ Twin(m, i, r)
<1> DEFINE n == m.item[i]
           f == NewItem(m)
           x == f.ptr
           t == Set(f.mem, x, "constName", n.constName)
           v == Strdup(t, n.value)
           vd == Set(v.mem, x, "value", v.ptr)
           s == IF n.constName THEN Result(vd, n.name) ELSE Strdup(vd, n.name)
           w == Set(s.mem, x, "name", s.ptr)
<1>0. m \in Memory
  BY DEF Forest
<1>01. /\ n.constName \in BOOLEAN /\ n.name \in Texts \cup {NULL, LITERAL}
       /\ n.name = LITERAL => n.constName
  <2>1. n \in Nodes /\ i \in Items
    BY <1>0 DEF InUse, Memory
  <2> QED BY <2>1 DEF Nodes, Forest, Clean
<1>02. \A u \in Texts : u # NULL /\ u # LITERAL
  BY AddressAssumption
<1>1. r = IF x = NULL THEN f
          ELSE IF n.value # NULL /\ v.ptr = NULL THEN Fail(vd, x)
          ELSE IF n.name # NULL /\ s.ptr = NULL THEN Fail(s.mem, x)
          ELSE Result(w, x)
  BY DEF DuplicateAlone
<1>2. Fresh(m, f)
  BY <1>0, NewItemIsFresh
<1> HIDE DEF n
<1>3. CASE x = NULL
  <2>1. r = f
    BY <1>1, <1>3
  <2> QED BY <1>2, <1>3, <2>1, AddressAssumption DEF Fresh, Made, Blank, Twin
<1>4. CASE x # NULL
  <2>1. /\ x \in Items \ InUse(m) /\ f.mem \in Memory /\ f.mem.item[x] = Node(TRUE)
        /\ \A q \in Items \ {x} : f.mem.item[q] = m.item[q]
        /\ f.mem.fault = m.fault /\ f.mem.text = m.text
        /\ (m.starved => f.mem.starved)
        /\ InUse(f.mem) = InUse(m) \cup {x}
    BY <1>2, <1>4 DEF Fresh
  <2> HIDE DEF f, x
  <2>2. Draft(m, t, x, n.constName, NULL, NULL)
    <3> DEFINE n1 == [f.mem.item[x] EXCEPT !.constName = n.constName]
    <3>1. Put(f.mem, t, x, n1) /\ InUse(t) = InUse(f.mem)
      BY <1>01, <2>1, SetConstName
    <3>2. /\ n1.live /\ ~n1.reference /\ n1.constName = n.constName /\ n1.next = NULL
          /\ n1.prev = NULL /\ n1.child = NULL /\ n1.value = NULL /\ n1.name = NULL
      BY <1>01, <2>1, FreshNode DEF Nodes
    <3> HIDE DEF n1, t
    <3>3. OwnedTexts(n1) = {}
      BY <3>2 DEF OwnedTexts, OwnedValue, OwnedName
    <3> QED BY <2>1, <3>1, <3>2, <3>3, AddressAssumption DEF Draft, Put
  <2> HIDE DEF t
  <2>3. Duplicated(t, n.value, v)
    BY <2>2, StrdupIsNew DEF Draft
  <2> HIDE DEF v
  <2>40. v.ptr \in Texts \cup {NULL} /\ (n.value = NULL => v.ptr = NULL)
    BY <2>3 DEF Duplicated
  <2>4. Draft(m, vd, x, n.constName, v.ptr, NULL) /\ vd.starved = v.mem.starved
    <3> DEFINE n2 == [v.mem.item[x] EXCEPT !.value = v.ptr]
    <3>1. v.mem \in Memory /\ x \in InUse(v.mem) /\ v.mem.item = t.item
      BY <2>2, <2>3 DEF Duplicated, Draft
    <3>2. Put(v.mem, vd, x, n2) /\ InUse(vd) = InUse(v.mem)
      BY <2>40, <3>1, SetValue
    <3>30. v.mem.item[x] \in Nodes
      BY <2>1, <3>1 DEF Memory
    <3>3. /\ n2.live /\ ~n2.reference /\ n2.constName = n.constName /\ n2.next = NULL
          /\ n2.prev = NULL /\ n2.child = NULL /\ n2.value = v.ptr /\ n2.name = NULL
      BY <2>2, <3>1, <3>30 DEF Draft, Nodes
    <3> HIDE DEF n2, vd
    <3>4. OwnedTexts(n2) = {v.ptr} \ {NULL}
      BY <3>3 DEF OwnedTexts, OwnedValue, OwnedName
    <3>5. /\ v.mem.text = m.text \cup ({v.ptr} \ {NULL}) /\ ({v.ptr} \ {NULL}) \cap m.text = {}
          /\ v.mem.fault = m.fault /\ (m.starved => v.mem.starved)
      <4>1. t.text = m.text /\ t.fault = m.fault /\ (m.starved => t.starved)
        BY <2>2 DEF Draft, OwnedTexts, OwnedValue, OwnedName
      <4> QED BY <1>02, <2>3, <4>1 DEF Duplicated
    <3>6. InUse(v.mem) = InUse(m) \cup {x} /\ \A q \in Items \ {x} : v.mem.item[q] = m.item[q]
      BY <2>2, <2>3, <3>1 DEF Duplicated, Draft
    <3> QED BY <2>1, <3>2, <3>3, <3>4, <3>5, <3>6, AddressAssumption DEF Draft, Put
  <2> HIDE DEF vd
  <2>5. CASE n.value # NULL /\ v.ptr = NULL
    <3>1. r = Result(Delete(vd, x), NULL)
      BY <1>1, <1>4, <2>5 DEF Fail
    <3>2. Made(m, Result(vd, x))
      BY <2>4, DraftIsMade
    <3>3. Undone(m, r) /\ r.mem.starved = vd.starved
      BY <2>1, <3>1, <3>2, FailUndoes
    <3>4. vd.starved
      BY <1>02, <2>3, <2>4, <2>5 DEF Duplicated
    <3> QED BY <3>3, <3>4 DEF Undone, Made, Blank, Twin
  <2>6. CASE ~(n.value # NULL /\ v.ptr = NULL)
    <3> DEFINE lost == n.name # NULL /\ s.ptr = NULL
    <3>1. r = IF lost THEN Fail(s.mem, x) ELSE Result(w, x)
      BY <1>1, <1>4, <2>6
    <3>2. CASE n.constName
      <4>1. s.mem = vd /\ s.ptr = n.name
        BY <3>2 DEF Result
      <4>2. r = Result(w, x) /\ w = Set(vd, x, "name", n.name)
        BY <3>1, <4>1
      <4> HIDE DEF s, w
      <4> DEFINE n3 == [vd.item[x] EXCEPT !.name = n.name]
      <4>3. vd \in Memory /\ x \in InUse(vd) /\ vd.item[x] \in Nodes
        BY <2>1, <2>4 DEF Draft, Memory
      <4>4. Put(vd, w, x, n3) /\ InUse(w) = InUse(vd)
        BY <1>01, <4>2, <4>3, SetName
      <4>5. /\ n3.live /\ ~n3.reference /\ n3.constName = n.constName /\ n3.next = NULL
            /\ n3.prev = NULL /\ n3.child = NULL /\ n3.value = v.ptr /\ n3.name = n.name
        BY <2>4, <4>3 DEF Draft, Nodes
      <4> HIDE DEF n3
      <4>6. OwnedTexts(n3) = OwnedTexts(vd.item[x])
        BY <2>4, <3>2, <4>5 DEF OwnedTexts, OwnedValue, OwnedName, Draft
      <4>7. Draft(m, w, x, n.constName, v.ptr, n.name)
        BY <1>01, <2>1, <2>4, <3>2, <4>4, <4>5, <4>6 DEF Draft, Put
      <4>8. Made(m, r) /\ Blank(r)
        BY <4>2, <4>7, DraftIsMade
      <4>9. r.mem = w /\ r.ptr = x
        BY <4>2 DEF Result
      <4> QED BY <2>40, <2>6, <4>7, <4>8, <4>9 DEF Twin, Draft, n
    <3>3. CASE ~n.constName
      <4>1. s = Strdup(vd, n.name)
        BY <3>3
      <4> HIDE DEF s
      <4>2. Duplicated(vd, n.name, s)
        BY <2>4, <4>1, StrdupIsNew DEF Draft
      <4>3. /\ s.ptr \in Texts \cup {NULL} /\ (n.name = NULL => s.ptr = NULL)
            /\ s.mem \in Memory /\ s.mem.item = vd.item /\ s.mem.fault = vd.fault
            /\ (vd.starved => s.mem.starved) /\ InUse(s.mem) = InUse(vd)
            /\ s.mem.text = vd.text \cup ({s.ptr} \ {NULL})
            /\ ({s.ptr} \ {NULL}) \cap vd.text = {}
            /\ n.name # NULL /\ s.ptr = NULL => s.mem.starved
        BY <1>02, <4>2 DEF Duplicated
      <4>4. CASE lost
        <5>1. r = Result(Delete(s.mem, x), NULL)
          BY <3>1, <4>4 DEF Fail
        <5>20. s.mem.text = vd.text
          BY <4>3, <4>4
        <5>2. Draft(m, s.mem, x, n.constName, v.ptr, NULL)
          BY <2>4, <4>3, <5>20 DEF Draft
        <5>3. Made(m, Result(s.mem, x))
          BY <5>2, DraftIsMade
        <5>4. Undone(m, r) /\ r.mem.starved = s.mem.starved
          BY <2>1, <5>1, <5>3, FailUndoes
        <5> QED BY <4>3, <4>4, <5>4 DEF Undone, Made, Blank, Twin
      <4>5. CASE ~lost
        <5>1. r = Result(w, x)
          BY <3>1, <4>5
        <5> DEFINE n3 == [s.mem.item[x] EXCEPT !.name = s.ptr]
        <5>2. s.mem \in Memory /\ x \in InUse(s.mem) /\ s.mem.item[x] \in Nodes
              /\ s.ptr \in Texts \cup {NULL, LITERAL}
          BY <2>1, <2>4, <4>3 DEF Draft, Memory
        <5>3. Put(s.mem, w, x, n3) /\ InUse(w) = InUse(s.mem)
          BY <5>2, SetName
        <5>4. /\ n3.live /\ ~n3.reference /\ n3.constName = n.constName /\ n3.next = NULL
              /\ n3.prev = NULL /\ n3.child = NULL /\ n3.value = v.ptr /\ n3.name = s.ptr
          BY <2>4, <4>3, <5>2 DEF Draft, Nodes
        <5> HIDE DEF n3, w
        <5>5. /\ OwnedTexts(n3) = ({v.ptr} \ {NULL}) \cup ({s.ptr} \ {NULL})
              /\ OwnedTexts(vd.item[x]) = {v.ptr} \ {NULL}
          BY <2>4, <3>3, <5>4 DEF OwnedTexts, OwnedValue, OwnedName, Draft
        <5>6. /\ ({v.ptr} \ {NULL}) \cap m.text = {} /\ vd.text = m.text \cup ({v.ptr} \ {NULL})
          BY <2>4, <5>5 DEF Draft
        <5>7. /\ OwnedTexts(n3) \cap m.text = {} /\ w.text = m.text \cup OwnedTexts(n3)
              /\ v.ptr # NULL => s.ptr # v.ptr
          BY <4>3, <5>3, <5>5, <5>6 DEF Put
        <5>8. s.ptr # LITERAL
          BY <1>02, <4>3, AddressAssumption
        <5>9. Draft(m, w, x, n.constName, v.ptr, s.ptr)
          BY <2>1, <2>4, <4>3, <5>3, <5>4, <5>7, <5>8 DEF Draft, Put
        <5>10. Made(m, r) /\ Blank(r)
          BY <5>1, <5>9, DraftIsMade
        <5>11. r.mem = w /\ r.ptr = x
          BY <5>1 DEF Result
        <5> QED BY <2>40, <2>6, <4>3, <4>5, <5>9, <5>10, <5>11 DEF Twin, Draft, n
      <4> QED BY <4>4, <4>5
    <3> QED BY <3>2, <3>3
  <2> QED BY <2>5, <2>6
<1> QED BY <1>3, <1>4

-----------------------------------------------------------------------------
(* Operations on forests                                                   *)

\* A holder may be given to the list of a.
MayTake(m, holders, a, x) ==
  /\ x \in holders /\ a \in InUse(m) /\ ~m.item[a].reference /\ a \notin Behind(m, x)

\* The outcome of an operation: the forest that it leaves, with no string lost.
Outcome(m, loose, w, after, kept) ==
  /\ Forest(w, after, kept)
  /\ AllOwned(m, loose) => AllOwned(w, kept)
  /\ m.starved => w.starved

\* cJSON_AddItemToArray gives a holder to a list.
LEMMA AppendForest ==
  ASSUME NEW m, NEW holders, NEW loose, Forest(m, holders, loose), NEW a, NEW x,
         MayTake(m, holders, a, x), NEW w, w = AddItemToArray(m, a, x)
  PROVE  Outcome(m, loose, w, holders \ {x}, loose) /\ Relinked(m, w, InUse(m))
<1>1. m \in Memory /\ Links(m, holders)
  BY DEF Forest
<1>2. Relinked(m, w, InUse(m)) /\ Links(w, holders \ {x})
  BY <1>1, AppendKeepsLinks DEF MayTake
<1> QED BY <1>2, RelinkedForest DEF Outcome

\* An item in a list is no holder.
LEMMA ChildIsNoHolder ==
  ASSUME NEW m \in Memory, NEW holders, Links(m, holders), NEW a \in InUse(m),
         ~m.item[a].reference, NEW c \in Children(m, a)
  PROVE  c \in InUse(m) /\ c \notin holders /\ c # NULL
<1>1. /\ m.item[a].child # NULL /\ c \in InUse(m)
      /\ m.item[c].prev = NULL <=> c = m.item[a].child
  BY ListsBegin
<1> QED BY <1>1, AddressAssumption DEF Links, InUse

\* cJSON_DetachItemFromArray gives an item of a list to the caller.
LEMMA DetachForest ==
  ASSUME NEW m, NEW holders, NEW loose, Forest(m, holders, loose), NEW a \in InUse(m),
         ~m.item[a].reference, NEW c \in Children(m, a), NEW w, w = Unlink(m, a, c)
  PROVE  Outcome(m, loose, w, holders \cup {c}, loose) /\ c \notin holders
<1>1. m \in Memory /\ Links(m, holders)
  BY DEF Forest
<1>2. Relinked(m, w, InUse(m)) /\ Links(w, holders \cup {c})
  BY <1>1, UnlinkTakesOut
<1> QED BY <1>1, <1>2, RelinkedForest, ChildIsNoHolder DEF Outcome

\* cJSON_InsertItemInArray gives a holder to a list, before an item of it.
LEMMA InsertForest ==
  ASSUME NEW m, NEW holders, NEW loose, Forest(m, holders, loose), NEW a, NEW x,
         MayTake(m, holders, a, x), NEW c \in Children(m, a) \cup {NULL},
         NEW w, w = InsertItemInArray(m, a, c, x)
  PROVE  Outcome(m, loose, w, holders \ {x}, loose)
<1>1. m \in Memory /\ Links(m, holders)
  BY DEF Forest
<1>2. Relinked(m, w, InUse(m)) /\ Links(w, holders \ {x})
  BY <1>1, InsertItemKeepsLinks DEF MayTake
<1> QED BY <1>2, RelinkedForest DEF Outcome

\* cJSON_ReplaceItemInArray gives a holder to a list and deletes what was there.
LEMMA ReplaceForest ==
  ASSUME NEW m, NEW holders, NEW loose, Forest(m, holders, loose), NEW a, NEW x,
         MayTake(m, holders, a, x), NEW c \in Children(m, a),
         NEW w, w = ReplaceItemInArray(m, a, c, x)
  PROVE  Outcome(m, loose, w, holders \ {x}, loose)
<1> DEFINE v == ReplaceLinks(m, a, c, x)
<1>1. m \in Memory /\ Links(m, holders)
  BY DEF Forest
<1>2. Relinked(m, v, InUse(m)) /\ Links(v, (holders \cup {c}) \ {x})
  BY <1>1, ReplaceKeepsLinks DEF MayTake
<1>3. c \notin holders /\ c # NULL
  BY <1>1, ChildIsNoHolder DEF MayTake
<1>4. w = Delete(v, c)
  BY <1>3 DEF ReplaceItemInArray, ReplaceLinks
<1> HIDE DEF v
<1>5. /\ Forest(v, (holders \cup {c}) \ {x}, loose) /\ v.starved = m.starved
      /\ AllOwned(m, loose) => AllOwned(v, loose)
  BY <1>2, RelinkedForest
<1>6. c \in (holders \cup {c}) \ {x} /\ ((holders \cup {c}) \ {x}) \ {c} = holders \ {x}
  BY <1>3 DEF MayTake
<1>7. /\ Pruned(v, w, Behind(v, c)) /\ Forest(w, ((holders \cup {c}) \ {x}) \ {c}, loose)
      /\ AllOwned(v, loose) => AllOwned(w, loose)
  BY <1>4, <1>5, <1>6, DeletePrunes
<1>8. Forest(w, holders \ {x}, loose)
  BY <1>6, <1>7
<1> QED BY <1>5, <1>7, <1>8 DEF Outcome, Pruned

\* cJSON_Delete of a holder leaves the other trees.
LEMMA DeleteForest ==
  ASSUME NEW m, NEW holders, NEW loose, Forest(m, holders, loose), NEW x \in holders,
         NEW w, w = Delete(m, x)
  PROVE  Outcome(m, loose, w, holders \ {x}, loose)
BY DeletePrunes DEF Outcome, Pruned

\* A name that is allocated is given back.
Dropped(m, d, x) ==
  /\ d \in Memory /\ d.item = m.item /\ d.fault = m.fault /\ d.starved = m.starved
  /\ InUse(d) = InUse(m)
  /\ d.text = m.text \ ({OwnedName(m.item[x])} \ {NULL})

\* Freeing a name that is not constant frees what its item owned.
LEMMA NameIsDropped ==
  ASSUME NEW m, NEW holders, NEW loose, Forest(m, holders, loose), NEW x \in InUse(m),
         NEW d, d = IF m.item[x].constName THEN m ELSE FreeText(m, m.item[x].name)
  PROVE  Dropped(m, d, x)
<1> DEFINE s == m.item[x].name
<1>1. m \in Memory /\ OwnedTexts(m.item[x]) \subseteq m.text
  BY DEF Forest, TextsOwned
<1>2. CASE m.item[x].constName \/ s = NULL
  <2>1. d = m
    BY <1>2 DEF FreeText
  <2>2. {OwnedName(m.item[x])} \ {NULL} = {}
    BY <1>2 DEF OwnedName
  <2>3. m.text \ ({OwnedName(m.item[x])} \ {NULL}) = m.text
    BY <2>2
  <2> QED BY <1>1, <2>1, <2>3 DEF Dropped
<1>3. CASE ~(m.item[x].constName \/ s = NULL)
  <2>1. OwnedName(m.item[x]) = s /\ s \in m.text
    BY <1>1, <1>3 DEF OwnedTexts, OwnedName
  <2>2. d = [m EXCEPT !.text = m.text \ {s}]
    BY <1>3, <2>1 DEF FreeText
  <2>3. /\ d \in Memory /\ d.item = m.item /\ d.fault = m.fault /\ d.starved = m.starved
        /\ d.text = m.text \ {s}
    BY <1>1, <2>2 DEF Memory
  <2>4. InUse(d) = InUse(m)
    BY <2>3 DEF InUse, Live
  <2>5. {s} \ {NULL} = {s}
    BY <1>3
  <2> QED BY <2>1, <2>3, <2>4, <2>5 DEF Dropped
<1> QED BY <1>2, <1>3

\* A string that has just been allocated is loose.
LEMMA DuplicatedForest ==
  ASSUME NEW m, NEW holders, NEW loose, Forest(m, holders, loose), NEW s, NEW r,
         Duplicated(m, s, r), NEW new, new = {r.ptr} \ {NULL}
  PROVE  /\ Outcome(m, loose, r.mem, holders, loose \cup new) /\ new \cap loose = {}
         /\ new \subseteq Texts /\ InUse(r.mem) = InUse(m) /\ r.mem.item = m.item
<1>0. m \in Memory /\ Links(m, holders) /\ TextsOwned(m) /\ ~m.fault /\ Clean(m) /\ Loose(m, loose)
  BY DEF Forest
<1>1. /\ r.mem \in Memory /\ r.mem.item = m.item /\ ~r.mem.fault
      /\ (m.starved => r.mem.starved) /\ InUse(r.mem) = InUse(m)
      /\ r.mem.text = m.text \cup new /\ new \cap m.text = {} /\ new \subseteq Texts
  BY <1>0, AddressAssumption DEF Duplicated
<1>2. Links(r.mem, holders)
  BY <1>0, <1>1, SameLinks
<1>3. Clean(r.mem) /\ TextsOwned(r.mem)
  BY <1>0, <1>1 DEF Clean, TextsOwned
<1>4. Loose(r.mem, loose \cup new) /\ new \cap loose = {}
  BY <1>0, <1>1 DEF Loose, TextsOwned
<1>5. AllOwned(m, loose) => AllOwned(r.mem, loose \cup new)
  BY <1>1 DEF AllOwned
<1> QED BY <1>1, <1>2, <1>3, <1>4, <1>5 DEF Forest, Outcome

\* The name is s, and it is no allocation.
ConstNamed(w, x, s) == w.item[x].constName /\ w.item[x].name = s

\* An item may be added to a container that is no part of it.  If the container is
\* NULL, the item stays where it is.
MayJoin(m, holders, a, x) == IF a = NULL THEN x \in holders ELSE MayTake(m, holders, a, x)

\* A child is held no more.
Remaining(holders, a, x) == IF a = NULL THEN holders ELSE holders \ {x}

\* No item is freed, allocated or made a reference.
Kept(m, w) ==
  \A q \in Items : /\ w.item[q].live = m.item[q].live
                   /\ w.item[q].reference = m.item[q].reference

\* An item that is added under a constant name gives back the one that it had.
LEMMA JoinConstForest ==
  ASSUME NEW m, NEW holders, NEW loose, Forest(m, holders, loose), NEW a, NEW x,
         MayJoin(m, holders, a, x), NEW s \in Texts \cup {NULL, LITERAL},
         NEW w, w = AddItemToObjectCS(m, a, s, x)
  PROVE  /\ Outcome(m, loose, w, Remaining(holders, a, x), loose) /\ x \in InUse(w)
         /\ ConstNamed(w, x, s) /\ Kept(m, w)
<1> DEFINE d == IF m.item[x].constName THEN m ELSE FreeText(m, m.item[x].name)
           u == Set(d, x, "name", s)
           v == Set(u, x, "constName", TRUE)
<1>0. m \in Memory /\ Links(m, holders)
  BY DEF Forest
<1>1. x \in InUse(m) /\ x \in Items /\ x # NULL
  BY <1>0, AddressAssumption DEF Links, MayJoin, MayTake, InUse
<1>2. w = AddItemToArray(v, a, x)
  BY <1>1 DEF AddItemToObjectCS
<1>3. Dropped(m, d, x)
  BY <1>1, NameIsDropped
<1> HIDE DEF d
<1> DEFINE n1 == [d.item[x] EXCEPT !.name = s]
<1>4. d \in Memory /\ x \in InUse(d) /\ d.item[x] \in Nodes
  BY <1>1, <1>3 DEF Dropped, Memory
<1>5. Put(d, u, x, n1) /\ InUse(u) = InUse(d) /\ u \in Memory
  BY <1>4, SetName
<1>6. /\ n1.live = m.item[x].live /\ n1.reference = m.item[x].reference /\ n1.next = m.item[x].next
      /\ n1.prev = m.item[x].prev /\ n1.child = m.item[x].child /\ n1.value = m.item[x].value
      /\ n1.name = s
  BY <1>3, <1>4 DEF Dropped, Nodes
<1> HIDE DEF n1, u
<1> DEFINE n2 == [u.item[x] EXCEPT !.constName = TRUE]
<1>7. Put(u, v, x, n2) /\ InUse(v) = InUse(u)
  BY <1>4, <1>5, SetConstName
<1>80. u.item[x] \in Nodes /\ u.item[x] = n1
  BY <1>1, <1>5 DEF Memory, Put
<1>8. /\ n2.live = m.item[x].live /\ n2.reference = m.item[x].reference /\ n2.next = m.item[x].next
      /\ n2.prev = m.item[x].prev /\ n2.child = m.item[x].child /\ n2.value = m.item[x].value
      /\ n2.name = s /\ n2.constName
  BY <1>6, <1>80 DEF Nodes
<1> HIDE DEF n2, v
<1>9. /\ Relabelled(m, v, x) /\ v.text = m.text \ ({OwnedName(m.item[x])} \ {NULL})
      /\ v.starved = m.starved /\ v.item[x].name = s /\ v.item[x].constName
  BY <1>3, <1>5, <1>7, <1>8 DEF Relabelled, Put, Dropped
<1>10. {OwnedName(v.item[x])} \ {NULL} = {}
  BY <1>9 DEF OwnedName
<1> DEFINE old == {OwnedName(m.item[x])} \ {NULL}
           new == {OwnedName(v.item[x])} \ {NULL}
<1>11. /\ (m.text \ old) \cup new \subseteq v.text /\ new \cap (m.text \ old) \subseteq loose
       /\ v.text = (m.text \ old) \cup new /\ loose \ new = loose
  BY <1>9, <1>10
<1>12. /\ Forest(v, holders, loose \ new) /\ InUse(v) = InUse(m)
       /\ AllOwned(m, loose) /\ v.text = (m.text \ old) \cup new => AllOwned(v, loose \ new)
  BY <1>1, <1>9, <1>11, RelabelledForest
<1>13. Forest(v, holders, loose) /\ (AllOwned(m, loose) => AllOwned(v, loose))
  BY <1>11, <1>12
<1>14. ASSUME a # NULL
       PROVE  MayTake(v, holders, a, x)
  <2>1. \A q \in InUse(m) : /\ v.item[q].reference = m.item[q].reference
                            /\ v.item[q].next = m.item[q].next
                            /\ v.item[q].prev = m.item[q].prev
                            /\ v.item[q].child = m.item[q].child
    BY <1>9 DEF Relabelled, InUse
  <2>2. v \in Memory
    BY <1>9 DEF Relabelled
  <2>3. Behind(v, x) = Behind(m, x)
    BY <1>0, <1>1, <1>12, <2>1, <2>2, SameLinks
  <2>4. MayTake(m, holders, a, x)
    BY <1>14 DEF MayJoin
  <2> QED BY <1>12, <2>1, <2>3, <2>4 DEF MayTake
<1>15. Outcome(v, loose, w, Remaining(holders, a, x), loose) /\ Relinked(v, w, InUse(v))
  <2>1. CASE a # NULL
    BY <1>2, <1>13, <1>14, <2>1, AppendForest DEF Remaining
  <2>2. CASE a = NULL
    <3>1. w = v /\ v \in Memory
      BY <1>2, <1>9, <2>2 DEF AddItemToArray, Relabelled
    <3>2. Relinked(v, w, InUse(v))
      BY <3>1 DEF Relinked
    <3> QED BY <1>13, <2>2, <3>1, <3>2 DEF Outcome, Remaining
  <2> QED BY <2>1, <2>2
<1>16. x \in InUse(w) /\ ConstNamed(w, x, s)
  BY <1>1, <1>9, <1>12, <1>15 DEF Relinked, InUse, Live, ConstNamed
<1>17. Kept(m, w)
  BY <1>9, <1>15 DEF Kept, Relabelled, Relinked
<1> QED BY <1>9, <1>13, <1>15, <1>16, <1>17 DEF Outcome

\* So it is when there is a container.
LEMMA AddConstForest ==
  ASSUME NEW m, NEW holders, NEW loose, Forest(m, holders, loose), NEW a, NEW x,
         MayTake(m, holders, a, x), NEW s \in Texts \cup {NULL, LITERAL},
         NEW w, w = AddItemToObjectCS(m, a, s, x)
  PROVE  Outcome(m, loose, w, holders \ {x}, loose)
<1>1. a # NULL
  BY AddressAssumption DEF MayTake, InUse
<1>2. MayJoin(m, holders, a, x) /\ Remaining(holders, a, x) = holders \ {x}
  BY <1>1 DEF MayJoin, Remaining
<1>3. Outcome(m, loose, w, Remaining(holders, a, x), loose)
  BY <1>2, JoinConstForest
<1> QED BY <1>2, <1>3

\* An item that is added under an allocated name.
LEMMA JoinForest ==
  ASSUME NEW m, NEW holders, Forest(m, holders, {}), NEW a, NEW x,
         MayJoin(m, holders, a, x), NEW s \in Texts \cup {LITERAL},
         NEW w, w = AddItemToObject(m, a, s, x)
  PROVE  Outcome(m, {}, w, Remaining(holders, a, x), {}) /\ Kept(m, w)
<1> DEFINE c == Strdup(m, s)
           v == AddItemToObjectCS(c.mem, a, c.ptr, x)
           new == {c.ptr} \ {NULL}
           after == Remaining(holders, a, x)
<1>0. m \in Memory /\ Links(m, holders)
  BY DEF Forest
<1>1. x \in InUse(m) /\ x \in Items /\ x \in holders
  BY <1>0 DEF Links, MayJoin, MayTake, InUse
<1>2. w = Set(v, x, "constName", FALSE)
  BY DEF AddItemToObject
<1>3. Duplicated(m, s, c)
  BY <1>0, StrdupIsNew
<1> HIDE DEF c
<1>4. /\ Outcome(m, {}, c.mem, holders, {} \cup new) /\ new \subseteq Texts
      /\ InUse(c.mem) = InUse(m) /\ c.mem.item = m.item
  BY <1>3, DuplicatedForest
<1>5. Forest(c.mem, holders, new) /\ c.mem \in Memory /\ {} \cup new = new
  <2>1. {} \cup new = new
    OBVIOUS
  <2>2. Forest(c.mem, holders, {} \cup new)
    BY <1>4 DEF Outcome
  <2>3. Forest(c.mem, holders, new)
    BY <2>1, <2>2
  <2> QED BY <2>1, <2>3 DEF Forest
<1>6. MayJoin(c.mem, holders, a, x)
  <2>1. Behind(c.mem, x) = Behind(m, x)
    BY <1>0, <1>1, <1>4, <1>5, SameLinks
  <2> QED BY <1>4, <2>1 DEF MayJoin, MayTake
<1>7. c.ptr \in Texts \cup {NULL, LITERAL} /\ c.ptr # LITERAL
  BY <1>4, AddressAssumption
<1>80. /\ Outcome(c.mem, new, v, after, new) /\ x \in InUse(v)
       /\ ConstNamed(v, x, c.ptr) /\ Kept(c.mem, v)
  <2>1. /\ Forest(c.mem, holders, new) /\ MayJoin(c.mem, holders, a, x)
        /\ c.ptr \in Texts \cup {NULL, LITERAL}
        /\ v = AddItemToObjectCS(c.mem, a, c.ptr, x)
    BY <1>5, <1>6, <1>7
  <2> QED BY ONLY <2>1, JoinConstForest
<1>8. /\ Outcome(c.mem, new, v, after, new) /\ x \in InUse(v)
      /\ v.item[x].constName /\ v.item[x].name = c.ptr /\ Kept(c.mem, v)
  BY <1>80 DEF ConstNamed
<1> HIDE DEF v, after
<1>9. Forest(v, after, new) /\ v \in Memory
  BY <1>8 DEF Outcome, Forest
<1> DEFINE n == [v.item[x] EXCEPT !.constName = FALSE]
<1>10. Put(v, w, x, n)
  BY <1>2, <1>8, <1>9, SetConstName
<1>11. v.item[x] \in Nodes
  BY <1>1, <1>9 DEF Memory
<1>12. /\ n.live = v.item[x].live /\ n.reference = v.item[x].reference /\ n.next = v.item[x].next
       /\ n.prev = v.item[x].prev /\ n.child = v.item[x].child /\ n.value = v.item[x].value
       /\ n.name = c.ptr /\ ~n.constName
  BY <1>8, <1>11 DEF Nodes
<1> HIDE DEF n
<1>13. Relabelled(v, w, x) /\ w.text = v.text /\ w.starved = v.starved /\ w.item[x] = n
  BY <1>7, <1>10, <1>12 DEF Relabelled, Put
<1>14. OwnedName(v.item[x]) = NULL /\ OwnedName(w.item[x]) = c.ptr
  BY <1>8, <1>12, <1>13 DEF OwnedName
<1> DEFINE old == {OwnedName(v.item[x])} \ {NULL}
           fresh == {OwnedName(w.item[x])} \ {NULL}
<1>15. old = {} /\ fresh = new /\ new \subseteq v.text
  BY <1>9, <1>14 DEF Forest, Loose
<1>16. /\ (v.text \ old) \cup fresh \subseteq w.text /\ fresh \cap (v.text \ old) \subseteq new
       /\ w.text = (v.text \ old) \cup fresh /\ new \ fresh = {}
  BY <1>13, <1>15
<1>17. /\ Forest(w, after, new \ fresh)
       /\ AllOwned(v, new) /\ w.text = (v.text \ old) \cup fresh => AllOwned(w, new \ fresh)
  <2>1. /\ Forest(v, after, new) /\ x \in InUse(v) /\ Relabelled(v, w, x)
        /\ old = {OwnedName(v.item[x])} \ {NULL} /\ fresh = {OwnedName(w.item[x])} \ {NULL}
        /\ (v.text \ old) \cup fresh \subseteq w.text /\ fresh \cap (v.text \ old) \subseteq new
    BY <1>8, <1>9, <1>13, <1>16
  <2> HIDE DEF old, fresh, new
  <2> QED BY ONLY <2>1, RelabelledForest
<1>18. Forest(w, after, {}) /\ (AllOwned(v, new) => AllOwned(w, {}))
  BY <1>16, <1>17
<1>19. /\ AllOwned(m, {}) => AllOwned(c.mem, new)
       /\ AllOwned(c.mem, new) => AllOwned(v, new)
       /\ m.starved => w.starved
  <2>1. AllOwned(m, {}) => AllOwned(c.mem, {} \cup new)
    BY <1>4 DEF Outcome
  <2> QED BY <1>4, <1>5, <1>8, <1>13, <2>1 DEF Outcome
<1>20. Kept(m, w)
  BY <1>4, <1>8, <1>13 DEF Kept, Relabelled
<1> QED BY <1>18, <1>19, <1>20 DEF Outcome, after

\* So it is when there is an object.
LEMMA AddForest ==
  ASSUME NEW m, NEW holders, Forest(m, holders, {}), NEW a, NEW x,
         MayTake(m, holders, a, x), NEW s \in Texts \cup {LITERAL},
         NEW w, w = AddItemToObject(m, a, s, x)
  PROVE  Outcome(m, {}, w, holders \ {x}, {})
<1>1. a # NULL
  BY AddressAssumption DEF MayTake, InUse
<1>2. MayJoin(m, holders, a, x) /\ Remaining(holders, a, x) = holders \ {x}
  BY <1>1 DEF MayJoin, Remaining
<1>3. Outcome(m, {}, w, Remaining(holders, a, x), {})
  BY <1>2, JoinForest
<1> QED BY <1>2, <1>3

\* Memory that a failed call has left: nothing holds but that it is memory.
Ruined(m, w) ==
  /\ w \in Memory /\ w.fault /\ (m.starved => w.starved) /\ Clean(w)

\* Adding NULL to an object uses NULL.
LEMMA AddNull ==
  ASSUME NEW m \in Memory, Clean(m), NEW a, NEW s, NEW w, w = AddItemToObject(m, a, s, NULL)
  PROVE  Ruined(m, w)
<1> DEFINE c == Strdup(m, s)
           v == AddItemToObjectCS(c.mem, a, c.ptr, NULL)
<1>1. Duplicated(m, s, c)
  BY StrdupIsNew
<1>2. w = Set(v, NULL, "constName", FALSE)
  BY DEF AddItemToObject
<1>3. v = c.mem
  BY DEF AddItemToObjectCS
<1>4. ~Live(v, NULL)
  BY AddressAssumption DEF Live
<1> HIDE DEF v, c
<1>5. w = [v EXCEPT !.fault = TRUE]
  BY <1>2, <1>4 DEF Set, Fault
<1>6. v \in Memory /\ v.item = m.item /\ (m.starved => v.starved)
  BY <1>1, <1>3 DEF Duplicated
<1>7. w \in Memory /\ w.item = m.item /\ w.starved = v.starved /\ w.fault
  BY <1>5, <1>6 DEF Memory
<1> QED BY <1>6, <1>7 DEF Ruined, Clean

\* An element that is replaced under a new name.  A name that counts as constant
\* is not given back, and the new one with it is lost.
LEMMA ReplaceInObjectForest ==
  ASSUME NEW m, NEW holders, Forest(m, holders, {}), NEW a, NEW x,
         MayTake(m, holders, a, x), NEW c \in Children(m, a), NEW s \in Texts \cup {LITERAL},
         NEW w, w = ReplaceItemInObject(m, a, c, s, x)
  PROVE  /\ Forest(w, holders \ {x}, {}) /\ (m.starved => w.starved)
         /\ AllOwned(m, {}) /\ ~m.item[x].constName => AllOwned(w, {})
<1> DEFINE d == IF m.item[x].constName THEN m ELSE FreeText(m, m.item[x].name)
           r == Strdup(d, s)
           v == Set(r.mem, x, "name", r.ptr)
<1>0. m \in Memory /\ Links(m, holders)
  BY DEF Forest
<1>1. x \in InUse(m) /\ x \in Items /\ a \in InUse(m)
  BY <1>0 DEF Links, MayTake, InUse
<1>2. c # NULL
  BY <1>0, ChildIsNoHolder DEF MayTake
<1>3. w = ReplaceItemInArray(v, a, c, x)
  BY <1>2 DEF ReplaceItemInObject
<1>4. Dropped(m, d, x)
  BY <1>1, NameIsDropped
<1> HIDE DEF d
<1>5. Duplicated(d, s, r)
  BY <1>4, StrdupIsNew DEF Dropped
<1> HIDE DEF r
<1>6. /\ r.mem \in Memory /\ r.mem.item = m.item /\ r.mem.fault = m.fault
      /\ (m.starved => r.mem.starved) /\ InUse(r.mem) = InUse(m)
      /\ r.ptr \in Texts \cup {NULL, LITERAL} /\ r.ptr # LITERAL
      /\ r.mem.text = d.text \cup ({r.ptr} \ {NULL}) /\ ({r.ptr} \ {NULL}) \cap d.text = {}
  BY <1>4, <1>5, AddressAssumption DEF Dropped, Duplicated
<1> DEFINE n == [r.mem.item[x] EXCEPT !.name = r.ptr]
<1>7. Put(r.mem, v, x, n)
  BY <1>1, <1>6, SetName
<1>8. r.mem.item[x] \in Nodes /\ r.mem.item[x] = m.item[x]
  BY <1>1, <1>6 DEF Memory
<1>9. /\ n.live = m.item[x].live /\ n.reference = m.item[x].reference /\ n.next = m.item[x].next
      /\ n.prev = m.item[x].prev /\ n.child = m.item[x].child /\ n.value = m.item[x].value
      /\ n.name = r.ptr /\ n.constName = m.item[x].constName
  BY <1>8 DEF Nodes
<1> HIDE DEF n, v
<1>10. /\ Relabelled(m, v, x) /\ v.text = r.mem.text /\ (m.starved => v.starved)
       /\ v.item[x].name = r.ptr /\ v.item[x].constName = m.item[x].constName
  BY <1>6, <1>7, <1>9 DEF Relabelled, Put
<1> DEFINE old == {OwnedName(m.item[x])} \ {NULL}
           new == {OwnedName(v.item[x])} \ {NULL}
<1>11. d.text = m.text \ old
  BY <1>4 DEF Dropped
<1>12. /\ new \subseteq {r.ptr} \ {NULL}
       /\ ~m.item[x].constName => new = {r.ptr} \ {NULL}
  BY <1>10 DEF OwnedName
<1> HIDE DEF old, new
<1>13. /\ (m.text \ old) \cup new \subseteq v.text /\ new \cap (m.text \ old) \subseteq {}
       /\ ~m.item[x].constName => v.text = (m.text \ old) \cup new
       /\ {} \ new = {}
  BY <1>6, <1>10, <1>11, <1>12
<1>14. /\ Forest(v, holders, {} \ new) /\ InUse(v) = InUse(m)
       /\ AllOwned(m, {}) /\ v.text = (m.text \ old) \cup new => AllOwned(v, {} \ new)
  BY <1>1, <1>10, <1>13, RelabelledForest DEF old, new
<1>15. Forest(v, holders, {}) /\ (AllOwned(m, {}) /\ ~m.item[x].constName => AllOwned(v, {}))
  BY <1>13, <1>14
<1>16. MayTake(v, holders, a, x) /\ c \in Children(v, a)
  <2>1. \A q \in InUse(m) : /\ v.item[q].reference = m.item[q].reference
                            /\ v.item[q].next = m.item[q].next
                            /\ v.item[q].prev = m.item[q].prev
                            /\ v.item[q].child = m.item[q].child
    BY <1>10 DEF Relabelled, InUse
  <2>2. v \in Memory
    BY <1>10 DEF Relabelled
  <2>3. Behind(v, x) = Behind(m, x) /\ Children(v, a) = Children(m, a)
    BY <1>0, <1>1, <1>14, <2>1, <2>2, SameLinks
  <2> QED BY <1>1, <1>14, <2>1, <2>3 DEF MayTake
<1>17. Outcome(v, {}, w, holders \ {x}, {})
  BY <1>3, <1>15, <1>16, ReplaceForest
<1> QED BY <1>10, <1>15, <1>17 DEF Outcome

\* A new item may be given to any list.
LEMMA NewMayBeTaken ==
  ASSUME NEW m, NEW holders, NEW loose, Forest(m, holders, loose), NEW r, Made(m, r),
         r.ptr # NULL, NEW a \in InUse(m), ~m.item[a].reference
  PROVE  /\ Outcome(m, loose, r.mem, holders \cup {r.ptr}, loose)
         /\ MayTake(r.mem, holders \cup {r.ptr}, a, r.ptr)
         /\ r.ptr \notin holders /\ (holders \cup {r.ptr}) \ {r.ptr} = holders
<1>1. /\ Forest(r.mem, holders \cup ({r.ptr} \ {NULL}), loose)
      /\ (AllOwned(m, loose) => AllOwned(r.mem, loose))
      /\ InUse(r.mem) = InUse(m) \cup ({r.ptr} \ {NULL})
      /\ r.ptr \notin InUse(m) /\ Behind(r.mem, r.ptr) = {r.ptr}
  BY MadeForest
<1>2. {r.ptr} \ {NULL} = {r.ptr} /\ holders \subseteq InUse(m)
  BY DEF Forest, Links
<1>3. Forest(r.mem, holders \cup {r.ptr}, loose)
  BY <1>1, <1>2
<1>4. r.mem.item[a] = m.item[a] /\ (m.starved => r.mem.starved)
  BY <1>1 DEF Made, InUse
<1>5. Outcome(m, loose, r.mem, holders \cup {r.ptr}, loose)
  BY <1>1, <1>3, <1>4 DEF Outcome
<1>6. MayTake(r.mem, holders \cup {r.ptr}, a, r.ptr)
  BY <1>1, <1>4 DEF MayTake
<1>7. r.ptr \notin holders /\ (holders \cup {r.ptr}) \ {r.ptr} = holders
  BY <1>1, <1>2
<1> QED BY <1>5, <1>6, <1>7

\* Nothing becomes of a new item that could not be made.
LEMMA NotMade ==
  ASSUME NEW m, NEW holders, NEW loose, Forest(m, holders, loose), NEW r, Made(m, r),
         r.ptr = NULL
  PROVE  Outcome(m, loose, r.mem, holders, loose) /\ r.mem.starved
<1>1. /\ Forest(r.mem, holders \cup ({r.ptr} \ {NULL}), loose)
      /\ (AllOwned(m, loose) => AllOwned(r.mem, loose))
  BY MadeForest
<1>2. holders \cup ({r.ptr} \ {NULL}) = holders
  OBVIOUS
<1>3. Forest(r.mem, holders, loose)
  BY <1>1, <1>2
<1>4. r.mem.starved
  BY AddressAssumption DEF Made
<1> QED BY <1>1, <1>3, <1>4 DEF Outcome

-----------------------------------------------------------------------------
(* What a forest is to a client                                            *)

\* Every item in use is in the tree of a holder.
LEMMA AllIsBehind ==
  ASSUME NEW m \in Memory, NEW holders, Links(m, holders)
  PROVE  UNION {Behind(m, h) : h \in holders} = InUse(m)
<1> DEFINE S == UNION {Behind(m, h) : h \in holders}
<1>1. \A h \in holders : /\ h \in Behind(m, h) /\ Behind(m, h) \subseteq InUse(m)
                         /\ \A q \in Behind(m, h) : NextOwned(m.item[q]) \subseteq Behind(m, h)
  BY BehindIsApart
<1>2. S \in SUBSET InUse(m) /\ holders \subseteq S
  BY <1>1
<1>3. IsClosed(m, S)
  BY <1>1 DEF IsClosed
<1> QED BY <1>2, <1>3 DEF Links

\* No item is in two lists.
LEMMA ListsAreApart ==
  ASSUME NEW m \in Memory, NEW holders, Links(m, holders),
         NEW a \in InUse(m), ~m.item[a].reference, NEW b \in InUse(m), ~m.item[b].reference,
         a # b
  PROVE  Children(m, a) \cap Children(m, b) = {}
<1> SUFFICES ASSUME NEW c \in Children(m, a), c \in Children(m, b)
             PROVE  FALSE
  OBVIOUS
<1> DEFINE first == m.item[a].child
           S == Children(m, a) \ Children(m, b)
<1>1. first # NULL /\ m.item[b].child # NULL
  BY ListsBegin
<1>2. first \in InUse(m) /\ m.item[first].prev = NULL /\ a \in Items
  BY <1>1, LinkTypes
<1>3. /\ first \in Children(m, a) /\ Children(m, a) \subseteq InUse(m)
      /\ \A q \in Children(m, a) :
           m.item[q].next \in InUse(m) => m.item[q].next \in Children(m, a)
  BY <1>2, ChildrenAreLeast
<1>4. first # m.item[b].child
  BY <1>1 DEF Links
<1>5. first \notin Children(m, b)
  BY <1>2, <1>4, ListsBegin
<1>6. ASSUME NEW q \in S, m.item[q].next \in InUse(m)
      PROVE  m.item[q].next \in S
  <2> DEFINE n == m.item[q].next
  <2>1. q \in InUse(m) /\ n # NULL
    BY <1>3, <1>6, LinkTypes
  <2>2. m.item[n].prev = q /\ q # NULL
    BY <2>1, LinkTypes
  <2>3. n \notin Children(m, b)
    BY <2>2, ListsBegin
  <2> QED BY <1>3, <1>6, <2>3
<1>7. S \in SUBSET InUse(m) /\ first \in S
  BY <1>3, <1>5
<1>8. Children(m, a) \subseteq S
  <2>1. \A T \in SUBSET InUse(m) :
          /\ m.item[a].child \in T
          /\ \A q \in T : m.item[q].next \in InUse(m) => m.item[q].next \in T
          => Children(m, a) \subseteq T
    BY <1>2, ChildrenAreLeast
  <2> HIDE DEF S
  <2> QED BY <1>6, <1>7, <2>1
<1> QED BY <1>8

\* The elements of an item, as far as it owns them.
OwnChildren(m, q) == IF m.item[q].reference THEN {} ELSE Children(m, q)

\* Every item is a holder or in one list, and never both.
LEMMA OneList ==
  ASSUME NEW m \in Memory, NEW holders, Links(m, holders), NEW p \in InUse(m)
  PROVE  /\ p \in holders => \A q \in InUse(m) : p \notin OwnChildren(m, q)
         /\ p \notin holders =>
              \E q \in InUse(m) : \A r \in InUse(m) : p \in OwnChildren(m, r) <=> r = q
<1> DEFINE U == InUse(m)
           S == {r \in U : r \in holders \/ \E q \in U : r \in OwnChildren(m, q)}
<1>1. \A q \in U : \A r \in OwnChildren(m, q) : r \in U /\ r \notin holders /\ ~m.item[q].reference
  <2> SUFFICES ASSUME NEW q \in U, NEW r \in OwnChildren(m, q)
               PROVE  r \in U /\ r \notin holders /\ ~m.item[q].reference
    OBVIOUS
  <2>1. ~m.item[q].reference /\ r \in Children(m, q)
    BY DEF OwnChildren
  <2> QED BY <2>1, ChildIsNoHolder
<1>2. IsClosed(m, S)
  <2> SUFFICES ASSUME NEW r \in S, NEW n \in NextOwned(m.item[r])
               PROVE  n \in S
    BY DEF IsClosed
  <2>1. /\ n \in U /\ n # NULL /\ r \in Items
        /\ n = m.item[r].next \/ (~m.item[r].reference /\ n = m.item[r].child)
    <3>1. NextOwned(m.item[r]) \subseteq U
      BY DEF Links
    <3>2. \A q \in U :
            /\ q \in Items
            /\ \A d : d \in NextOwned(m.item[q]) <=>
                 d # NULL /\ (d = m.item[q].next \/ (~m.item[q].reference /\ d = m.item[q].child))
      BY LinkTypes
    <3> QED BY <3>1, <3>2
  <2>2. CASE ~m.item[r].reference /\ n = m.item[r].child
    <3>1. n \in Children(m, r)
      BY <2>1, <2>2, ChildrenAreLeast
    <3>2. n \in OwnChildren(m, r)
      BY <2>2, <3>1 DEF OwnChildren
    <3> QED BY <2>1, <3>2
  <2>3. CASE n = m.item[r].next
    <3>1. r \notin holders
      BY <2>1, <2>3 DEF Links
    <3>2. PICK q \in U : r \in OwnChildren(m, q)
      BY <3>1
    <3>3. ~m.item[q].reference /\ r \in Children(m, q)
      BY <3>2 DEF OwnChildren
    <3>4. n \in Children(m, q)
      BY <2>1, <2>3, <3>3, ListsBegin
    <3>5. n \in OwnChildren(m, q)
      BY <3>3, <3>4 DEF OwnChildren
    <3> QED BY <2>1, <3>5
  <2> QED BY <2>1, <2>2, <2>3
<1>3. holders \subseteq U
  BY DEF Links
<1>4. S = U
  <2>1. holders \subseteq S /\ S \in SUBSET U
    BY <1>3
  <2> QED BY <1>2, <2>1 DEF Links
<1>5. ASSUME NEW q \in U, NEW r \in U, p \in OwnChildren(m, q), p \in OwnChildren(m, r)
      PROVE  q = r
  <2>1. /\ ~m.item[q].reference /\ p \in Children(m, q)
        /\ ~m.item[r].reference /\ p \in Children(m, r)
    BY <1>5 DEF OwnChildren
  <2> QED BY <2>1, ListsAreApart
<1>6. p \in holders => \A q \in U : p \notin OwnChildren(m, q)
  BY <1>1
<1>7. ASSUME p \notin holders
      PROVE  \E q \in U : \A r \in U : p \in OwnChildren(m, r) <=> r = q
  <2>1. PICK q \in U : p \in OwnChildren(m, q)
    BY <1>4, <1>7
  <2>2. \A r \in U : p \in OwnChildren(m, r) <=> r = q
    BY <1>5, <2>1
  <2> QED BY <2>2
<1> QED BY <1>6, <1>7

\* Two forests of which one holds the other, and the same holders, are the same.
LEMMA NothingIsNew ==
  ASSUME NEW b, NEW m, NEW holders, Forest(b, holders, {}), Forest(m, holders, {}),
         \A p \in InUse(b) : m.item[p] = b.item[p]
  PROVE  InUse(m) = InUse(b) /\ m.item = b.item
<1>1. b \in Memory /\ m \in Memory /\ Links(b, holders) /\ Links(m, holders)
  BY DEF Forest
<1>2. InUse(b) \subseteq InUse(m)
  BY DEF InUse, Live
<1>3. \A p \in InUse(b) : NextOwned(m.item[p]) \subseteq InUse(b)
  BY <1>1 DEF Links
<1>4. IsClosed(m, InUse(b)) /\ holders \subseteq InUse(b)
  BY <1>1, <1>3 DEF IsClosed, Links
<1>5. InUse(m) = InUse(b)
  BY <1>1, <1>2, <1>4 DEF Links
<1>6. \A p \in Items : m.item[p] = b.item[p]
  <2> SUFFICES ASSUME NEW p \in Items
               PROVE  m.item[p] = b.item[p]
    OBVIOUS
  <2>1. CASE p \in InUse(b)
    BY <2>1
  <2>2. CASE p \notin InUse(b)
    <3>1. ~m.item[p].live /\ ~b.item[p].live
      BY <1>5, <2>2 DEF InUse, Live
    <3>2. m.item[p] = Node(FALSE) /\ b.item[p] = Node(FALSE)
      BY <3>1 DEF Forest, Clean
    <3> QED BY <3>2
  <2> QED BY <2>1, <2>2
<1>7. m.item \in [Items -> Nodes] /\ b.item \in [Items -> Nodes]
  BY <1>1 DEF Memory
<1> QED BY <1>5, <1>6, <1>7

-----------------------------------------------------------------------------
(* What a call adds                                                        *)

\* What a call has made so far is new, and what was there before is as it was.
Grown(b, m) ==
  /\ \A p \in InUse(b) : m.item[p] = b.item[p]
  /\ b.text \subseteq m.text
  /\ \A p \in InUse(m) \ InUse(b) : OwnedTexts(m.item[p]) \cap b.text = {}
  /\ \A t \in m.text \ b.text : \E p \in InUse(m) \ InUse(b) : t \in OwnedTexts(m.item[p])

\* What was in use still is.
LEMMA GrownInUse ==
  ASSUME NEW b, NEW m, Grown(b, m)
  PROVE  InUse(b) \subseteq InUse(m)
BY DEF Grown, InUse, Live

\* At the start of a call nothing has been added.
LEMMA GrownAtFirst ==
  ASSUME NEW b, NEW m, m.item = b.item, m.text = b.text
  PROVE  Grown(b, m)
<1>1. InUse(m) = InUse(b)
  BY DEF InUse, Live
<1> QED BY <1>1 DEF Grown

\* The budget makes no difference.
LEMMA GrownSame ==
  ASSUME NEW b, NEW m, Grown(b, m), NEW w, w.item = m.item, w.text = m.text
  PROVE  Grown(b, w)
<1>1. InUse(w) = InUse(m)
  BY DEF InUse, Live
<1> QED BY <1>1 DEF Grown

\* A new item adds to what the call has made.
LEMMA GrownMade ==
  ASSUME NEW b, NEW m, Grown(b, m), NEW r, Made(m, r)
  PROVE  Grown(b, r.mem)
<1>1. CASE r.ptr = NULL
  <2>1. r.mem.item = m.item /\ r.mem.text = m.text
    BY <1>1, AddressAssumption DEF Made
  <2> QED BY <2>1, GrownSame
<1>2. CASE r.ptr # NULL
  <2> DEFINE w == r.mem
             x == r.ptr
  <2>1. /\ x \in Items \ InUse(m)
        /\ \A q \in Items \ {x} : w.item[q] = m.item[q]
        /\ w.item[x].live /\ OwnedTexts(w.item[x]) \cap m.text = {}
        /\ w.text = m.text \cup OwnedTexts(w.item[x])
    BY <1>2 DEF Made
  <2>2. InUse(w) = InUse(m) \cup {x}
    BY <2>1 DEF InUse, Live
  <2>3. InUse(b) \subseteq InUse(m) /\ InUse(m) \subseteq Items
    BY GrownInUse DEF InUse
  <2> HIDE DEF w, x
  <2>4. \A q \in InUse(m) : w.item[q] = m.item[q]
    BY <2>1, <2>3
  <2>5. \A p \in InUse(b) : w.item[p] = b.item[p]
    BY <2>3, <2>4 DEF Grown
  <2>6. b.text \subseteq w.text
    BY <2>1 DEF Grown
  <2>7. \A p \in InUse(w) \ InUse(b) : OwnedTexts(w.item[p]) \cap b.text = {}
    BY <2>1, <2>2, <2>4 DEF Grown
  <2>8. \A t \in w.text \ b.text : \E p \in InUse(w) \ InUse(b) : t \in OwnedTexts(w.item[p])
    BY <2>1, <2>2, <2>3, <2>4 DEF Grown
  <2>9. Grown(b, w)
    BY <2>5, <2>6, <2>7, <2>8 DEF Grown
  <2> QED BY <2>9 DEF w
<1> QED BY <1>1, <1>2

\* Nothing that a call makes owns an item that was there before.
LEMMA NewIsApart ==
  ASSUME NEW b, NEW m, NEW old, NEW holders, NEW loose, Forest(b, old, {}),
         Forest(m, holders, loose), old \subseteq holders, Grown(b, m),
         NEW x \in holders, x \notin InUse(b)
  PROVE  Behind(m, x) \cap InUse(b) = {}
<1>1. b \in Memory /\ m \in Memory /\ Links(b, old) /\ Links(m, holders)
  BY DEF Forest
<1>2. InUse(b) \subseteq InUse(m)
  BY GrownInUse
<1> DEFINE S == Behind(m, x) \ InUse(b)
<1>3. x \in Behind(m, x) /\ Behind(m, x) \subseteq InUse(m)
      /\ \A q \in Behind(m, x) : NextOwned(m.item[q]) \subseteq Behind(m, x)
  BY <1>1, BehindIsApart
<1>4. ASSUME NEW q \in InUse(m) \ InUse(b), NEW p \in NextOwned(m.item[q])
      PROVE  p \notin InUse(b)
  <2> SUFFICES ASSUME p \in InUse(b)
               PROVE  FALSE
    OBVIOUS
  <2>1. CASE p \in old
    BY <1>1, <1>4, <2>1, OneOwner
  <2>2. CASE p \notin old
    <3>1. PICK d \in InUse(b) : p \in NextOwned(b.item[d])
      BY <1>1, <2>2, OneOwner
    <3>2. p \in NextOwned(m.item[d]) /\ d \in InUse(m)
      BY <1>2, <3>1 DEF Grown
    <3>3. q = d
      BY <1>1, <1>4, <3>2, OneOwner
    <3> QED BY <1>4, <3>1, <3>3
  <2> QED BY <2>1, <2>2
<1>5. S \in SUBSET InUse(m) /\ x \in S
  BY <1>3
<1>6. IsClosed(m, S)
  BY <1>3, <1>4 DEF IsClosed
<1>7. Behind(m, x) \subseteq S
  <2>1. x \in InUse(m)
    BY <1>3
  <2> QED BY <1>1, <1>5, <1>6, <2>1, BehindIsLeast
<1> QED BY <1>7

\* Links among what the call has made change nothing else.
LEMMA GrownRelinked ==
  ASSUME NEW b, NEW m \in Memory, Grown(b, m), NEW w, NEW T, Relinked(m, w, T),
         T \cap InUse(b) = {}
  PROVE  Grown(b, w)
<1>1. InUse(w) = InUse(m)
  BY DEF Relinked, InUse, Live
<1>2. InUse(b) \subseteq InUse(m) /\ InUse(m) \subseteq Items
  BY GrownInUse DEF InUse
<1>3. \A p \in InUse(b) : w.item[p] = b.item[p]
  BY <1>2 DEF Relinked, Grown
<1>4. \A p \in InUse(m) : OwnedTexts(w.item[p]) = OwnedTexts(m.item[p])
  BY <1>2 DEF Relinked, OwnedTexts, OwnedValue, OwnedName
<1>5. w.text = m.text
  BY DEF Relinked
<1> QED BY <1>1, <1>3, <1>4, <1>5 DEF Grown

\* What a call gives back it has made.
LEMMA GrownPruned ==
  ASSUME NEW b, NEW m, Grown(b, m), NEW w, NEW T \in SUBSET InUse(m), Pruned(m, w, T),
         T \cap InUse(b) = {}
  PROVE  Grown(b, w)
<1>1. InUse(b) \subseteq InUse(m) /\ InUse(m) \subseteq Items
  BY GrownInUse DEF InUse
<1>2. /\ InUse(w) = InUse(m) \ T /\ \A q \in InUse(w) : w.item[q] = m.item[q]
      /\ w.text = m.text \ UNION {OwnedTexts(m.item[p]) : p \in T}
  BY <1>1 DEF Pruned
<1>3. \A p \in InUse(b) : w.item[p] = b.item[p]
  BY <1>1, <1>2 DEF Grown
<1>4. b.text \subseteq w.text
  <2>1. \A p \in T : OwnedTexts(m.item[p]) \cap b.text = {}
    BY DEF Grown
  <2> QED BY <1>2, <2>1 DEF Grown
<1>5. \A p \in InUse(w) \ InUse(b) : OwnedTexts(w.item[p]) \cap b.text = {}
  BY <1>2 DEF Grown
<1>6. ASSUME NEW t \in w.text \ b.text
      PROVE  \E p \in InUse(w) \ InUse(b) : t \in OwnedTexts(w.item[p])
  <2>1. t \in m.text \ b.text /\ \A p \in T : t \notin OwnedTexts(m.item[p])
    BY <1>2
  <2>2. PICK p \in InUse(m) \ InUse(b) : t \in OwnedTexts(m.item[p])
    BY <2>1 DEF Grown
  <2> QED BY <1>2, <2>1, <2>2
<1> QED BY <1>3, <1>4, <1>5, <1>6 DEF Grown

\* The call gives back one of the trees that it has made.
LEMMA GrownDelete ==
  ASSUME NEW b, NEW m, NEW old, NEW holders, Forest(b, old, {}), Forest(m, holders, {}),
         old \subseteq holders, Grown(b, m), NEW x \in holders, x \notin InUse(b),
         NEW w, w = Delete(m, x)
  PROVE  Grown(b, w) /\ Outcome(m, {}, w, holders \ {x}, {}) /\ ~w.fault
<1>1. /\ Pruned(m, w, Behind(m, x)) /\ Forest(w, holders \ {x}, {})
      /\ AllOwned(m, {}) => AllOwned(w, {})
  BY DeletePrunes
<1>2. Behind(m, x) \cap InUse(b) = {}
  BY NewIsApart
<1>3. Behind(m, x) \in SUBSET InUse(m)
  BY DEF Behind
<1>4. Grown(b, w)
  BY <1>1, <1>2, <1>3, GrownPruned
<1>5. w.starved = m.starved
  BY <1>1 DEF Pruned
<1> QED BY <1>1, <1>4, <1>5 DEF Outcome, Forest

\* A list that is being made: its last item is known.
Appending(m, f) ==
  /\ ~m.item[f.new].reference
  /\ f.last = NULL <=> m.item[f.new].child = NULL
  /\ f.last # NULL => f.last \in Children(m, f.new) /\ m.item[f.last].next = NULL

\* What the links are once the loop has taken x.
Taken(m, w, f, x) ==
  \A q \in Items :
    /\ w.item[q].next = IF q = f.last THEN x ELSE m.item[q].next
    /\ w.item[q].child = IF q = f.new /\ f.last = NULL THEN x ELSE m.item[q].child

\* A list loses no element as long as every link within it stays.
LEMMA ListStays ==
  ASSUME NEW m \in Memory, NEW w \in Memory, NEW a \in Items, InUse(m) \subseteq InUse(w),
         m.item[a].child \in InUse(m), w.item[a].child = m.item[a].child,
         \A c \in Children(m, a) : m.item[c].next # NULL => w.item[c].next = m.item[c].next
  PROVE  Children(m, a) \subseteq Children(w, a)
<1> DEFINE S == Children(w, a) \cap Children(m, a)
<1>1. /\ w.item[a].child \in Children(w, a)
      /\ \A c \in Children(w, a) :
           w.item[c].next \in InUse(w) => w.item[c].next \in Children(w, a)
  BY ChildrenAreLeast
<1>2. /\ m.item[a].child \in Children(m, a) /\ Children(m, a) \subseteq InUse(m)
      /\ \A c \in Children(m, a) :
           m.item[c].next \in InUse(m) => m.item[c].next \in Children(m, a)
      /\ \A T \in SUBSET InUse(m) :
           /\ m.item[a].child \in T
           /\ \A q \in T : m.item[q].next \in InUse(m) => m.item[q].next \in T
           => Children(m, a) \subseteq T
  BY ChildrenAreLeast
<1>3. NULL \notin InUse(m)
  BY AddressAssumption DEF InUse
<1>4. S \in SUBSET InUse(m) /\ m.item[a].child \in S
  BY <1>1, <1>2
<1>5. \A q \in S : m.item[q].next \in InUse(m) => m.item[q].next \in S
  BY <1>1, <1>2, <1>3
<1> HIDE DEF S
<1>6. Children(m, a) \subseteq S
  BY <1>2, <1>4, <1>5
<1> QED BY <1>6 DEF S

\* Whatever is linked anew is in use or stays free.
LEMMA InUseIsRelinked ==
  ASSUME NEW m, NEW w, NEW T, Relinked(m, w, T), T \subseteq InUse(m)
  PROVE  Relinked(m, w, InUse(m))
BY DEF Relinked

\* The loop takes the new item behind the last one.
LEMMA LinkedTakes ==
  ASSUME NEW m, NEW holders, NEW loose, Forest(m, holders, loose), NEW f,
         f.new \in holders, Appending(m, f), NEW x \in holders, x # f.new,
         NEW w, w = Linked(m, f, x)
  PROVE  /\ Outcome(m, loose, w, holders \ {x}, loose)
         /\ \E T : /\ Relinked(m, w, T) /\ x \in T
                   /\ T \subseteq {f.new, f.last, x} /\ (f.last # NULL => f.new \notin T) /\ NULL \notin T
         /\ Taken(m, w, f, x)
         /\ x \in Children(w, f.new) /\ w.item[x].next = NULL
<1> DEFINE a == f.new
           p == f.last
<1>0. m \in Memory /\ Links(m, holders)
  BY DEF Forest
<1>1. /\ a \in InUse(m) /\ x \in InUse(m) /\ a \in Items /\ x \in Items /\ x # NULL /\ a # NULL
      /\ ~m.item[a].reference
      /\ m.item[x].next = NULL /\ m.item[x].prev = NULL
      /\ \A q \in Items : q # NULL
  BY <1>0, AddressAssumption DEF Links, InUse, Appending
<1>2. a \notin Behind(m, x)
  BY <1>0, BehindIsApart
<1>3. p # NULL => p \in Children(m, a) /\ p \in InUse(m) /\ p \in Items /\ m.item[p].next = NULL
  <2> SUFFICES ASSUME p # NULL
               PROVE  p \in Children(m, a) /\ p \in InUse(m) /\ p \in Items /\ m.item[p].next = NULL
    OBVIOUS
  <2>1. p \in Children(m, a) /\ m.item[p].next = NULL
    BY DEF Appending
  <2>2. p \in InUse(m)
    BY <1>0, <1>1, <2>1, ListsBegin
  <2> QED BY <2>1, <2>2 DEF InUse
<1>4. IsPlace(m, a, p, NULL)
  BY <1>1, <1>3 DEF IsPlace, Appending
<1>5. /\ \E T : Relinked(m, w, T) /\ x \in T /\ T \subseteq {a, p, x} /\ (p # NULL => a \notin T) /\ NULL \notin T
      /\ InUse(w) = InUse(m) /\ w \in Memory
      /\ \A q \in Items :
           /\ w.item[q].next = IF q = p THEN x ELSE m.item[q].next
           /\ w.item[q].prev = IF q = x THEN p ELSE m.item[q].prev
           /\ w.item[q].child = IF q = a /\ p = NULL THEN x ELSE m.item[q].child
      /\ \A q \in Items : w.item[q].reference = m.item[q].reference
  <2>1. CASE p = NULL
    <3>1. w = Set(m, a, "child", x)
      BY <2>1 DEF Linked
    <3>2. x \in Address
      BY <1>1 DEF Address
    <3>3. Relinked(m, w, {a}) /\ InUse(w) = InUse(m) /\ w \in Memory /\ ChildSet(m, w, a, x)
      BY <1>0, <1>1, <3>1, <3>2, SetChild
    <3>4. Relinked(m, w, {a, x})
      BY <3>3 DEF Relinked
    <3>5. /\ x \in {a, x} /\ {a, x} \subseteq {a, p, x} /\ NULL \notin {a, x}
      BY <1>1
    <3>6. \E T : Relinked(m, w, T) /\ x \in T /\ T \subseteq {a, p, x} /\ (p # NULL => a \notin T) /\ NULL \notin T
      BY <2>1, <3>4, <3>5
    <3>7. \A q \in Items :
           /\ w.item[q].next = IF q = p THEN x ELSE m.item[q].next
           /\ w.item[q].prev = IF q = x THEN p ELSE m.item[q].prev
           /\ w.item[q].child = IF q = a /\ p = NULL THEN x ELSE m.item[q].child
      BY <1>1, <2>1, <3>3 DEF ChildSet
    <3>8. \A q \in Items : w.item[q].reference = m.item[q].reference
      BY <3>3 DEF Relinked
    <3> QED BY <3>3, <3>6, <3>7, <3>8
  <2>2. CASE p # NULL
    <3>1. w = Suffix(m, p, x)
      BY <2>2 DEF Linked
    <3>2. Relinked(m, w, {p, x}) /\ InUse(w) = InUse(m) /\ Joined(m, w, p, x)
      BY <1>0, <1>1, <1>3, <2>2, <3>1, SuffixLinks
    <3>3. a # p
      <4>1. m.item[p].prev # NULL \/ p = m.item[a].child
        BY <1>0, <1>1, <1>3, <2>2, ListsBegin
      <4>2. p \notin holders
        BY <1>0, <1>1, <1>3, <2>2, ChildIsNoHolder
      <4> QED BY <4>2
    <3>4. a \notin {p, x} /\ x \in {p, x} /\ {p, x} \subseteq {a, p, x} /\ NULL \notin {p, x}
      BY <1>1, <2>2, <3>3
    <3>5. \E T : Relinked(m, w, T) /\ x \in T /\ T \subseteq {a, p, x} /\ (p # NULL => a \notin T) /\ NULL \notin T
      BY <3>2, <3>4
    <3>6. w \in Memory /\ \A q \in Items : w.item[q].reference = m.item[q].reference
      BY <3>2 DEF Relinked
    <3> QED BY <2>2, <3>2, <3>5, <3>6 DEF Joined
  <2> QED BY <2>1, <2>2
<1>6. SpliceIn(m, w, a, p, x, NULL)
  BY <1>1, <1>5 DEF SpliceIn
<1>7. Links(w, holders \ {x})
  BY <1>0, <1>1, <1>2, <1>4, <1>5, <1>6, InsertKeepsLinks
<1>8. Outcome(m, loose, w, holders \ {x}, loose)
  <2>1. PICK T : Relinked(m, w, T) /\ T \subseteq {a, p, x} /\ NULL \notin T
    BY <1>5
  <2>2. Relinked(m, w, InUse(m))
    BY <1>1, <1>3, <2>1, InUseIsRelinked
  <2> QED BY <1>7, <2>2, RelinkedForest DEF Outcome
<1>9. Taken(m, w, f, x)
  BY <1>5 DEF Taken
<1>10. w.item[x].next = NULL
  <2>1. p # x
    <3>1. CASE p = NULL
      BY <1>1, <3>1
    <3>2. CASE p # NULL
      BY <1>0, <1>1, <1>3, <3>2, ChildIsNoHolder
    <3> QED BY <3>1, <3>2
  <2> QED BY <1>1, <1>5, <2>1
<1>11. x \in Children(w, a)
  <2>1. CASE p = NULL
    BY <1>1, <1>5, <2>1, ChildrenAreLeast
  <2>2. CASE p # NULL
    <3>1. m.item[a].child \in InUse(m) /\ w.item[a].child = m.item[a].child
      <4>1. m.item[a].child # NULL
        BY <2>2 DEF Appending
      <4>2. m.item[a].child \in InUse(m)
        BY <1>0, <1>1, <4>1, LinkTypes
      <4> QED BY <1>1, <1>5, <2>2, <4>2
    <3>2. \A c \in Children(m, a) : m.item[c].next # NULL => w.item[c].next = m.item[c].next
      <4>1. Children(m, a) \subseteq Items
        BY DEF Children, InUse
      <4> QED BY <1>3, <1>5, <2>2, <4>1
    <3>3. Children(m, a) \subseteq Children(w, a)
      BY <1>0, <1>1, <1>5, <3>1, <3>2, ListStays
    <3>4. w.item[p].next = x /\ p \in Children(w, a)
      BY <1>3, <1>5, <2>2, <3>3
    <3> QED BY <1>1, <1>5, <3>1, <3>4, ChildrenAreLeast
  <2> QED BY <2>1, <2>2
<1> QED BY <1>5, <1>8, <1>9, <1>10, <1>11

\* Nothing becomes of the lists of the other activations.
LEMMA OthersAppend ==
  ASSUME NEW m, NEW holders, NEW loose, Forest(m, holders, loose), NEW f,
         f.new \in holders, Appending(m, f), NEW x, NEW w \in Memory, Taken(m, w, f, x),
         NEW T, Relinked(m, w, T), NEW g, g.new \in holders, g.new # f.new, Appending(m, g)
  PROVE  Appending(w, g)
<1> DEFINE a == f.new
           b == g.new
<1>0. m \in Memory /\ Links(m, holders) /\ a \in InUse(m) /\ b \in InUse(m) /\ b \in Items
  BY DEF Forest, Links, InUse
<1>1. ~m.item[a].reference /\ ~m.item[b].reference
  BY DEF Appending
<1>2. w.item[b].child = m.item[b].child /\ ~w.item[b].reference
  BY <1>0, <1>1 DEF Taken, Relinked
<1>3. InUse(w) = InUse(m)
  BY DEF Relinked, InUse, Live
<1>4. CASE g.last = NULL
  BY <1>2, <1>4 DEF Appending
<1>5. CASE g.last # NULL
  <2>1. g.last \in Children(m, b) /\ m.item[g.last].next = NULL /\ m.item[b].child # NULL
    BY <1>5 DEF Appending
  <2>2. f.last \notin Children(m, b)
    <3>1. CASE f.last = NULL
      BY <3>1, AddressAssumption DEF Children, InUse
    <3>2. CASE f.last # NULL
      BY <1>0, <1>1, <3>2, ListsAreApart DEF Appending
    <3> QED BY <3>1, <3>2
  <2>3. Children(m, b) \subseteq Items
    BY DEF Children, InUse
  <2>4. \A c \in Children(m, b) : w.item[c].next = m.item[c].next
    BY <2>2, <2>3 DEF Taken
  <2>5. m.item[b].child \in InUse(m)
    BY <1>0, <1>1, <2>1, LinkTypes
  <2>6. Children(m, b) \subseteq Children(w, b)
    BY <1>0, <1>2, <1>3, <2>4, <2>5, ListStays
  <2> QED BY <1>2, <1>5, <2>1, <2>4, <2>6 DEF Appending
<1> QED BY <1>4, <1>5

-----------------------------------------------------------------------------
(* Activations                                                             *)

Frames == [new : Items, last : Address, child : Address]

\* A function has been called.
LEMMA Entering ==
  ASSUME NEW fs \in Seq(Frames), NEW f \in Frames, NEW gs, gs = <<f>> \o fs
  PROVE  /\ gs \in Seq(Frames) /\ DOMAIN gs = 1 .. Len(fs) + 1 /\ gs # <<>>
         /\ gs[1] = f
         /\ \A k \in DOMAIN gs : k # 1 => k - 1 \in DOMAIN fs /\ gs[k] = fs[k - 1]
         /\ \A k \in DOMAIN fs : k + 1 \in DOMAIN gs /\ gs[k + 1] = fs[k]
<1>1. gs \in Seq(Frames) /\ Len(gs) = Len(fs) + 1
  OBVIOUS
<1>2. DOMAIN gs = 1 .. Len(fs) + 1 /\ DOMAIN fs = 1 .. Len(fs) /\ Len(fs) \in Nat
  BY <1>1
<1>3. gs[1] = f
  OBVIOUS
<1>4. \A k \in DOMAIN gs : k # 1 => k - 1 \in DOMAIN fs /\ gs[k] = fs[k - 1]
  BY <1>2
<1>5. \A k \in DOMAIN fs : k + 1 \in DOMAIN gs /\ gs[k + 1] = fs[k]
  BY <1>2, <1>4
<1>6. gs # <<>>
  BY <1>1, <1>2
<1> QED BY <1>1, <1>2, <1>3, <1>4, <1>5, <1>6

\* It has returned to its caller.
LEMMA Leaving ==
  ASSUME NEW fs \in Seq(Frames), fs # <<>>, NEW gs, gs = Tail(fs)
  PROVE  /\ gs \in Seq(Frames) /\ DOMAIN gs = 1 .. Len(fs) - 1 /\ Len(gs) = Len(fs) - 1
         /\ \A k \in DOMAIN gs : k + 1 \in DOMAIN fs /\ gs[k] = fs[k + 1]
<1>1. gs \in Seq(Frames) /\ Len(gs) = Len(fs) - 1
  OBVIOUS
<1>2. DOMAIN gs = 1 .. Len(fs) - 1 /\ DOMAIN fs = 1 .. Len(fs) /\ Len(fs) \in Nat
  BY <1>1
<1>3. \A k \in DOMAIN gs : k + 1 \in DOMAIN fs /\ gs[k] = fs[k + 1]
  BY <1>2
<1> QED BY <1>1, <1>2, <1>3

\* Of two activations one has become f.
ReturnsTo(fs, f, gs) ==
  /\ gs \in Seq(Frames) /\ DOMAIN gs = 1 .. Len(fs) - 1 /\ gs # <<>>
  /\ gs[1] = f /\ 1 \in DOMAIN fs /\ 2 \in DOMAIN fs
  /\ \A k \in DOMAIN gs : k # 1 => k + 1 \in DOMAIN fs /\ gs[k] = fs[k + 1]
  /\ \A k \in DOMAIN gs : k + 1 \in DOMAIN fs

\* Its caller goes on.
LEMMA Returning ==
  ASSUME NEW fs \in Seq(Frames), Len(fs) > 1, NEW f \in Frames,
         NEW gs, gs = <<f>> \o Tail(Tail(fs))
  PROVE  ReturnsTo(fs, f, gs)
<1> DEFINE t == Tail(fs)
           u == Tail(t)
<1>0. Len(fs) \in Nat /\ DOMAIN fs = 1 .. Len(fs) /\ fs # <<>>
  OBVIOUS
<1>1. /\ t \in Seq(Frames) /\ DOMAIN t = 1 .. Len(fs) - 1 /\ Len(t) = Len(fs) - 1
      /\ \A k \in DOMAIN t : k + 1 \in DOMAIN fs /\ t[k] = fs[k + 1]
  BY <1>0, Leaving
<1>2. /\ u \in Seq(Frames) /\ DOMAIN u = 1 .. Len(t) - 1 /\ Len(u) = Len(t) - 1
      /\ \A k \in DOMAIN u : k + 1 \in DOMAIN t /\ u[k] = t[k + 1]
  <2>0. \A n \in Nat : n > 1 => n - 1 # 0
    OBVIOUS
  <2>1. Len(t) # 0
    BY <1>0, <1>1, <2>0
  <2>2. t # <<>>
    <3>1. Len(<<>>) = 0
      OBVIOUS
    <3> HIDE DEF t
    <3> QED BY <2>1, <3>1
  <2> QED BY <1>1, <2>2, Leaving
<1>3. gs = <<f>> \o u
  BY DEF t, u
<1> HIDE DEF t, u
<1>4. /\ gs \in Seq(Frames) /\ DOMAIN gs = 1 .. Len(u) + 1 /\ gs # <<>> /\ gs[1] = f
      /\ \A k \in DOMAIN gs : k # 1 => k - 1 \in DOMAIN u /\ gs[k] = u[k - 1]
  <2>1. u \in Seq(Frames) /\ f \in Frames
    BY <1>2
  <2> QED BY ONLY <1>3, <2>1, Entering
<1>5. Len(u) = Len(fs) - 2 /\ Len(t) = Len(fs) - 1
  BY <1>0, <1>1, <1>2
<1>6. DOMAIN gs = 1 .. Len(fs) - 1 /\ DOMAIN u = 1 .. Len(fs) - 2
  BY <1>0, <1>2, <1>4, <1>5
<1>7. 1 \in DOMAIN fs /\ 2 \in DOMAIN fs /\ \A k \in DOMAIN gs : k + 1 \in DOMAIN fs
  <2>1. \A n \in Nat : n > 1 => /\ 1 \in 1 .. n /\ 2 \in 1 .. n
                                /\ \A k \in 1 .. n - 1 : k + 1 \in 1 .. n
    OBVIOUS
  <2> QED BY <1>0, <1>6, <2>1
<1>8. ASSUME NEW k \in DOMAIN gs, k # 1
      PROVE  gs[k] = fs[k + 1]
  <2>1. k \in Nat /\ k - 1 \in DOMAIN u /\ gs[k] = u[k - 1]
    <3>1. k \in 1 .. Len(u) + 1 /\ Len(u) \in Nat
      BY <1>2, <1>4
    <3>2. k \in Nat
      BY <3>1
    <3>3. k - 1 \in DOMAIN u /\ gs[k] = u[k - 1]
      BY ONLY <1>4, <1>8
    <3> QED BY <3>2, <3>3
  <2>2. k - 1 + 1 = k
    BY <2>1
  <2>3. k \in DOMAIN t /\ u[k - 1] = t[k]
    BY <1>2, <2>1, <2>2
  <2> QED BY <1>1, <2>1, <2>3
<1> QED BY <1>0, <1>4, <1>6, <1>7, <1>8 DEF ReturnsTo

-----------------------------------------------------------------------------
(* Copies                                                                  *)

\* The copy leads to the copy of that to which the original leads.
Follows(o, copy, original) ==
  IF original = NULL THEN copy = NULL ELSE copy # NULL /\ o[copy] = original

\* An item and its copy.
IsCopy(o, b, m, j) ==
  /\ o[j] \in InUse(b) /\ ~m.item[j].reference
  /\ m.item[j].value # NULL <=> b.item[o[j]].value # NULL
  /\ m.item[j].name # NULL <=> b.item[o[j]].name # NULL

\* The copy of a list as far as its loop has come.
CopyingList(o, b, m, f) ==
  /\ Readable(b, o[f.new])
  /\ f.child = NULL \/ f.child \in Children(b, o[f.new])
  /\ IF f.last = NULL THEN f.child = b.item[o[f.new]].child
     ELSE /\ Follows(o, m.item[f.new].child, b.item[o[f.new]].child)
          /\ f.child = b.item[o[f.last]].next

\* What is complete is like the original, and the loops make up the rest.
Copied(o, b, m, fs) ==
  LET made == InUse(m) \ InUse(b)
      news == {fs[k].new : k \in DOMAIN fs}
      lasts == {fs[k].last : k \in DOMAIN fs}
  IN  /\ \A j \in made : IsCopy(o, b, m, j)
      /\ \A j \in made \ news : Follows(o, m.item[j].child, b.item[o[j]].child)
      /\ \A j \in made \ (news \cup lasts) : Follows(o, m.item[j].next, b.item[o[j]].next)
      /\ \A k \in DOMAIN fs : CopyingList(o, b, m, fs[k])
      /\ \A k \in DOMAIN fs : k + 1 \in DOMAIN fs => fs[k + 1].child = o[fs[k].new]

\* Whoever may read an item may read its elements.
LEMMA ReadableList ==
  ASSUME NEW b, NEW holders, NEW loose, Forest(b, holders, loose), NEW i \in InUse(b),
         Readable(b, i)
  PROVE  /\ b.item[i].child = NULL \/ b.item[i].child \in Children(b, i)
         /\ \A c \in Children(b, i) :
              /\ c \in InUse(b) /\ Readable(b, c)
              /\ b.item[c].next = NULL \/ b.item[c].next \in Children(b, i)
<1>0. b \in Memory /\ Links(b, holders) /\ i \in Items
  BY DEF Forest, InUse
<1>1. i \in Reaches(b, i) /\ Children(b, i) \subseteq Reaches(b, i)
      /\ \A y \in Reaches(b, i) : Reaches(b, y) \subseteq Reaches(b, i)
  BY ReachesIsLeast
<1>2. b.item[i].child # NULL => b.item[i].child \in InUse(b)
  <2>1. Intact(b, i)
    BY <1>1 DEF Readable
  <2>2. CASE b.item[i].reference
    BY <2>1, <2>2 DEF Intact, Live, InUse
  <2>3. CASE ~b.item[i].reference
    BY <1>0, <2>3, LinkTypes
  <2> QED BY <2>2, <2>3
<1>3. b.item[i].child = NULL \/ b.item[i].child \in Children(b, i)
  BY <1>0, <1>2, ChildrenAreLeast
<1>4. ASSUME NEW c \in Children(b, i)
      PROVE  /\ c \in InUse(b) /\ Readable(b, c)
             /\ b.item[c].next = NULL \/ b.item[c].next \in Children(b, i)
  <2>1. c \in InUse(b) /\ b.item[i].child \in InUse(b)
    BY DEF Children, InUse, Live
  <2>2. Readable(b, c)
    BY <1>1 DEF Readable
  <2>3. b.item[c].next # NULL => b.item[c].next \in InUse(b)
    BY <1>0, <2>1, LinkTypes
  <2>4. b.item[c].next = NULL \/ b.item[c].next \in Children(b, i)
    BY <1>0, <2>1, <2>3, ChildrenAreLeast
  <2> QED BY <2>1, <2>2, <2>4
<1> QED BY <1>3, <1>4

\* The copy of an item, without its elements.
LEMMA CopyBegins ==
  ASSUME NEW b, NEW holders, Forest(b, holders, {}), NEW i \in InUse(b), Readable(b, i),
         NEW n, n.item = b.item, NEW r, Made(n, r), Blank(r), Twin(n, i, r), r.ptr # NULL,
         NEW o, o = [NoOrigin EXCEPT ![r.ptr] = i],
         NEW fs, fs = <<Frame(r.ptr, NULL, b.item[i].child)>>
  PROVE  Copied(o, b, r.mem, fs)
<1> DEFINE x == r.ptr
           w == r.mem
<1>1. InUse(n) = InUse(b)
  BY DEF InUse, Live
<1>2. /\ x \in Items \ InUse(b) /\ \A q \in Items \ {x} : w.item[q] = b.item[q]
      /\ w.item[x].live
  BY <1>1 DEF Made
<1>3. InUse(w) = InUse(b) \cup {x}
  BY <1>2 DEF InUse, Live
<1>4. o[x] = i
  BY <1>2 DEF NoOrigin
<1>5. IsCopy(o, b, w, x)
  BY <1>4 DEF IsCopy, Blank, Twin
<1>6. DOMAIN fs = {1} /\ fs[1].new = x /\ fs[1].last = NULL /\ fs[1].child = b.item[i].child
  BY DEF Frame
<1>7. CopyingList(o, b, w, fs[1])
  BY <1>4, <1>6, ReadableList DEF CopyingList
<1>8. {fs[k].new : k \in DOMAIN fs} = {x} /\ InUse(w) \ InUse(b) = {x}
  BY <1>2, <1>3, <1>6
<1>9. \A k \in DOMAIN fs : CopyingList(o, b, w, fs[k]) /\ k + 1 \notin DOMAIN fs
  BY <1>6, <1>7
<1> HIDE DEF x, w
<1>10. Copied(o, b, w, fs)
  BY <1>5, <1>8, <1>9 DEF Copied
<1> QED BY <1>10 DEF w

\* The activations have made the items that they hold, and each has a list of its own.
Working(b, m, fs) ==
  /\ fs \in Seq(Frames)
  /\ \A k \in DOMAIN fs : fs[k].new \in InUse(m) \ InUse(b) /\ Appending(m, fs[k])
  /\ \A k, l \in DOMAIN fs : k # l => fs[k].new # fs[l].new

\* What was complete is so also after one more item has been made.
LEMMA FollowsOn ==
  ASSUME NEW o \in [Items -> Address], NEW x \in Items, NEW i, NEW copy \in Address,
         NEW original, copy # x, Follows(o, copy, original),
         NEW o1, o1 = [o EXCEPT ![x] = i]
  PROVE  Follows(o1, copy, original)
<1>1. o1[copy] = o[copy] \/ copy = NULL
  BY DEF Address
<1> QED BY <1>1 DEF Follows

\* The copy of an element begins.
LEMMA CopyGoesOn ==
  ASSUME NEW b, NEW old, Forest(b, old, {}), NEW m, NEW holders, Forest(m, holders, {}),
         Grown(b, m), NEW o \in [Items -> Address], NEW fs, Working(b, m, fs), fs # <<>>,
         Copied(o, b, m, fs), NEW c, c = fs[1].child, c # NULL,
         NEW n, n.item = m.item, NEW r, Made(n, r), Blank(r), Twin(n, c, r), r.ptr # NULL,
         NEW o1, o1 = [o EXCEPT ![r.ptr] = c],
         NEW gs, gs = <<Frame(r.ptr, NULL, b.item[c].child)>> \o fs
  PROVE  Copied(o1, b, r.mem, gs)
<1> DEFINE x == r.ptr
           w == r.mem
           made == InUse(m) \ InUse(b)
           news == {fs[k].new : k \in DOMAIN fs}
           lasts == {fs[k].last : k \in DOMAIN fs}
           mades == InUse(w) \ InUse(b)
           newer == {gs[k].new : k \in DOMAIN gs}
           later == {gs[k].last : k \in DOMAIN gs}
           f == Frame(x, NULL, b.item[c].child)
<1>0. m \in Memory /\ Links(m, holders) /\ b \in Memory /\ fs \in Seq(Frames)
  BY DEF Forest, Working
<1>1. InUse(n) = InUse(m)
  <2>1. \A p : Live(n, p) <=> Live(m, p)
    BY ONLY n.item = m.item DEF Live
  <2> QED BY ONLY <2>1 DEF InUse
<1>2. /\ x \in Items \ InUse(m) /\ \A q \in Items \ {x} : w.item[q] = m.item[q]
      /\ w.item[x].live
  BY <1>1 DEF Made
<1>3. InUse(w) = InUse(m) \cup {x} /\ InUse(m) \subseteq Items
  BY <1>2 DEF InUse, Live
<1>4. InUse(b) \subseteq InUse(m)
  BY GrownInUse
<1>5. mades = made \cup {x} /\ x \notin made /\ \A q \in InUse(m) : w.item[q] = m.item[q]
  BY <1>2, <1>3, <1>4
<1>6. 1 \in DOMAIN fs
  BY <1>0
<1>7. /\ \A j \in made : IsCopy(o, b, m, j)
      /\ \A j \in made \ news : Follows(o, m.item[j].child, b.item[o[j]].child)
      /\ \A j \in made \ (news \cup lasts) : Follows(o, m.item[j].next, b.item[o[j]].next)
      /\ \A k \in DOMAIN fs : CopyingList(o, b, m, fs[k])
      /\ \A k \in DOMAIN fs : k + 1 \in DOMAIN fs => fs[k + 1].child = o[fs[k].new]
  BY DEF Copied
<1>8. \A k \in DOMAIN fs : fs[k].new \in made /\ Appending(m, fs[k])
  BY DEF Working
<1>9. /\ c \in Children(b, o[fs[1].new]) /\ Readable(b, o[fs[1].new])
      /\ o[fs[1].new] \in InUse(b)
  BY <1>6, <1>7, <1>8 DEF CopyingList, IsCopy
<1>10. c \in InUse(b) /\ Readable(b, c)
       /\ (b.item[c].child = NULL \/ b.item[c].child \in Children(b, c))
  BY <1>9, ReadableList
<1>11. c \in Items /\ n.item[c] = b.item[c] /\ b.item[c].child \in Address
  <2>1. c \in Items /\ b.item[c] \in Nodes
    BY <1>0, <1>10 DEF InUse, Memory
  <2>2. n.item[c] = b.item[c]
    BY <1>10 DEF Grown
  <2> QED BY <2>1, <2>2 DEF Nodes
<1>12. f \in Frames /\ f.new = x /\ f.last = NULL /\ f.child = b.item[c].child
  BY <1>2, <1>11 DEF Frame, Frames, Address
<1>13. /\ gs \in Seq(Frames) /\ gs[1] = f
       /\ \A k \in DOMAIN gs : k # 1 => k - 1 \in DOMAIN fs /\ gs[k] = fs[k - 1]
       /\ \A k \in DOMAIN fs : k + 1 \in DOMAIN gs /\ gs[k + 1] = fs[k]
       /\ DOMAIN gs = 1 .. Len(fs) + 1
  <2> HIDE DEF f
  <2>1. gs = <<f>> \o fs
    BY DEF f
  <2> QED BY <1>0, <1>12, <2>1, Entering
<1>14. 1 \in DOMAIN gs /\ \A k \in DOMAIN gs : k \in Nat
  BY <1>0, <1>13
<1> HIDE DEF f
<1>15. newer = news \cup {x}
  <2>1. \A y : y \in newer => y \in news \cup {x}
    BY ONLY <1>12, <1>13 DEF newer, news
  <2>2. x \in newer
    <3>1. gs[1].new = x /\ 1 \in DOMAIN gs
      BY ONLY <1>12, <1>13, <1>14
    <3> QED BY ONLY <3>1 DEF newer
  <2>3. ASSUME NEW k \in DOMAIN fs
        PROVE  fs[k].new \in newer
    <3>1. k + 1 \in DOMAIN gs /\ gs[k + 1].new = fs[k].new
      BY <1>13
    <3> QED BY <3>1
  <2>4. \A y \in news : y \in newer
    BY <2>3
  <2> HIDE DEF news, newer
  <2> QED BY <2>1, <2>2, <2>4
<1>16. lasts \subseteq later
  <2>1. ASSUME NEW k \in DOMAIN fs
        PROVE  fs[k].last \in later
    <3>1. k + 1 \in DOMAIN gs /\ gs[k + 1].last = fs[k].last
      BY <1>13
    <3> QED BY <3>1
  <2> QED BY <2>1
<1>17. o1[x] = c /\ \A q \in InUse(m) : o1[q] = o[q]
  BY <1>2, <1>3
<1>18. \A q \in made : /\ m.item[q].next \in Address /\ m.item[q].next # x
                       /\ m.item[q].child \in Address /\ m.item[q].child # x
  <2> SUFFICES ASSUME NEW q \in made
               PROVE  /\ m.item[q].next \in Address /\ m.item[q].next # x
                      /\ m.item[q].child \in Address /\ m.item[q].child # x
    OBVIOUS
  <2>1. ~m.item[q].reference
    BY <1>7 DEF IsCopy
  <2>2. /\ m.item[q].next \in Address /\ m.item[q].child \in Address
        /\ m.item[q].next # NULL => m.item[q].next \in InUse(m)
        /\ m.item[q].child # NULL => m.item[q].child \in InUse(m)
    BY <1>0, <2>1, LinkTypes
  <2> QED BY <1>2, <2>2, AddressAssumption
<1> HIDE DEF x, w, made, news, lasts, mades, newer, later
<1>19. ASSUME NEW j \in mades
       PROVE  IsCopy(o1, b, w, j)
  <2>1. CASE j = x
    BY <1>10, <1>11, <1>17, <2>1 DEF IsCopy, Blank, Twin, x, w
  <2>2. CASE j # x
    <3>1. j \in made /\ w.item[j] = m.item[j] /\ o1[j] = o[j]
      BY <1>5, <1>17, <2>2 DEF made
    <3> QED BY <1>7, <3>1 DEF IsCopy
  <2> QED BY <2>1, <2>2
<1>20. ASSUME NEW j \in mades \ newer
       PROVE  Follows(o1, w.item[j].child, b.item[o1[j]].child)
  <2>1. j \in made \ news /\ w.item[j] = m.item[j] /\ o1[j] = o[j]
    BY <1>5, <1>15, <1>17 DEF made
  <2>2. Follows(o, m.item[j].child, b.item[o[j]].child)
    BY <1>7, <2>1
  <2>3. Follows(o1, m.item[j].child, b.item[o[j]].child)
    BY <1>2, <1>18, <2>1, <2>2, FollowsOn DEF x
  <2> QED BY <2>1, <2>3
<1>21. ASSUME NEW j \in mades \ (newer \cup later)
       PROVE  Follows(o1, w.item[j].next, b.item[o1[j]].next)
  <2>1. j \in made \ (news \cup lasts) /\ w.item[j] = m.item[j] /\ o1[j] = o[j]
    BY <1>5, <1>15, <1>16, <1>17 DEF made
  <2>2. Follows(o, m.item[j].next, b.item[o[j]].next)
    BY <1>7, <2>1
  <2>3. Follows(o1, m.item[j].next, b.item[o[j]].next)
    BY <1>2, <1>18, <2>1, <2>2, FollowsOn DEF x
  <2> QED BY <2>1, <2>3
<1>22. ASSUME NEW k \in DOMAIN fs
       PROVE  CopyingList(o1, b, w, fs[k]) /\ o1[fs[k].new] = o[fs[k].new]
  <2> DEFINE g == fs[k]
  <2>1. g.new \in made /\ g.new \in InUse(m) /\ Appending(m, g) /\ CopyingList(o, b, m, g)
    BY <1>7, <1>8 DEF made
  <2>2. w.item[g.new] = m.item[g.new] /\ o1[g.new] = o[g.new]
    BY <1>5, <1>17, <2>1
  <2>3. g.last # NULL => o1[g.last] = o[g.last]
    <3>1. g.last # NULL => g.last \in InUse(m)
      BY <2>1 DEF Appending, Children
    <3> QED BY <1>17, <3>1
  <2> HIDE DEF g
  <2>4. Follows(o, m.item[g.new].child, b.item[o[g.new]].child)
        => Follows(o1, m.item[g.new].child, b.item[o[g.new]].child)
    BY <1>2, <1>18, <2>1, FollowsOn DEF x
  <2>5. CopyingList(o1, b, w, g)
    BY <2>1, <2>2, <2>3, <2>4 DEF CopyingList
  <2> QED BY <2>2, <2>5 DEF g
<1>23. CopyingList(o1, b, w, f)
  BY <1>10, <1>12, <1>17 DEF CopyingList
<1>24. \A k \in DOMAIN gs : CopyingList(o1, b, w, gs[k])
  BY <1>13, <1>22, <1>23
<1>25. ASSUME NEW k \in DOMAIN gs, k + 1 \in DOMAIN gs
       PROVE  gs[k + 1].child = o1[gs[k].new]
  <2>1. k \in Nat /\ k + 1 # 1 /\ k + 1 - 1 = k
    BY <1>14
  <2>2. k \in DOMAIN fs /\ gs[k + 1] = fs[k]
    BY <1>13, <1>25, <2>1
  <2>3. CASE k = 1
    BY <1>12, <1>13, <1>17, <2>2, <2>3
  <2>4. CASE k # 1
    <3>1. k - 1 \in DOMAIN fs /\ gs[k] = fs[k - 1]
      BY ONLY <1>13, <1>25, <2>4
    <3>2. k - 1 + 1 = k
      BY ONLY <2>1
    <3>3. fs[k].child = o[fs[k - 1].new]
      BY ONLY <1>7, <2>2, <3>1, <3>2
    <3>4. o1[fs[k - 1].new] = o[fs[k - 1].new]
      BY ONLY <1>22, <3>1
    <3> QED BY ONLY <2>2, <3>1, <3>3, <3>4
  <2> QED BY <2>3, <2>4
<1>26. Copied(o1, b, w, gs)
  BY <1>19, <1>20, <1>21, <1>24, <1>25 DEF Copied, mades, newer, later
<1> QED BY <1>26 DEF w

\* What an activation that is complete has in the list of its caller.
LEMMA ComingBack ==
  ASSUME NEW b, NEW old, Forest(b, old, {}), NEW m, NEW holders, Forest(m, holders, {}),
         Grown(b, m), NEW o \in [Items -> Address], NEW fs, Working(b, m, fs),
         1 \in DOMAIN fs, 2 \in DOMAIN fs, Copied(o, b, m, fs)
  PROVE  /\ fs[1].new \in InUse(m) \ InUse(b) /\ fs[2].new \in InUse(m) \ InUse(b)
         /\ fs[1].new # fs[2].new /\ Appending(m, fs[1]) /\ Appending(m, fs[2])
         /\ CopyingList(o, b, m, fs[1]) /\ CopyingList(o, b, m, fs[2])
         /\ fs[1].new \in Items /\ fs[1].new # NULL /\ fs[2].child # NULL
         /\ fs[2].child = o[fs[1].new] /\ fs[2].child \in InUse(b)
         /\ fs[2].child \in Children(b, o[fs[2].new]) /\ Readable(b, o[fs[2].new])
         /\ \/ b.item[fs[2].child].next = NULL
            \/ b.item[fs[2].child].next \in Children(b, o[fs[2].new])
         /\ b.item[fs[2].child].next \in Address
<1> DEFINE x == fs[1].new
           f == fs[2]
           made == InUse(m) \ InUse(b)
<1>1. b \in Memory /\ Links(b, old) /\ NULL \notin Items
  BY AddressAssumption DEF Forest
<1>2. /\ \A j \in made : IsCopy(o, b, m, j)
      /\ \A k \in DOMAIN fs : CopyingList(o, b, m, fs[k])
      /\ \A k \in DOMAIN fs : k + 1 \in DOMAIN fs => fs[k + 1].child = o[fs[k].new]
  BY DEF Copied
<1>3. /\ \A k \in DOMAIN fs : fs[k].new \in made /\ Appending(m, fs[k])
      /\ \A k, l \in DOMAIN fs : k # l => fs[k].new # fs[l].new
  BY DEF Working
<1> HIDE DEF made
<1>4. /\ x \in made /\ f.new \in made /\ x # f.new /\ Appending(m, f) /\ Appending(m, fs[1])
      /\ CopyingList(o, b, m, f) /\ CopyingList(o, b, m, fs[1])
  BY <1>2, <1>3
<1>5. x \in Items /\ x # NULL
  BY <1>1, <1>4 DEF made, InUse
<1>6. f.child = o[x]
  <2>1. 1 + 1 = 2
    OBVIOUS
  <2> QED BY <1>2, <2>1
<1>7. o[x] \in InUse(b) /\ o[f.new] \in InUse(b) /\ o[x] # NULL
  BY <1>1, <1>2, <1>4 DEF IsCopy, InUse
<1>8. f.child \in Children(b, o[f.new]) /\ Readable(b, o[f.new])
  BY <1>4, <1>6, <1>7 DEF CopyingList
<1>9. b.item[f.child].next = NULL \/ b.item[f.child].next \in Children(b, o[f.new])
  BY <1>7, <1>8, ReadableList
<1>10. b.item[f.child].next \in Address
  BY <1>1, <1>6, <1>7, LinkTypes
<1> QED BY <1>4, <1>5, <1>6, <1>7, <1>8, <1>9, <1>10 DEF made

\* Where the activations are that stay.
LEMMA Positions ==
  \A n \in Nat :
    /\ 2 \in 1 .. n => 1 \in 1 .. n - 1
    /\ \A k \in 1 .. n :
         k \in Nat /\ (k = 1 \/ k = 2 \/ (k - 1 \in 1 .. n - 1 /\ k - 1 # 1 /\ k - 1 + 1 = k))
OBVIOUS

\* The copy of an element is complete, and its list has it.
LEMMA CopyIsLinked ==
  ASSUME NEW b, NEW old, Forest(b, old, {}), NEW m, NEW holders, Forest(m, holders, {}),
         Grown(b, m), NEW o \in [Items -> Address], NEW fs, Working(b, m, fs),
         Copied(o, b, m, fs), fs[1].child = NULL,
         NEW f, f = fs[2], NEW x, x = fs[1].new,
         NEW w, NEW T, Relinked(m, w, T), Taken(m, w, f, x),
         NEW g, g.new = f.new, g.last = x, g.child = b.item[f.child].next,
         NEW gs, ReturnsTo(fs, g, gs)
  PROVE  Copied(o, b, w, gs)
<1> DEFINE made == InUse(m) \ InUse(b)
           news == {fs[k].new : k \in DOMAIN fs}
           lasts == {fs[k].last : k \in DOMAIN fs}
           mades == InUse(w) \ InUse(b)
           newer == {gs[k].new : k \in DOMAIN gs}
           later == {gs[k].last : k \in DOMAIN gs}
<1>0. /\ fs \in Seq(Frames) /\ 1 \in DOMAIN fs /\ 2 \in DOMAIN fs
      /\ DOMAIN fs = 1 .. Len(fs) /\ Len(fs) \in Nat
  BY DEF Working, ReturnsTo
<1>1. \A y : /\ y \in news <=> \E k \in DOMAIN fs : fs[k].new = y
             /\ y \in lasts <=> \E k \in DOMAIN fs : fs[k].last = y
             /\ y \in newer <=> \E k \in DOMAIN gs : gs[k].new = y
             /\ y \in later <=> \E k \in DOMAIN gs : gs[k].last = y
  BY ONLY DEF news, lasts, newer, later
<1>2. mades = made
  BY DEF Relinked, InUse, Live
<1>3. /\ \A j \in made : IsCopy(o, b, m, j)
      /\ \A j \in made \ news : Follows(o, m.item[j].child, b.item[o[j]].child)
      /\ \A j \in made \ (news \cup lasts) : Follows(o, m.item[j].next, b.item[o[j]].next)
      /\ \A k \in DOMAIN fs : CopyingList(o, b, m, fs[k])
      /\ \A k \in DOMAIN fs : k + 1 \in DOMAIN fs => fs[k + 1].child = o[fs[k].new]
  BY DEF Copied
<1>4. \A j \in made :
         /\ w.item[j].reference = m.item[j].reference /\ w.item[j].value = m.item[j].value
         /\ w.item[j].name = m.item[j].name
         /\ w.item[j].next = IF j = f.last THEN x ELSE m.item[j].next
         /\ w.item[j].child = IF j = f.new /\ f.last = NULL THEN x ELSE m.item[j].child
  BY DEF Relinked, Taken, InUse
<1>5. \A k, l \in DOMAIN fs : fs[k].new \in made /\ (k # l => fs[k].new # fs[l].new)
  BY DEF Working
<1> HIDE DEF made, news, lasts, mades, newer, later
<1>6. /\ x \in made /\ f.new \in made /\ x # f.new /\ Appending(m, f) /\ Appending(m, fs[1])
      /\ CopyingList(o, b, m, f) /\ CopyingList(o, b, m, fs[1]) /\ x \in Items /\ x # NULL
  BY <1>0, ComingBack DEF made
<1>7. f.child = o[x] /\ o[x] \in InUse(b) /\ f.child # NULL
  BY <1>0, ComingBack
<1>8. /\ f.child \in Children(b, o[f.new]) /\ Readable(b, o[f.new])
      /\ b.item[f.child].next = NULL \/ b.item[f.child].next \in Children(b, o[f.new])
  BY <1>0, ComingBack
<1>9. /\ fs[1].last = NULL => b.item[o[x]].child = NULL /\ m.item[x].child = NULL
      /\ fs[1].last # NULL => /\ Follows(o, m.item[x].child, b.item[o[x]].child)
                             /\ b.item[o[fs[1].last]].next = NULL
                             /\ m.item[fs[1].last].next = NULL
  BY ONLY <1>6, x = fs[1].new, fs[1].child = NULL DEF CopyingList, Appending
<1>10. /\ f.last = NULL => f.child = b.item[o[f.new]].child
       /\ f.last # NULL => /\ Follows(o, m.item[f.new].child, b.item[o[f.new]].child)
                          /\ f.child = b.item[o[f.last]].next
  BY ONLY <1>6 DEF CopyingList
<1>11. /\ gs[1] = g
       /\ \A k \in DOMAIN gs : k # 1 => k + 1 \in DOMAIN fs /\ gs[k] = fs[k + 1]
       /\ \A k \in DOMAIN gs : k + 1 \in DOMAIN fs
       /\ DOMAIN gs = 1 .. Len(fs) - 1
  BY DEF ReturnsTo
<1>12. /\ Len(fs) \in Nat /\ DOMAIN fs = 1 .. Len(fs) /\ 2 \in 1 .. Len(fs)
       /\ DOMAIN gs = 1 .. Len(fs) - 1
  BY ONLY <1>0, <1>11
<1>13. /\ 1 \in DOMAIN gs
       /\ \A k \in DOMAIN fs :
            k \in Nat /\ (k = 1 \/ k = 2 \/ (k - 1 \in DOMAIN gs /\ k - 1 # 1 /\ k - 1 + 1 = k))
  BY ONLY <1>12, Positions
<1>14. ASSUME NEW k \in DOMAIN fs, k # 1, k # 2
       PROVE  k - 1 \in DOMAIN gs /\ gs[k - 1] = fs[k]
  <2>1. k - 1 \in DOMAIN gs /\ k - 1 # 1 /\ k - 1 + 1 = k
    BY ONLY <1>13, <1>14
  <2>2. gs[k - 1] = fs[k - 1 + 1]
    BY ONLY <1>11, <2>1
  <2> QED BY ONLY <2>1, <2>2
<1>15. \A y \in news : y = x \/ y \in newer
  <2>1. ASSUME NEW k \in DOMAIN fs
        PROVE  fs[k].new = x \/ fs[k].new \in newer
    <3>1. CASE k = 1
      BY <3>1
    <3>2. CASE k = 2
      BY <1>1, <1>11, <1>13, <3>2
    <3>3. CASE k # 1 /\ k # 2
      BY <1>1, <1>14, <3>3
    <3> QED BY <3>1, <3>2, <3>3
  <2> QED BY <1>1, <2>1
<1>16. \A y \in lasts : y = fs[1].last \/ y = f.last \/ y \in later
  <2>1. ASSUME NEW k \in DOMAIN fs
        PROVE  fs[k].last = fs[1].last \/ fs[k].last = f.last \/ fs[k].last \in later
    <3>1. CASE k = 1 \/ k = 2
      BY <3>1
    <3>2. CASE k # 1 /\ k # 2
      BY <1>1, <1>14, <3>2
    <3> QED BY <3>1, <3>2
  <2> QED BY <1>1, <2>1
<1>17. x \in later /\ f.new \in newer
  BY <1>1, <1>11, <1>13
<1>18. \A j \in made : IsCopy(o, b, w, j)
  BY <1>3, <1>4 DEF IsCopy
<1>19. ASSUME NEW j \in made \ newer
       PROVE  Follows(o, w.item[j].child, b.item[o[j]].child)
  <2>2. w.item[j].child = m.item[j].child
    BY <1>17, <1>4
  <2>3. CASE j = x
    <3>1. CASE fs[1].last = NULL
      BY ONLY <1>9, <2>2, <2>3, <3>1 DEF Follows
    <3>2. CASE fs[1].last # NULL
      BY ONLY <1>9, <2>2, <2>3, <3>2
    <3> QED BY <3>1, <3>2
  <2>4. CASE j # x
    <3>1. j \in made \ news
      BY ONLY <1>15, <1>19, <2>4
    <3> QED BY ONLY <1>3, <2>2, <3>1
  <2> QED BY <2>3, <2>4
<1>20. ASSUME NEW j \in made \ (newer \cup later)
       PROVE  Follows(o, w.item[j].next, b.item[o[j]].next)
  <2>1. j # x /\ j \notin news /\ j # NULL
    BY ONLY <1>15, <1>17, <1>20, AddressAssumption DEF made, InUse
  <2>2. CASE j = f.last
    <3>1. w.item[j].next = x
      BY ONLY <1>4, <1>20, <2>2
    <3> QED BY ONLY <1>6, <1>7, <1>10, <2>1, <2>2, <3>1 DEF Follows
  <2>3. CASE j # f.last /\ j = fs[1].last
    <3>1. b.item[o[j]].next = NULL /\ m.item[j].next = NULL
      BY ONLY <1>9, <2>1, <2>3
    <3>2. w.item[j].next = m.item[j].next
      BY ONLY <1>4, <1>20, <2>3
    <3> QED BY ONLY <3>1, <3>2 DEF Follows
  <2>4. CASE j # f.last /\ j # fs[1].last
    <3>1. w.item[j].next = m.item[j].next
      BY ONLY <1>4, <1>20, <2>4
    <3>2. j \in made \ (news \cup lasts)
      BY ONLY <1>16, <1>20, <2>1, <2>4
    <3> QED BY ONLY <1>3, <3>1, <3>2
  <2> QED BY <2>2, <2>3, <2>4
<1>21. CopyingList(o, b, w, g)
  <2>1. Follows(o, w.item[f.new].child, b.item[o[f.new]].child)
    <3>1. CASE f.last = NULL
      BY ONLY <1>6, <1>7, <1>4, <1>10, <3>1 DEF Follows
    <3>2. CASE f.last # NULL
      BY ONLY <1>6, <1>4, <1>10, <3>2
    <3> QED BY <3>1, <3>2
  <2> QED BY ONLY <1>6, <1>7, <1>8, <2>1, g.new = f.new, g.last = x,
                  g.child = b.item[f.child].next DEF CopyingList
<1>22. ASSUME NEW k \in DOMAIN gs
       PROVE  CopyingList(o, b, w, gs[k])
  <2>1. CASE k = 1
    BY <1>11, <1>21, <2>1
  <2>2. CASE k # 1
    <3>0. k + 1 \in DOMAIN fs /\ gs[k] = fs[k + 1]
      BY <1>11, <2>2
    <3>1. k + 1 \in DOMAIN fs /\ gs[k] = fs[k + 1] /\ k + 1 # 2
      <4>1. k \in 1 .. Len(fs) - 1 /\ Len(fs) \in Nat
        BY <1>0, <1>11
      <4>2. \A n \in Nat : \A l \in 1 .. n - 1 : l # 1 => l + 1 # 2
        OBVIOUS
      <4> QED BY <2>2, <3>0, <4>1, <4>2
    <3> DEFINE h == fs[k + 1]
    <3>2. h.new # f.new /\ h.new \in made /\ CopyingList(o, b, m, h)
      BY <1>0, <1>3, <1>5, <3>1
    <3> HIDE DEF h
    <3>3. w.item[h.new].child = m.item[h.new].child
      BY <1>4, <3>2
    <3>4. CopyingList(o, b, w, h)
      BY <3>2, <3>3 DEF CopyingList
    <3> QED BY <3>1, <3>4 DEF h
  <2> QED BY <2>1, <2>2
<1>23. ASSUME NEW k \in DOMAIN gs, k + 1 \in DOMAIN gs
       PROVE  gs[k + 1].child = o[gs[k].new]
  <2>1. k \in Nat /\ k + 1 # 1
    BY <1>0, <1>11
  <2>2. k + 1 \in DOMAIN fs /\ k + 1 + 1 \in DOMAIN fs /\ gs[k + 1] = fs[k + 1 + 1]
    BY <1>11, <1>23, <2>1
  <2>3. fs[k + 1 + 1].child = o[fs[k + 1].new]
    BY <1>3, <2>2
  <2>4. gs[k].new = fs[k + 1].new
    <3>1. CASE k = 1
      <4>1. k + 1 = 2
        BY <3>1
      <4> QED BY <1>11, <3>1, <4>1
    <3>2. CASE k # 1
      BY <1>11, <3>2
    <3> QED BY <3>1, <3>2
  <2> QED BY <2>2, <2>3, <2>4
<1> QED
  BY <1>2, <1>18, <1>19, <1>20, <1>22, <1>23 DEF Copied, mades, newer, later

\* So it is when the call returns.
LEMMA CopyComesBack ==
  ASSUME NEW b, NEW old, Forest(b, old, {}), NEW m, NEW holders, Forest(m, holders, {}),
         Grown(b, m), NEW o \in [Items -> Address], NEW fs, Working(b, m, fs), Len(fs) > 1,
         Copied(o, b, m, fs), fs[1].child = NULL,
         NEW f, f = fs[2], NEW x, x = fs[1].new,
         NEW w, NEW T, Relinked(m, w, T), Taken(m, w, f, x),
         NEW g, g = [f EXCEPT !.last = x, !.child = b.item[f.child].next],
         NEW gs, gs = <<g>> \o Tail(Tail(fs))
  PROVE  Copied(o, b, w, gs) /\ g \in Frames /\ f.child \in InUse(b)
<1>1. fs \in Seq(Frames)
  BY DEF Working
<1>2. 1 \in DOMAIN fs /\ 2 \in DOMAIN fs /\ f \in Frames
  BY ONLY <1>1, Len(fs) > 1, f = fs[2]
<1>3. x \in Address /\ f.child \in InUse(b) /\ b.item[f.child].next \in Address
  BY <1>2, ComingBack DEF Address
<1>4. g \in Frames /\ g.new = f.new /\ g.last = x /\ g.child = b.item[f.child].next
  BY ONLY <1>2, <1>3, g = [f EXCEPT !.last = x, !.child = b.item[f.child].next] DEF Frames
<1>5. ReturnsTo(fs, g, gs)
  BY ONLY <1>1, <1>4, Len(fs) > 1, gs = <<g>> \o Tail(Tail(fs)), Returning
<1>6. Copied(o, b, w, gs)
  BY ONLY <1>4, <1>5, CopyIsLinked, Forest(b, old, {}), Forest(m, holders, {}), Grown(b, m),
     o \in [Items -> Address], Working(b, m, fs), Copied(o, b, m, fs), fs[1].child = NULL,
     f = fs[2], x = fs[1].new, Relinked(m, w, T), Taken(m, w, f, x)
<1> QED BY <1>3, <1>4, <1>6

-----------------------------------------------------------------------------
(* The inductive invariant                                                 *)

\* Every activation has made an item of its own.
FramesOK ==
  /\ pc = "client" => frames = <<>>
  /\ pc \in {"numbers", "strings", "return"} => Len(frames) = 1
  /\ pc = "copy" => frames # <<>>
  /\ pc \in {"numbers", "strings", "return"} => frames[1].child = NULL
  /\ \A k \in DOMAIN frames : frames[k].new \notin roots
  /\ \A k, l \in DOMAIN frames : k # l => frames[k].new # frames[l].new

\* A call has added to what there was, and nothing else.
CallOK ==
  pc # "client" =>
    /\ Forest(before, roots, {})
    /\ Grown(before, mem)
    /\ \A k \in DOMAIN frames : frames[k].new \notin InUse(before)
    /\ pc # "failed" => \A k \in DOMAIN frames : Appending(mem, frames[k])

\* A copy is like the original as far as it has come.
CopyOK ==
  /\ pc \in {"client", "numbers", "strings"} => origin = NoOrigin
  /\ pc = "copy" \/ (pc = "return" /\ origin # NoOrigin) => Copied(origin, before, mem, frames)

\* What the client, or a call, leaves behind.
Sound ==
  /\ Forest(mem, Holders, {}) /\ (~renamed => AllOwned(mem, {}))
  /\ FramesOK /\ CallOK /\ CopyOK

\* Nothing goes wrong unless an allocation has failed, and what has not gone wrong
\* is a forest.
IInv ==
  /\ TypeOK /\ Clean(mem)
  /\ mem.fault => mem.starved
  /\ ~mem.fault => Sound

-----------------------------------------------------------------------------
(* The client                                                              *)

\* Between two calls the client is the only holder.
LEMMA Idle ==
  ASSUME IInv, ~mem.fault, pc = "client"
  PROVE  /\ Holders = roots /\ Forest(mem, roots, {}) /\ (~renamed => AllOwned(mem, {}))
         /\ Held = InUse(mem) /\ frames = <<>> /\ origin = NoOrigin
<1>1. frames = <<>> /\ origin = NoOrigin /\ Forest(mem, Holders, {}) /\ (~renamed => AllOwned(mem, {}))
  BY DEF IInv, Sound, FramesOK, CopyOK
<1>2. Holders = roots
  BY <1>1 DEF Holders
<1>3. Held = InUse(mem)
  BY <1>1, AllIsBehind DEF Held, Tree, Forest
<1> QED BY <1>1, <1>2, <1>3

\* More memory changes nothing.
LEMMA SuppliedForest ==
  ASSUME IInv, ~mem.fault, NEW k \in Budgets, NEW s, s = Supplied(k)
  PROVE  /\ s \in Memory /\ s.item = mem.item /\ s.text = mem.text /\ ~s.fault
         /\ Forest(s, Holders, {}) /\ (~renamed => AllOwned(s, {}))
<1>1. mem \in Memory /\ Forest(mem, Holders, {}) /\ (~renamed => AllOwned(mem, {}))
  BY DEF IInv, Sound, Forest
<1>2. k \in Nat
  BY BudgetsAssumption
<1>3. s \in Memory /\ s.item = mem.item /\ s.text = mem.text /\ ~s.fault
  BY <1>1, <1>2 DEF Supplied, Memory
<1> QED BY <1>1, <1>3, SameForest

\* What may come of a call that is one step.
Ended(m, held, any) ==
  \/ Forest(m, held, {}) /\ (~any => AllOwned(m, {}))
  \/ m \in Memory /\ m.fault /\ m.starved /\ Clean(m)

\* A call that is one step keeps the invariant, whatever it has done, if it
\* leaves a forest behind or has used what it could not allocate.
LEMMA EndsWell ==
  ASSUME IInv, ~mem.fault, pc = "client", UNCHANGED call, NEW m, NEW held, held \subseteq Items,
         Becomes(m, held), renamed' \in BOOLEAN, Ended(m, held, renamed')
  PROVE  IInv'
<1>1. /\ mem' = [m EXCEPT !.budget = 0, !.starved = @ /\ m.fault] /\ roots' = held
      /\ pc' = pc /\ frames' = frames /\ left' = left /\ origin' = origin /\ before' = before
  BY DEF Becomes, call
<1>2. m \in Memory /\ Clean(m)
  BY DEF Ended, Forest
<1>3. /\ mem' \in Memory /\ mem'.item = m.item /\ mem'.text = m.text /\ mem'.fault = m.fault
      /\ mem'.budget = 0 /\ mem'.starved = (m.starved /\ m.fault)
  BY <1>1, <1>2 DEF Memory
<1>4. MemoryOK(mem') /\ Clean(mem')
  BY <1>2, <1>3 DEF MemoryOK, Clean
<1>5. TypeOK'
  BY <1>1, <1>4 DEF IInv, TypeOK
<1>6. frames = <<>> /\ origin = NoOrigin
  BY Idle
<1>7. Holders' = held
  BY <1>1, <1>6 DEF Holders
<1>8. CASE Forest(m, held, {}) /\ (~renamed' => AllOwned(m, {}))
  <2>1. ~m.fault
    BY <1>8 DEF Forest
  <2>2. Forest(mem', held, {}) /\ (AllOwned(m, {}) => AllOwned(mem', {}))
    <3>1. mem'.item = m.item /\ mem'.text = m.text /\ ~mem'.fault /\ mem' \in Memory
      BY <1>3, <2>1
    <3> QED BY <1>8, <3>1, SameForest
  <2>3. FramesOK' /\ CallOK' /\ CopyOK'
    BY <1>1, <1>6 DEF FramesOK, CallOK, CopyOK
  <2>4. Sound'
    BY <1>7, <1>8, <2>2, <2>3 DEF Sound
  <2> QED BY <1>3, <1>4, <1>5, <2>1, <2>4 DEF IInv
<1>9. CASE m.fault /\ m.starved
  BY <1>3, <1>4, <1>5, <1>9 DEF IInv
<1> QED BY <1>8, <1>9 DEF Ended

\* A client that adds an item only outside of what it leads to adds it to no
\* part of itself.
LEMMA PlaceMayTake ==
  ASSUME IInv, ~mem.fault, pc = "client", NEW i \in roots, NEW a \in Places(i)
  PROVE  MayTake(mem, roots, a, i)
<1>1. Forest(mem, roots, {}) /\ Held = InUse(mem)
  BY Idle
<1>2. a \in InUse(mem) /\ ~mem.item[a].reference /\ a \notin Reaches(mem, i)
  BY <1>1 DEF Places, Containers
<1>3. Behind(mem, i) \subseteq Reaches(mem, i)
  BY <1>1, BehindIsReached DEF Forest
<1> QED BY <1>2, <1>3 DEF MayTake

\* Create leaves a forest behind.
LEMMA CreateEnds ==
  ASSUME IInv, ~mem.fault, pc = "client", UNCHANGED call, UNCHANGED renamed, Create
  PROVE  IInv'
<1>0. PICK k \in Budgets : \E new \in {CreateItem(Supplied(k)), CreateString(Supplied(k))} :
                             Becomes(new.mem, roots \cup ({new.ptr} \ {NULL}))
  BY DEF Create
<1>1. PICK new \in {CreateItem(Supplied(k)), CreateString(Supplied(k))} :
        Becomes(new.mem, roots \cup ({new.ptr} \ {NULL}))
  BY <1>0
<1> DEFINE s == Supplied(k)
<1>2. s \in Memory /\ Forest(s, roots, {}) /\ (~renamed => AllOwned(s, {}))
  BY SuppliedForest, Idle
<1> HIDE DEF s
<1>3. Made(s, new)
  BY <1>1, <1>2, CreateItemMakes, CreateStringMakes DEF s
<1>4. /\ Forest(new.mem, roots \cup ({new.ptr} \ {NULL}), {})
      /\ (AllOwned(s, {}) => AllOwned(new.mem, {}))
  BY <1>2, <1>3, MadeForest
<1>5. roots \cup ({new.ptr} \ {NULL}) \subseteq Items
  BY <1>4 DEF Forest, Links, InUse
<1>6. Ended(new.mem, roots \cup ({new.ptr} \ {NULL}), renamed') /\ renamed' \in BOOLEAN
  BY <1>2, <1>4 DEF Ended, IInv, TypeOK
<1> QED BY <1>1, <1>5, <1>6, EndsWell

\* Whatever an operation leaves behind when its memory is that of the client.
LEMMA OutcomeEnds ==
  ASSUME IInv, NEW s, (~renamed => AllOwned(s, {})), NEW w, NEW held,
         Outcome(s, {}, w, held, {}), renamed => renamed'
  PROVE  Ended(w, held, renamed') /\ held \subseteq Items
<1>1. Forest(w, held, {}) /\ (~renamed' => AllOwned(w, {}))
  BY DEF Outcome
<1> QED BY <1>1 DEF Ended, Forest, Links, InUse

\* It does not depend on the budget either what an item may be given to.
LEMMA SuppliedMayTake ==
  ASSUME NEW m, NEW holders, NEW loose, Forest(m, holders, loose), NEW a, NEW x,
         MayTake(m, holders, a, x), NEW s \in Memory, s.item = m.item
  PROVE  /\ MayTake(s, holders, a, x) /\ InUse(s) = InUse(m)
         /\ \A p \in InUse(m) : Children(s, p) = Children(m, p)
<1>0. m \in Memory /\ Links(m, holders) /\ x \in InUse(m)
  BY DEF Forest, Links, MayTake
<1>1. InUse(s) = InUse(m)
  BY DEF InUse, Live
<1>2. /\ \A p \in InUse(m) : Behind(s, p) = Behind(m, p)
      /\ \A p \in InUse(m) : Children(s, p) = Children(m, p)
  BY <1>0, <1>1, SameLinks
<1> QED BY <1>0, <1>1, <1>2 DEF MayTake

\* A new item in an object; without one NULL is used.
LEMMA CreateInObjectEnds ==
  ASSUME IInv, ~mem.fault, pc = "client", UNCHANGED call, UNCHANGED renamed,
         NEW a \in Containers, CreateInObject(a)
  PROVE  IInv'
<1>1. PICK k \in Budgets :
        LET new == CreateString(Supplied(k))
        IN  Becomes(AddItemToObject(new.mem, a, LITERAL, new.ptr), roots)
  BY DEF CreateInObject
<1> DEFINE s == Supplied(k)
           new == CreateString(s)
           w == AddItemToObject(new.mem, a, LITERAL, new.ptr)
<1>2. Becomes(w, roots)
  BY <1>1
<1>3. s \in Memory /\ s.item = mem.item /\ Forest(s, roots, {}) /\ (~renamed => AllOwned(s, {}))
  BY SuppliedForest, Idle
<1>4. a \in InUse(s) /\ ~s.item[a].reference
  BY <1>3, Idle DEF Containers, InUse, Live
<1> HIDE DEF s
<1>5. Made(s, new)
  BY <1>3, CreateStringMakes
<1> HIDE DEF new
<1>6. renamed' \in BOOLEAN /\ roots \subseteq Items
  BY DEF IInv, TypeOK
<1>7. CASE new.ptr = NULL
  <2>1. Outcome(s, {}, new.mem, roots, {}) /\ new.mem.starved
    BY <1>3, <1>5, <1>7, NotMade
  <2>2. new.mem \in Memory /\ Clean(new.mem)
    BY <2>1 DEF Outcome, Forest
  <2>3. Ruined(new.mem, w)
    BY <1>7, <2>2, AddNull
  <2>4. Ended(w, roots, renamed')
    BY <2>1, <2>3 DEF Ruined, Ended
  <2> HIDE DEF w
  <2> QED BY <1>2, <1>6, <2>4, EndsWell
<1>8. CASE new.ptr # NULL
  <2> DEFINE x == new.ptr
             more == roots \cup {x}
  <2>1. /\ Outcome(s, {}, new.mem, more, {}) /\ MayTake(new.mem, more, a, x)
        /\ more \ {x} = roots
    BY <1>3, <1>4, <1>5, <1>8, NewMayBeTaken
  <2>2. Forest(new.mem, more, {})
    BY <2>1 DEF Outcome
  <2> HIDE DEF more
  <2>3. Outcome(new.mem, {}, w, more \ {x}, {})
    BY <2>1, <2>2, AddForest
  <2> HIDE DEF w, x
  <2>4. ~renamed => AllOwned(new.mem, {})
    BY <1>3, <2>1 DEF Outcome
  <2>5. Ended(w, roots, renamed')
    BY <2>1, <2>3, <2>4, OutcomeEnds
  <2> QED BY <1>2, <1>6, <2>5, EndsWell
<1> QED BY <1>7, <1>8

\* An item that the client holds is added to an array or an object.
LEMMA AddEnds ==
  ASSUME IInv, ~mem.fault, pc = "client", UNCHANGED call, UNCHANGED renamed,
         NEW i \in roots, NEW a \in Places(i),
         AddToArray(a, i) \/ AddToObject(a, i) \/ AddToObjectCS(a, i)
  PROVE  IInv'
<1>1. Forest(mem, roots, {}) /\ (~renamed => AllOwned(mem, {})) /\ MayTake(mem, roots, a, i)
  BY Idle, PlaceMayTake
<1>2. renamed' \in BOOLEAN
  BY DEF IInv, TypeOK
<1>3. CASE AddToArray(a, i)
  <2> DEFINE w == AddItemToArray(mem, a, i)
  <2>1. Outcome(mem, {}, w, roots \ {i}, {})
    BY <1>1, AppendForest
  <2>2. Becomes(w, roots \ {i})
    BY <1>3 DEF AddToArray
  <2> HIDE DEF w
  <2> QED BY <1>1, <1>2, <2>1, <2>2, OutcomeEnds, EndsWell
<1>4. CASE AddToObject(a, i)
  <2>1. PICK k \in Budgets : Becomes(AddItemToObject(Supplied(k), a, LITERAL, i), roots \ {i})
    BY <1>4 DEF AddToObject
  <2> DEFINE s == Supplied(k)
             w == AddItemToObject(s, a, LITERAL, i)
  <2>2. /\ s \in Memory /\ s.item = mem.item /\ Forest(s, roots, {})
        /\ (~renamed => AllOwned(s, {}))
    BY SuppliedForest, Idle
  <2>3. MayTake(s, roots, a, i)
    BY <1>1, <2>2, SuppliedMayTake
  <2>4. Becomes(w, roots \ {i})
    BY <2>1
  <2> HIDE DEF s
  <2>5. Outcome(s, {}, w, roots \ {i}, {})
    BY <2>2, <2>3, AddForest
  <2> HIDE DEF w
  <2> QED BY <1>2, <2>2, <2>4, <2>5, OutcomeEnds, EndsWell
<1>5. CASE AddToObjectCS(a, i)
  <2> DEFINE w == AddItemToObjectCS(mem, a, LITERAL, i)
  <2>1. Outcome(mem, {}, w, roots \ {i}, {})
    BY <1>1, AddConstForest
  <2>2. Becomes(w, roots \ {i})
    BY <1>5 DEF AddToObjectCS
  <2> HIDE DEF w
  <2> QED BY <1>1, <1>2, <2>1, <2>2, OutcomeEnds, EndsWell
<1> QED BY <1>3, <1>4, <1>5

\* A reference to an item is added to an array or an object.
LEMMA AddReferenceEnds ==
  ASSUME IInv, ~mem.fault, pc = "client", UNCHANGED call, UNCHANGED renamed,
         NEW i \in Held, NEW a \in Places(i),
         AddReferenceToArray(a, i) \/ AddReferenceToObject(a, i)
  PROVE  IInv'
<1>1. renamed' \in BOOLEAN /\ roots \subseteq Items
  BY DEF IInv, TypeOK
<1>2. PICK k \in Budgets :
        LET new == CreateReference(Supplied(k), i)
        IN  \/ Becomes(AddItemToArray(new.mem, a, new.ptr), roots)
            \/ Becomes(AddItemToObject(new.mem, a, LITERAL, new.ptr), roots)
  BY DEF AddReferenceToArray, AddReferenceToObject
<1> DEFINE s == Supplied(k)
           new == CreateReference(s, i)
           v == AddItemToArray(new.mem, a, new.ptr)
           w == AddItemToObject(new.mem, a, LITERAL, new.ptr)
<1>3. Becomes(v, roots) \/ Becomes(w, roots)
  BY <1>2
<1>4. s \in Memory /\ s.item = mem.item /\ Forest(s, roots, {}) /\ (~renamed => AllOwned(s, {}))
  BY SuppliedForest, Idle
<1>5. a \in InUse(s) /\ ~s.item[a].reference /\ i \in InUse(s)
  BY <1>4, Idle DEF Places, Containers, InUse, Live
<1> HIDE DEF s
<1>6. Made(s, new)
  BY <1>4, <1>5, CreateReferenceMakes
<1> HIDE DEF new
<1>7. CASE new.ptr = NULL
  <2>1. Outcome(s, {}, new.mem, roots, {}) /\ new.mem.starved
    BY <1>4, <1>6, <1>7, NotMade
  <2>2. new.mem \in Memory /\ Clean(new.mem)
    BY <2>1 DEF Outcome, Forest
  <2>3. Ended(w, roots, renamed')
    <3>1. Ruined(new.mem, w)
      BY <1>7, <2>2, AddNull
    <3> QED BY <2>1, <3>1 DEF Ruined, Ended
  <2>4. v = new.mem
    BY <1>7 DEF AddItemToArray
  <2>5. Ended(v, roots, renamed')
    BY <1>4, <2>1, <2>4, OutcomeEnds
  <2> HIDE DEF v, w
  <2> QED BY <1>1, <1>3, <2>3, <2>5, EndsWell
<1>8. CASE new.ptr # NULL
  <2> DEFINE x == new.ptr
             more == roots \cup {x}
  <2>1. /\ Outcome(s, {}, new.mem, more, {}) /\ MayTake(new.mem, more, a, x)
        /\ more \ {x} = roots
    BY <1>4, <1>5, <1>6, <1>8, NewMayBeTaken
  <2>2. Forest(new.mem, more, {})
    BY <2>1 DEF Outcome
  <2> HIDE DEF more
  <2>3. Outcome(new.mem, {}, w, more \ {x}, {})
    BY <2>1, <2>2, AddForest
  <2>4. Outcome(new.mem, {}, v, more \ {x}, {})
    BY <2>1, <2>2, AppendForest
  <2> HIDE DEF v, w, x
  <2>5. ~renamed => AllOwned(new.mem, {})
    BY <1>4, <2>1 DEF Outcome
  <2>6. Ended(v, roots, renamed') /\ Ended(w, roots, renamed')
    BY <2>1, <2>3, <2>4, <2>5, OutcomeEnds
  <2> QED BY <1>1, <1>3, <2>6, EndsWell
<1> QED BY <1>7, <1>8

\* An element is taken from its list, and perhaps deleted.
LEMMA DetachEnds ==
  ASSUME IInv, ~mem.fault, pc = "client", UNCHANGED call, UNCHANGED renamed,
         NEW a \in Containers, NEW c \in Children(mem, a), Detach(a, c) \/ DeleteItem(a, c)
  PROVE  IInv'
<1>1. Forest(mem, roots, {}) /\ (~renamed => AllOwned(mem, {})) /\ Held = InUse(mem)
  BY Idle
<1>2. a \in InUse(mem) /\ ~mem.item[a].reference
  BY <1>1 DEF Containers
<1>3. renamed' \in BOOLEAN
  BY DEF IInv, TypeOK
<1> DEFINE v == Unlink(mem, a, c)
           w == Delete(v, c)
           more == roots \cup {c}
<1>4. Outcome(mem, {}, v, more, {}) /\ c \notin roots
  BY <1>1, <1>2, DetachForest
<1>5. Forest(v, more, {}) /\ (~renamed => AllOwned(v, {})) /\ c \in more /\ more \ {c} = roots
  BY <1>1, <1>4 DEF Outcome
<1>6. Becomes(v, more) \/ Becomes(w, roots)
  BY DEF Detach, DeleteItem
<1> HIDE DEF v, more
<1>7. Outcome(v, {}, w, more \ {c}, {})
  BY <1>5, DeleteForest
<1> HIDE DEF w
<1>8. /\ Ended(v, more, renamed') /\ more \subseteq Items
      /\ Ended(w, roots, renamed') /\ roots \subseteq Items
  BY <1>1, <1>4, <1>5, <1>7, OutcomeEnds
<1> QED BY <1>3, <1>6, <1>8, EndsWell

\* An item takes a place in a list, or that of an element.
LEMMA InsertEnds ==
  ASSUME IInv, ~mem.fault, pc = "client", UNCHANGED call, UNCHANGED renamed,
         NEW i \in roots, NEW a \in Places(i), NEW c \in Children(mem, a) \cup {NULL},
         Insert(a, c, i) \/ Replace(a, c, i)
  PROVE  IInv'
<1>1. Forest(mem, roots, {}) /\ (~renamed => AllOwned(mem, {})) /\ MayTake(mem, roots, a, i)
  BY Idle, PlaceMayTake
<1>2. renamed' \in BOOLEAN
  BY DEF IInv, TypeOK
<1>3. CASE Insert(a, c, i)
  <2> DEFINE w == InsertItemInArray(mem, a, c, i)
  <2>1. Outcome(mem, {}, w, roots \ {i}, {})
    BY <1>1, InsertForest
  <2>2. Becomes(w, roots \ {i})
    BY <1>3 DEF Insert
  <2> HIDE DEF w
  <2> QED BY <1>1, <1>2, <2>1, <2>2, OutcomeEnds, EndsWell
<1>4. CASE Replace(a, c, i) /\ c = NULL
  <2>1. Becomes(mem, roots)
    BY <1>4 DEF Replace, ReplaceItemInArray
  <2>2. Outcome(mem, {}, mem, roots, {})
    BY <1>1 DEF Outcome
  <2> QED BY <1>1, <1>2, <2>1, <2>2, OutcomeEnds, EndsWell
<1>5. CASE Replace(a, c, i) /\ c # NULL
  <2> DEFINE w == ReplaceItemInArray(mem, a, c, i)
  <2>1. Outcome(mem, {}, w, roots \ {i}, {})
    BY <1>1, <1>5, ReplaceForest
  <2>2. Becomes(w, roots \ {i})
    BY <1>5 DEF Replace
  <2> HIDE DEF w
  <2> QED BY <1>1, <1>2, <2>1, <2>2, OutcomeEnds, EndsWell
<1> QED BY <1>3, <1>4, <1>5

\* A name that counts as constant is lost when it is replaced, and nothing else.
LEMMA RenameEnds ==
  ASSUME IInv, ~mem.fault, pc = "client", UNCHANGED call,
         NEW i \in roots, NEW a \in Places(i), NEW c \in Children(mem, a) \cup {NULL},
         ReplaceInObject(a, c, i),
         renamed' = (renamed \/ (c # NULL /\ mem.item[i].constName))
  PROVE  IInv'
<1>1. Forest(mem, roots, {}) /\ MayTake(mem, roots, a, i)
  BY Idle, PlaceMayTake
<1>2. renamed' \in BOOLEAN
  <2>1. i \in Items /\ mem.item[i] \in Nodes
    BY <1>1 DEF Forest, Links, InUse, Memory
  <2>2. mem.item[i].constName \in BOOLEAN
    BY <2>1 DEF Nodes
  <2>3. renamed \in BOOLEAN
    BY DEF IInv, TypeOK
  <2>4. CASE renamed
    BY <2>4
  <2>5. CASE ~renamed /\ c # NULL /\ mem.item[i].constName
    BY <2>5
  <2>6. CASE ~renamed /\ ~(c # NULL /\ mem.item[i].constName)
    BY <2>6
  <2> QED BY <2>4, <2>5, <2>6
<1>3. PICK k \in Budgets : Becomes(ReplaceItemInObject(Supplied(k), a, c, LITERAL, i),
                                   IF c = NULL THEN roots ELSE roots \ {i})
  BY DEF ReplaceInObject
<1> DEFINE s == Supplied(k)
           w == ReplaceItemInObject(s, a, c, LITERAL, i)
<1>4. /\ s \in Memory /\ s.item = mem.item /\ Forest(s, roots, {})
      /\ (~renamed => AllOwned(s, {}))
  BY SuppliedForest, Idle
<1>5. /\ MayTake(s, roots, a, i) /\ a \in InUse(mem)
      /\ \A p \in InUse(mem) : Children(s, p) = Children(mem, p)
  BY <1>1, <1>4, SuppliedMayTake DEF MayTake
<1> HIDE DEF s
<1>6. CASE c = NULL
  <2>1. Becomes(s, roots)
    BY <1>3, <1>6 DEF ReplaceItemInObject, s
  <2>2. Outcome(s, {}, s, roots, {})
    BY <1>4 DEF Outcome
  <2>3. renamed => renamed'
    OBVIOUS
  <2> QED BY <1>2, <1>4, <2>1, <2>2, <2>3, OutcomeEnds, EndsWell
<1>7. CASE c # NULL
  <2>1. Becomes(w, roots \ {i})
    BY <1>3, <1>7 DEF s
  <2>2. c \in Children(s, a)
    BY <1>5, <1>7
  <2>3. /\ Forest(w, roots \ {i}, {})
        /\ AllOwned(s, {}) /\ ~s.item[i].constName => AllOwned(w, {})
    BY <1>4, <1>5, <2>2, ReplaceInObjectForest
  <2> HIDE DEF w
  <2>4. ~renamed' => AllOwned(w, {})
    BY <1>4, <1>7, <2>3
  <2>5. Ended(w, roots \ {i}, renamed') /\ roots \ {i} \subseteq Items
    BY <2>3, <2>4 DEF Ended, Forest, Links, InUse
  <2> QED BY <1>2, <2>1, <2>5, EndsWell
<1> QED BY <1>6, <1>7

\* An item is copied without its elements.
LEMMA CopyAloneEnds ==
  ASSUME IInv, ~mem.fault, pc = "client", UNCHANGED call, UNCHANGED renamed,
         NEW i \in Held, CopyAlone(i)
  PROVE  IInv'
<1>1. renamed' \in BOOLEAN
  BY DEF IInv, TypeOK
<1>2. PICK k \in Budgets :
        LET new == DuplicateAlone(Supplied(k), i)
        IN  Becomes(new.mem, roots \cup ({new.ptr} \ {NULL}))
  BY DEF CopyAlone
<1> DEFINE s == Supplied(k)
           new == DuplicateAlone(s, i)
           held == roots \cup ({new.ptr} \ {NULL})
<1>3. Becomes(new.mem, held)
  BY <1>2
<1>4. s \in Memory /\ s.item = mem.item /\ Forest(s, roots, {}) /\ (~renamed => AllOwned(s, {}))
  BY SuppliedForest, Idle
<1>5. i \in InUse(s)
  BY <1>4, Idle DEF InUse, Live
<1> HIDE DEF s
<1>6. Made(s, new)
  BY <1>4, <1>5, DuplicateAloneMakes
<1> HIDE DEF new
<1>7. Forest(new.mem, held, {}) /\ (AllOwned(s, {}) => AllOwned(new.mem, {}))
  BY <1>4, <1>6, MadeForest
<1>8. Ended(new.mem, held, renamed') /\ held \subseteq Items
  BY <1>4, <1>7 DEF Ended, Forest, Links, InUse
<1> HIDE DEF held
<1> QED BY <1>1, <1>3, <1>8, EndsWell

\* A tree is deleted.
LEMMA ReleaseEnds ==
  ASSUME IInv, ~mem.fault, pc = "client", UNCHANGED call, UNCHANGED renamed,
         NEW r \in roots, Release(r)
  PROVE  IInv'
<1>1. Forest(mem, roots, {}) /\ (~renamed => AllOwned(mem, {})) /\ renamed' \in BOOLEAN
  BY Idle DEF IInv, TypeOK
<1> DEFINE w == Delete(mem, r)
<1>2. Outcome(mem, {}, w, roots \ {r}, {})
  BY <1>1, DeleteForest
<1>3. Becomes(w, roots \ {r})
  BY DEF Release
<1> HIDE DEF w
<1> QED BY <1>1, <1>2, <1>3, OutcomeEnds, EndsWell

\* The client keeps the invariant.
LEMMA ChangeKeepsInv ==
  ASSUME IInv, ~mem.fault, pc = "client", UNCHANGED call, (Change /\ UNCHANGED renamed) \/ Rename
  PROVE  IInv'
<1>1. CASE Change /\ UNCHANGED renamed
  <2>1. CASE Create
    BY <1>1, <2>1, CreateEnds
  <2>2. CASE \E a \in Containers : CreateInObject(a)
    BY <1>1, <2>2, CreateInObjectEnds
  <2>3. ASSUME NEW i \in roots, NEW a \in Places(i),
               \/ AddToArray(a, i) \/ AddToObject(a, i) \/ AddToObjectCS(a, i)
               \/ \E c \in Children(mem, a) \cup {NULL} : Insert(a, c, i) \/ Replace(a, c, i)
        PROVE  IInv'
    BY <1>1, <2>3, AddEnds, InsertEnds
  <2>4. CASE \E i \in Held : \E a \in Places(i) :
               AddReferenceToArray(a, i) \/ AddReferenceToObject(a, i)
    BY <1>1, <2>4, AddReferenceEnds
  <2>5. CASE \E a \in Containers : \E c \in Children(mem, a) : Detach(a, c) \/ DeleteItem(a, c)
    BY <1>1, <2>5, DetachEnds
  <2>6. CASE \E i \in Held : Intact(mem, i) /\ CopyAlone(i)
    BY <1>1, <2>6, CopyAloneEnds
  <2>7. CASE \E r \in roots : Release(r)
    BY <1>1, <2>7, ReleaseEnds
  <2> QED BY <1>1, <2>1, <2>2, <2>3, <2>4, <2>5, <2>6, <2>7 DEF Change
<1>2. CASE Rename
  BY <1>2, RenameEnds DEF Rename
<1> QED BY <1>1, <1>2

-----------------------------------------------------------------------------
(* Calls that take several steps                                           *)

\* The elements of an item are in its tree.
LEMMA ListIsBehind ==
  ASSUME NEW m \in Memory, NEW holders, Links(m, holders), NEW x \in holders,
         ~m.item[x].reference
  PROVE  Children(m, x) \subseteq Behind(m, x)
<1>1. /\ x \in Behind(m, x) /\ Behind(m, x) \subseteq InUse(m)
      /\ \A q \in Behind(m, x) : NextOwned(m.item[q]) \subseteq Behind(m, x)
  BY BehindIsApart
<1>2. x \in Items /\ x \in InUse(m)
  BY <1>1 DEF InUse
<1>3. CASE m.item[x].child \in InUse(m)
  <2>1. m.item[x].child \in Behind(m, x)
    <3>1. m.item[x].child \in NextOwned(m.item[x])
      BY <1>2, <1>3, AddressAssumption DEF NextOwned, InUse
    <3> QED BY <1>1, <3>1
  <2>2. \A q \in Behind(m, x) : m.item[q].next \in InUse(m) => m.item[q].next \in Behind(m, x)
    <3>1. \A q \in Behind(m, x) :
            m.item[q].next \in InUse(m) => m.item[q].next \in NextOwned(m.item[q])
      BY AddressAssumption DEF NextOwned, InUse
    <3> QED BY <1>1, <3>1
  <2> QED BY <1>1, <1>2, <1>3, <2>1, <2>2, ChildrenAreLeast
<1>4. CASE m.item[x].child \notin InUse(m)
  BY <1>4 DEF Children, InUse, Live
<1> QED BY <1>3, <1>4

\* The budget makes no difference to a call.
LEMMA SameCall ==
  ASSUME NEW m, NEW w, w.item = m.item
  PROVE  /\ InUse(w) = InUse(m)
         /\ \A f : Appending(m, f) => Appending(w, f)
         /\ \A o, b, fs : Copied(o, b, m, fs) => Copied(o, b, w, fs)
<1>1. InUse(w) = InUse(m)
  BY DEF InUse, Live
<1>2. ASSUME NEW f, Appending(m, f)
      PROVE  Appending(w, f)
  <2>1. Children(w, f.new) = Children(m, f.new)
    BY DEF Children, InUse, Live
  <2> QED BY <1>2, <2>1 DEF Appending
<1>3. ASSUME NEW o, NEW b, NEW fs, Copied(o, b, m, fs)
      PROVE  Copied(o, b, w, fs)
  BY <1>1, <1>3 DEF Copied, IsCopy, CopyingList
<1> QED BY <1>1, <1>2, <1>3

\* A new item makes no difference to a list.
LEMMA MadeAppends ==
  ASSUME NEW m, NEW holders, NEW loose, Forest(m, holders, loose), NEW r, Made(m, r),
         NEW f, f.new \in holders, Appending(m, f)
  PROVE  Appending(r.mem, f)
<1> DEFINE w == r.mem
           a == f.new
<1>0. m \in Memory /\ Links(m, holders) /\ a \in InUse(m) /\ a \in Items
  BY DEF Forest, Links, InUse
<1>1. /\ w \in Memory /\ \A q \in InUse(m) : w.item[q] = m.item[q]
      /\ InUse(m) \subseteq InUse(w)
  <2>1. w \in Memory /\ \A q \in InUse(m) : w.item[q] = m.item[q]
    BY DEF Made, InUse
  <2> QED BY <2>1 DEF InUse, Live
<1> HIDE DEF w, a
<1>2. w.item[a] = m.item[a] /\ ~m.item[a].reference
  BY <1>0, <1>1 DEF Appending, a
<1>3. CASE f.last = NULL
  BY <1>2, <1>3 DEF Appending, a, w
<1>4. CASE f.last # NULL
  <2>1. f.last \in Children(m, a) /\ m.item[f.last].next = NULL /\ m.item[a].child # NULL
    BY <1>4 DEF Appending, a
  <2>2. m.item[a].child \in InUse(m) /\ f.last \in InUse(m) /\ Children(m, a) \subseteq InUse(m)
    BY <2>1 DEF Children, InUse, Live
  <2>3. \A c \in Children(m, a) : w.item[c].next = m.item[c].next
    BY <1>1, <2>2
  <2>4. Children(m, a) \subseteq Children(w, a)
    BY <1>0, <1>1, <1>2, <2>2, <2>3, ListStays
  <2> QED BY <1>2, <1>4, <2>1, <2>3, <2>4 DEF Appending, a, w
<1> QED BY <1>3, <1>4

\* Where a call stands.
LEMMA InCall ==
  ASSUME IInv, ~mem.fault, pc # "client"
  PROVE  /\ Forest(mem, Holders, {}) /\ (~renamed => AllOwned(mem, {}))
         /\ Forest(before, roots, {}) /\ Grown(before, mem) /\ roots \subseteq Holders
         /\ frames \in Seq(Frames) /\ mem \in Memory /\ roots \subseteq Items
         /\ origin \in [Items -> Address] /\ left \in Nat /\ renamed \in BOOLEAN
         /\ MemoryOK(before)
         /\ \A k \in DOMAIN frames : frames[k].new \in Holders
         /\ pc # "failed" => Working(before, mem, frames)
<1>1. Forest(mem, Holders, {}) /\ (~renamed => AllOwned(mem, {})) /\ FramesOK /\ CallOK
  BY DEF IInv, Sound
<1>2. /\ frames \in Seq(Frames) /\ origin \in [Items -> Address] /\ left \in Nat
      /\ renamed \in BOOLEAN /\ MemoryOK(before) /\ roots \subseteq Items
  BY DEF IInv, TypeOK, Frames, Address
<1>3. roots \subseteq Holders /\ \A k \in DOMAIN frames : frames[k].new \in Holders
  BY DEF Holders
<1>4. Holders \subseteq InUse(mem) /\ mem \in Memory
  BY <1>1 DEF Forest, Links
<1>5. pc # "failed" => Working(before, mem, frames)
  BY <1>1, <1>2, <1>3, <1>4 DEF Working, CallOK, FramesOK
<1> QED BY <1>1, <1>2, <1>3, <1>4, <1>5 DEF CallOK

\* A call goes on with memory m.
LEMMA GoesOn ==
  ASSUME IInv, UNCHANGED <<roots, renamed>>, NEW m, NEW held, held = Holders',
         Forest(m, held, {}), ~renamed => AllOwned(m, {}), ~mem'.fault,
         mem' \in Memory, mem'.item = m.item, mem'.text = m.text, mem'.budget = 0,
         pc' \in {"numbers", "strings", "copy", "failed", "return"},
         frames' \in Seq(Frames), left' \in Nat, origin' \in [Items -> Address],
         MemoryOK(before'), Forest(before', roots, {}), Grown(before', m), FramesOK',
         \A k \in DOMAIN frames' : /\ frames'[k].new \notin InUse(before')
                                   /\ pc' # "failed" => Appending(m, frames'[k]),
         pc' \in {"numbers", "strings"} => origin' = NoOrigin,
         pc' = "copy" \/ (pc' = "return" /\ origin' # NoOrigin)
           => Copied(origin', before', m, frames')
  PROVE  IInv'
<1>1. Forest(mem', held, {}) /\ (AllOwned(m, {}) => AllOwned(mem', {}))
  BY SameForest
<1>2. Grown(before', mem')
  BY GrownSame
<1>3. /\ \A f : Appending(m, f) => Appending(mem', f)
      /\ \A o, b, fs : Copied(o, b, m, fs) => Copied(o, b, mem', fs)
  BY SameCall
<1>4. Clean(mem')
  BY <1>1 DEF Forest
<1>5. MemoryOK(mem')
  BY <1>4 DEF MemoryOK, Clean
<1>6. TypeOK'
  BY <1>5 DEF IInv, TypeOK, Frames, Address
<1>7. CallOK'
  BY <1>2, <1>3 DEF CallOK
<1>8. CopyOK'
  BY <1>3 DEF CopyOK
<1>9. Sound'
  BY <1>1, <1>7, <1>8 DEF Sound
<1> QED BY <1>4, <1>6, <1>9 DEF IInv

\* What a step leaves in memory.
LEMMA LeavesBehind ==
  ASSUME NEW m \in Memory, ~m.fault, Leaves(m)
  PROVE  /\ ~mem'.fault /\ mem' \in Memory /\ mem'.item = m.item /\ mem'.text = m.text
         /\ mem'.budget = 0
BY DEF Leaves, Memory

\* A call has been entered.
LEMMA EnteredKeeps ==
  ASSUME IInv, ~mem.fault, pc = "client", NEW k \in Budgets, NEW s, s = Supplied(k),
         NEW new, Made(s, new), Blank(new), NEW first \in Address,
         NEW entry \in {"numbers", "strings", "copy"}, entry # "copy" => first = NULL,
         Entered(new, first, entry), left' \in Nat, origin' \in [Items -> Address],
         entry # "copy" => origin' = NoOrigin,
         new.ptr # NULL /\ entry = "copy" => Copied(origin', mem, new.mem, frames')
  PROVE  IInv'
<1> DEFINE x == new.ptr
           w == new.mem
           held == roots \cup ({x} \ {NULL})
<1>1. /\ Forest(mem, roots, {}) /\ Holders = roots /\ MemoryOK(mem) /\ roots \subseteq Items
      /\ mem \in Memory
  BY Idle DEF IInv, TypeOK, Forest
<1>2. /\ s.item = mem.item /\ s.text = mem.text /\ Forest(s, roots, {})
      /\ (~renamed => AllOwned(s, {}))
  BY <1>1, SuppliedForest
<1>3. InUse(s) = InUse(mem)
  BY <1>2 DEF InUse, Live
<1>4. /\ Forest(w, held, {}) /\ (AllOwned(s, {}) => AllOwned(w, {}))
      /\ (x # NULL => x \notin InUse(s) /\ x \in InUse(w))
  BY <1>2, MadeForest
<1>5. w \in Memory /\ ~w.fault
  BY <1>4 DEF Forest
<1>6. Grown(mem, w)
  <2>1. Grown(mem, s)
    BY <1>2, GrownAtFirst
  <2> QED BY <2>1, GrownMade
<1>7. /\ Leaves(w) /\ before' = mem /\ UNCHANGED <<roots, renamed>>
      /\ frames' = IF x = NULL THEN <<>> ELSE <<Frame(x, NULL, first)>>
      /\ pc' = IF x = NULL THEN "failed" ELSE entry
  BY DEF Entered
<1>8. /\ ~mem'.fault /\ mem' \in Memory /\ mem'.item = w.item /\ mem'.text = w.text
      /\ mem'.budget = 0
  BY <1>5, <1>7, LeavesBehind
<1>9. x # NULL => /\ x \in Items /\ x \notin roots /\ x \notin InUse(mem)
                  /\ ~w.item[x].reference /\ w.item[x].child = NULL
  BY <1>1, <1>3, <1>4 DEF Blank, InUse, Forest, Links
<1> HIDE DEF x, w
<1>10. CASE x = NULL
  <2>1. frames' = <<>> /\ pc' = "failed"
    BY <1>7, <1>10
  <2>2. Holders' = held
    BY <1>7, <1>10, <2>1 DEF Holders
  <2>3. frames' \in Seq(Frames) /\ DOMAIN frames' = {}
    BY <2>1
  <2>4. FramesOK'
    BY <2>1, <2>3 DEF FramesOK
  <2> HIDE DEF held
  <2> QED BY <1>1, <1>2, <1>4, <1>6, <1>7, <1>8, <2>1, <2>2, <2>3, <2>4, GoesOn
<1>11. CASE x # NULL
  <2> DEFINE f == Frame(x, NULL, first)
  <2>1. /\ f \in Frames /\ f.new = x /\ f.last = NULL /\ f.child = first
    BY <1>9, <1>11 DEF Frame, Frames, Address
  <2> HIDE DEF f
  <2>2. frames' = <<f>> /\ pc' = entry
    BY <1>7, <1>11 DEF f
  <2>3. frames' \in Seq(Frames) /\ DOMAIN frames' = {1} /\ frames'[1] = f /\ Len(frames') = 1
        /\ frames' # <<>>
    BY <2>1, <2>2
  <2>4. Holders' = held
    <3>1. {frames'[j].new : j \in DOMAIN frames'} = {x}
      BY <2>1, <2>3
    <3> QED BY <1>7, <1>11, <3>1 DEF Holders
  <2>5. FramesOK'
    BY <1>7, <1>9, <1>11, <2>1, <2>2, <2>3 DEF FramesOK
  <2>6. Appending(w, f)
    BY <1>9, <1>11, <2>1 DEF Appending
  <2>7. \A j \in DOMAIN frames' : frames'[j].new \notin InUse(mem) /\ Appending(w, frames'[j])
    BY <1>9, <1>11, <2>1, <2>3, <2>6
  <2> HIDE DEF held
  <2>8. pc' = "copy" \/ (pc' = "return" /\ origin' # NoOrigin) => Copied(origin', mem, w, frames')
    BY <1>11, <2>2 DEF x, w
  <2> QED BY <1>1, <1>2, <1>4, <1>6, <1>7, <1>8, <2>2, <2>3, <2>4, <2>5, <2>7, <2>8, GoesOn
<1> QED BY <1>10, <1>11

\* The creation of an array begins.
LEMMA CreateArrayKeeps ==
  ASSUME IInv, ~mem.fault, NEW count \in Nat, NEW entry \in {"numbers", "strings"},
         CreateArray(count, entry)
  PROVE  IInv'
<1>1. pc = "client" /\ left' = count /\ origin' = origin
  BY DEF CreateArray
<1>2. PICK k \in Budgets : Entered(CreateItem(Supplied(k)), NULL, entry)
  BY DEF CreateArray
<1>3. origin = NoOrigin /\ NoOrigin \in [Items -> Address]
  BY <1>1, Idle DEF NoOrigin, Address
<1> DEFINE s == Supplied(k)
           new == CreateItem(s)
<1>4. s \in Memory
  BY SuppliedForest
<1> HIDE DEF s
<1>5. Made(s, new) /\ Blank(new) /\ Entered(new, NULL, entry)
  BY <1>2, <1>4, CreateItemMakes DEF s
<1> HIDE DEF new
<1>6. NULL \in Address /\ entry # "copy" /\ entry \in {"numbers", "strings", "copy"}
  BY DEF Address
<1> QED BY <1>1, <1>3, <1>5, <1>6, EnteredKeeps DEF s

\* A copy begins.
LEMMA CopyKeeps ==
  ASSUME IInv, ~mem.fault, NEW i \in Items, Copy(i)
  PROVE  IInv'
<1>1. pc = "client" /\ i \in Held /\ Readable(mem, i) /\ left' = left
  BY DEF Copy
<1>2. PICK k \in Budgets :
        LET new == DuplicateAlone(Supplied(k), i)
        IN  /\ Entered(new, mem.item[i].child, "copy")
            /\ origin' = IF new.ptr = NULL THEN origin ELSE [origin EXCEPT ![new.ptr] = i]
  BY DEF Copy
<1> DEFINE s == Supplied(k)
           new == DuplicateAlone(s, i)
           first == mem.item[i].child
<1>3. /\ Entered(new, first, "copy")
      /\ origin' = IF new.ptr = NULL THEN origin ELSE [origin EXCEPT ![new.ptr] = i]
  BY <1>2
<1>4. origin = NoOrigin /\ NoOrigin \in [Items -> Address] /\ Forest(mem, roots, {})
      /\ i \in InUse(mem) /\ left \in Nat
  BY <1>1, Idle DEF NoOrigin, Address, IInv, TypeOK
<1>5. s \in Memory /\ s.item = mem.item /\ Forest(s, roots, {})
  BY <1>1, SuppliedForest, Idle
<1>6. i \in InUse(s) /\ first \in Address
  <2>1. i \in InUse(s)
    BY <1>4, <1>5 DEF InUse, Live
  <2>2. mem \in Memory /\ Links(mem, roots)
    BY <1>4 DEF Forest
  <2>3. first \in Address
    BY <1>4, <2>2, LinkTypes
  <2> QED BY <2>1, <2>3
<1> HIDE DEF s
<1>7. Made(s, new) /\ Blank(new) /\ Twin(s, i, new)
  BY <1>5, <1>6, DuplicateAloneMakes
<1> HIDE DEF new
<1>8. new.ptr # NULL => new.ptr \in Items /\ frames' = <<Frame(new.ptr, NULL, first)>>
  BY <1>3, <1>7 DEF Made, Entered
<1>9. origin' \in [Items -> Address]
  BY <1>3, <1>4, <1>8 DEF Address
<1>10. new.ptr # NULL => Copied(origin', mem, new.mem, frames')
  <2> SUFFICES ASSUME new.ptr # NULL
               PROVE  Copied(origin', mem, new.mem, frames')
    OBVIOUS
  <2>1. /\ origin' = [NoOrigin EXCEPT ![new.ptr] = i]
        /\ frames' = <<Frame(new.ptr, NULL, mem.item[i].child)>>
    BY <1>3, <1>4, <1>8
  <2> QED BY <1>1, <1>4, <1>5, <1>7, <2>1, CopyBegins
<1> HIDE DEF first
<1> QED BY <1>1, <1>3, <1>4, <1>6, <1>7, <1>9, <1>10, EnteredKeeps DEF s

\* The loop of a call takes an item that the call has made.
LEMMA TakesInCall ==
  ASSUME NEW b, NEW old, Forest(b, old, {}), NEW m, NEW holders, Forest(m, holders, {}),
         old \subseteq holders, Grown(b, m), NEW f, f.new \in holders, f.new \notin InUse(b),
         Appending(m, f), NEW x \in holders, x \notin InUse(b), x # f.new,
         NEW w, w = Linked(m, f, x)
  PROVE  /\ Outcome(m, {}, w, holders \ {x}, {}) /\ Grown(b, w) /\ Taken(m, w, f, x)
         /\ \E T : Relinked(m, w, T)
         /\ \A g : g.new = f.new /\ g.last = x => Appending(w, g)
<1>0. m \in Memory /\ Links(m, holders) /\ f.new \in InUse(m) /\ f.new \in Items
  BY DEF Forest, Links, InUse
<1>1. /\ Outcome(m, {}, w, holders \ {x}, {}) /\ Taken(m, w, f, x)
      /\ \E T : /\ Relinked(m, w, T) /\ x \in T
                /\ T \subseteq {f.new, f.last, x} /\ (f.last # NULL => f.new \notin T) /\ NULL \notin T
      /\ x \in Children(w, f.new) /\ w.item[x].next = NULL
  BY LinkedTakes
<1>2. PICK T : Relinked(m, w, T) /\ T \subseteq {f.new, f.last, x} /\ NULL \notin T
  BY <1>1
<1>3. f.last # NULL => f.last \notin InUse(b)
  <2>1. ~m.item[f.new].reference /\ (f.last # NULL => f.last \in Children(m, f.new))
    BY DEF Appending
  <2>2. Children(m, f.new) \subseteq Behind(m, f.new)
    BY <1>0, <2>1, ListIsBehind
  <2>3. Behind(m, f.new) \cap InUse(b) = {}
    BY NewIsApart
  <2> QED BY <2>1, <2>2, <2>3
<1>4. T \cap InUse(b) = {}
  BY <1>2, <1>3
<1>5. Grown(b, w)
  BY <1>0, <1>2, <1>4, GrownRelinked
<1>6. ~w.item[f.new].reference
  BY <1>0, <1>2 DEF Relinked, Appending
<1>7. w.item[f.new].child # NULL /\ x # NULL
  BY <1>1, AddressAssumption DEF Children, InUse, Live
<1>8. \A g : g.new = f.new /\ g.last = x => Appending(w, g)
  BY <1>1, <1>6, <1>7 DEF Appending
<1> QED BY <1>1, <1>2, <1>5, <1>8

\* An element is created, and the array has it.
LEMMA CreateElementKeeps ==
  ASSUME IInv, ~mem.fault, CreateElement
  PROVE  IInv'
<1>1. /\ pc \in {"numbers", "strings"} /\ left > 0 /\ left' = left - 1
      /\ UNCHANGED <<roots, renamed, origin, before>>
  BY DEF CreateElement
<1>2. PICK k \in Budgets :
        LET new == Element(Supplied(k), pc = "strings")
        IN  IF new.ptr = NULL
              THEN Leaves(new.mem) /\ pc' = "failed" /\ UNCHANGED frames
              ELSE /\ Leaves(Linked(new.mem, Top, new.ptr))
                   /\ frames' = <<[Top EXCEPT !.last = new.ptr]>>
                   /\ UNCHANGED pc
  BY DEF CreateElement
<1> DEFINE s == Supplied(k)
           new == Element(s, pc = "strings")
           x == new.ptr
           m == new.mem
           f == Top
           w == Linked(m, f, x)
           g == [f EXCEPT !.last = x]
           more == Holders \cup ({x} \ {NULL})
<1>3. IF x = NULL THEN Leaves(m) /\ pc' = "failed" /\ UNCHANGED frames
      ELSE Leaves(w) /\ frames' = <<g>> /\ UNCHANGED pc
  BY <1>2
<1>4. /\ Forest(mem, Holders, {}) /\ (~renamed => AllOwned(mem, {}))
      /\ Forest(before, roots, {}) /\ Grown(before, mem) /\ roots \subseteq Holders
      /\ frames \in Seq(Frames) /\ mem \in Memory /\ roots \subseteq Items
      /\ origin \in [Items -> Address] /\ left \in Nat /\ MemoryOK(before)
      /\ Working(before, mem, frames) /\ \A j \in DOMAIN frames : frames[j].new \in Holders
  BY <1>1, InCall
<1>5. FramesOK /\ Len(frames) = 1 /\ origin = NoOrigin
  BY <1>1 DEF IInv, Sound, FramesOK, CopyOK
<1>6. DOMAIN frames = {1} /\ f \in Frames /\ f = frames[1]
  <2>1. DOMAIN frames = 1 .. 1
    BY <1>4, <1>5
  <2>2. 1 .. 1 = {1}
    OBVIOUS
  <2>3. f = frames[1]
    BY DEF Top
  <2>4. f \in Frames
    <3>1. frames \in Seq(Frames) /\ 1 \in DOMAIN frames
      BY <1>4, <2>1, <2>2
    <3>2. frames[1] \in Frames
      BY ONLY <3>1
    <3> QED BY <2>3, <3>2
  <2> HIDE DEF f
  <2> QED BY <2>1, <2>2, <2>3, <2>4
<1>7. /\ f.new \in Holders /\ f.new \in InUse(mem) /\ f.new \notin InUse(before)
      /\ Appending(mem, f) /\ f.child = NULL /\ f.new \notin roots
  BY <1>1, <1>4, <1>5, <1>6 DEF Working, FramesOK
<1>8. Holders = roots \cup {f.new}
  BY <1>6 DEF Holders
<1>9. left' \in Nat
  BY <1>1, <1>4
<1>10. /\ s \in Memory /\ s.item = mem.item /\ s.text = mem.text /\ Forest(s, Holders, {})
       /\ (~renamed => AllOwned(s, {}))
  BY SuppliedForest
<1>11. InUse(s) = InUse(mem) /\ Appending(s, f) /\ Grown(before, s)
  BY <1>4, <1>7, <1>10, SameCall, GrownSame
<1> HIDE DEF s
<1>12. Made(s, new)
  BY <1>10, CreateItemMakes, CreateStringMakes DEF Element
<1> HIDE DEF new, f
<1>13. /\ Forest(m, more, {}) /\ (AllOwned(s, {}) => AllOwned(m, {}))
       /\ (x # NULL => x \notin InUse(s))
  BY <1>10, <1>12, MadeForest
<1>14. Grown(before, m) /\ Appending(m, f)
  BY <1>7, <1>10, <1>11, <1>12, GrownMade, MadeAppends
<1>15. m \in Memory /\ ~m.fault
  BY <1>13 DEF Forest
<1> HIDE DEF x, m
<1>16. CASE x = NULL
  <2>1. Leaves(m) /\ pc' = "failed" /\ frames' = frames /\ more = Holders
    BY <1>3, <1>16
  <2>2. /\ ~mem'.fault /\ mem' \in Memory /\ mem'.item = m.item /\ mem'.text = m.text
        /\ mem'.budget = 0
    BY <1>15, <2>1, LeavesBehind
  <2>3. Holders' = Holders
    BY <1>1, <2>1 DEF Holders
  <2>4. FramesOK'
    BY <1>1, <1>5, <2>1 DEF FramesOK
  <2>5. \A j \in DOMAIN frames' : frames'[j].new \notin InUse(before)
    BY <1>6, <1>7, <2>1
  <2> QED BY <1>1, <1>4, <1>9, <1>10, <1>13, <1>14, <2>1, <2>2, <2>3, <2>4, <2>5, GoesOn
<1>17. CASE x # NULL
  <2>1. more = Holders \cup {x} /\ x \notin InUse(mem) /\ x \in more
    BY <1>11, <1>13, <1>17
  <2>2. x \notin InUse(before) /\ x # f.new /\ x \notin Holders
    <3>1. Holders \subseteq InUse(mem)
      BY <1>4 DEF Forest, Links
    <3> QED BY <1>4, <1>7, <2>1, <3>1, GrownInUse
  <2>3. more \ {x} = Holders /\ roots \subseteq more /\ f.new \in more
    BY <1>4, <1>7, <2>1, <2>2
  <2> HIDE DEF more
  <2>4. /\ Outcome(m, {}, w, more \ {x}, {}) /\ Grown(before, w)
        /\ \A h : h.new = f.new /\ h.last = x => Appending(w, h)
    BY <1>4, <1>7, <1>13, <1>14, <2>1, <2>2, <2>3, TakesInCall
  <2> HIDE DEF w
  <2>5. Leaves(w) /\ frames' = <<g>> /\ pc' = pc
    BY <1>3, <1>17
  <2>6. x \in Items
    BY <1>13, <2>1 DEF Forest, Links, InUse
  <2>7. g \in Frames /\ g.new = f.new /\ g.last = x /\ g.child = NULL
    BY <1>6, <1>7, <2>6 DEF Frames, Address
  <2>8. Appending(w, g)
    BY <2>4, <2>7
  <2> HIDE DEF g
  <2>9. frames' \in Seq(Frames) /\ DOMAIN frames' = {1} /\ frames'[1] = g /\ Len(frames') = 1
        /\ frames' # <<>>
    BY <2>5, <2>7
  <2>10. Holders' = Holders
    <3>1. {frames'[j].new : j \in DOMAIN frames'} = {f.new}
      BY <2>7, <2>9
    <3> QED BY <1>1, <1>8, <3>1 DEF Holders
  <2>11. FramesOK'
    BY <1>1, <1>7, <2>5, <2>7, <2>9 DEF FramesOK
  <2>12. Forest(w, Holders, {}) /\ (~renamed => AllOwned(w, {}))
    BY <1>10, <1>13, <2>3, <2>4 DEF Outcome
  <2>13. w \in Memory /\ ~w.fault
    BY <2>12 DEF Forest
  <2>14. /\ ~mem'.fault /\ mem' \in Memory /\ mem'.item = w.item /\ mem'.text = w.text
         /\ mem'.budget = 0
    BY <2>5, <2>13, LeavesBehind
  <2>15. \A j \in DOMAIN frames' : frames'[j].new \notin InUse(before) /\ Appending(w, frames'[j])
    BY <1>7, <2>7, <2>8, <2>9
  <2> QED BY <1>1, <1>4, <1>5, <1>9, <2>4, <2>5, <2>9, <2>10, <2>11, <2>12, <2>14, <2>15, GoesOn
<1> QED BY <1>16, <1>17

\* The array is complete.
LEMMA ArrayDoneKeeps ==
  ASSUME IInv, ~mem.fault, ArrayDone
  PROVE  IInv'
<1>1. /\ pc \in {"numbers", "strings"} /\ pc' = "return"
      /\ UNCHANGED <<mem, roots, renamed, frames, left, origin, before>>
  BY DEF ArrayDone
<1>2. origin = NoOrigin
  BY <1>1 DEF IInv, Sound, CopyOK
<1>3. TypeOK' /\ FramesOK' /\ CallOK' /\ CopyOK'
  BY <1>1, <1>2 DEF IInv, Sound, TypeOK, FramesOK, CallOK, CopyOK
<1>4. Holders' = Holders
  BY <1>1 DEF Holders
<1> QED BY <1>1, <1>3, <1>4 DEF IInv, Sound

\* The copy of an element begins.
LEMMA CopyChildKeeps ==
  ASSUME IInv, ~mem.fault, CopyChild
  PROVE  IInv'
<1> DEFINE f == Top
           c == f.child
<1>1. /\ pc = "copy" /\ c # NULL /\ UNCHANGED <<roots, renamed, left, before>>
  BY DEF CopyChild
<1>2. /\ Forest(mem, Holders, {}) /\ (~renamed => AllOwned(mem, {}))
      /\ Forest(before, roots, {}) /\ Grown(before, mem) /\ roots \subseteq Holders
      /\ frames \in Seq(Frames) /\ mem \in Memory /\ roots \subseteq Items
      /\ origin \in [Items -> Address] /\ left \in Nat /\ MemoryOK(before)
      /\ Working(before, mem, frames) /\ \A j \in DOMAIN frames : frames[j].new \in Holders
  BY <1>1, InCall
<1>3. FramesOK /\ frames # <<>> /\ Copied(origin, before, mem, frames)
  BY <1>1 DEF IInv, Sound, FramesOK, CopyOK
<1>4. 1 \in DOMAIN frames /\ f = frames[1]
  BY <1>2, <1>3 DEF Top
<1>5. f.new \in InUse(mem) \ InUse(before) /\ CopyingList(origin, before, mem, f)
      /\ IsCopy(origin, before, mem, f.new)
  BY <1>2, <1>3, <1>4 DEF Working, Copied
<1>6. c \in InUse(before) /\ before.item[c] = mem.item[c] /\ c \in InUse(mem) /\ Live(mem, c)
  <2>1. origin[f.new] \in InUse(before) /\ Readable(before, origin[f.new])
        /\ c \in Children(before, origin[f.new])
    BY <1>1, <1>5 DEF CopyingList, IsCopy
  <2>2. c \in InUse(before)
    BY <1>2, <2>1, ReadableList
  <2>3. before.item[c] = mem.item[c] /\ c \in InUse(mem)
    BY <1>2, <2>2, GrownInUse DEF Grown
  <2> QED BY <2>2, <2>3 DEF InUse
<1>7. PICK k \in Budgets :
        LET new == DuplicateAlone(Supplied(k), c)
        IN  /\ Leaves(new.mem)
            /\ IF new.ptr = NULL
                 THEN pc' = "failed" /\ UNCHANGED <<frames, origin>>
                 ELSE /\ frames' = <<Frame(new.ptr, NULL, mem.item[c].child)>> \o frames
                      /\ origin' = [origin EXCEPT ![new.ptr] = c]
                      /\ UNCHANGED pc
  BY <1>6 DEF CopyChild
<1> DEFINE s == Supplied(k)
           new == DuplicateAlone(s, c)
           x == new.ptr
           m == new.mem
           g == Frame(x, NULL, before.item[c].child)
           more == Holders \cup ({x} \ {NULL})
<1>8. Leaves(m) /\ IF x = NULL
                     THEN pc' = "failed" /\ UNCHANGED <<frames, origin>>
                     ELSE /\ frames' = <<g>> \o frames
                          /\ origin' = [origin EXCEPT ![x] = c]
                          /\ UNCHANGED pc
  BY <1>6, <1>7
<1>9. /\ s \in Memory /\ s.item = mem.item /\ s.text = mem.text /\ Forest(s, Holders, {})
      /\ (~renamed => AllOwned(s, {}))
  BY SuppliedForest
<1>10. /\ InUse(s) = InUse(mem) /\ Grown(before, s)
       /\ \A j \in DOMAIN frames : Appending(s, frames[j])
  BY <1>2, <1>9, SameCall, GrownSame DEF Working
<1> HIDE DEF s, f, c
<1>11. Made(s, new) /\ Blank(new) /\ Twin(s, c, new)
  <2>1. c \in InUse(s)
    BY <1>6, <1>10
  <2> QED BY <1>9, <2>1, DuplicateAloneMakes
<1> HIDE DEF new
<1>12. /\ Forest(m, more, {}) /\ (AllOwned(s, {}) => AllOwned(m, {}))
       /\ (x # NULL => x \notin InUse(s) /\ x \in Items)
  <2>1. /\ Forest(m, more, {}) /\ (AllOwned(s, {}) => AllOwned(m, {}))
        /\ (x # NULL => x \notin InUse(s))
    BY <1>9, <1>11, MadeForest
  <2>2. x # NULL => x \in Items
    BY <1>11 DEF Made
  <2> QED BY <2>1, <2>2
<1>13. Grown(before, m)
  BY <1>10, <1>11, GrownMade
<1>14. ASSUME NEW j \in DOMAIN frames
       PROVE  Appending(m, frames[j])
  <2>1. frames[j].new \in Holders /\ Appending(s, frames[j])
    BY <1>2, <1>10
  <2> QED BY <1>9, <1>11, <2>1, MadeAppends
<1>15. m \in Memory /\ ~m.fault
  BY <1>12 DEF Forest
<1>16. /\ ~mem'.fault /\ mem' \in Memory /\ mem'.item = m.item /\ mem'.text = m.text
       /\ mem'.budget = 0
  BY <1>8, <1>15, LeavesBehind
<1>17. \A j \in DOMAIN frames : frames[j].new \notin InUse(before)
  BY <1>2 DEF Working
<1>18. CASE x = NULL
  <2>1. pc' = "failed" /\ frames' = frames /\ origin' = origin /\ more = Holders
    BY <1>8, <1>18
  <2> HIDE DEF m, x
  <2>2. Holders' = Holders
    BY <1>1, <2>1 DEF Holders
  <2>3. FramesOK'
    BY <1>1, <1>3, <2>1 DEF FramesOK
  <2>4. \A j \in DOMAIN frames' : frames'[j].new \notin InUse(before)
    BY <1>17, <2>1
  <2> QED BY <1>1, <1>2, <1>9, <1>12, <1>13, <1>16, <2>1, <2>2, <2>3, <2>4, GoesOn
<1>19. CASE x # NULL
  <2>1. /\ frames' = <<g>> \o frames /\ origin' = [origin EXCEPT ![x] = c] /\ pc' = "copy"
        /\ more = Holders \cup {x} /\ x \in Items /\ x \notin InUse(mem)
    BY <1>1, <1>8, <1>10, <1>12, <1>19
  <2>2. x \notin InUse(before) /\ x \notin Holders /\ x \notin roots
    <3>1. Holders \subseteq InUse(mem)
      BY <1>2 DEF Forest, Links
    <3> QED BY <1>2, <2>1, <3>1, GrownInUse
  <2>3. Copied(origin', before, m, frames')
    BY <1>1, <1>2, <1>3, <1>4, <1>9, <1>11, <1>19, <2>1, CopyGoesOn DEF c
  <2>4. g \in Frames /\ g.new = x /\ g.last = NULL
    <3>1. before \in Memory /\ c \in Items
      BY <1>2, <1>6 DEF MemoryOK, InUse
    <3>2. before.item[c].child \in Address
      BY <3>1 DEF Memory, Nodes
    <3> QED BY <2>1, <3>2 DEF Frame, Frames, Address
  <2>5. Appending(m, g)
    BY <1>11, <1>19, <2>4 DEF Appending, Blank
  <2> HIDE DEF g, more, m
  <2>6. /\ frames' \in Seq(Frames) /\ frames' # <<>> /\ frames'[1] = g
        /\ \A j \in DOMAIN frames' : j # 1 => j - 1 \in DOMAIN frames /\ frames'[j] = frames[j - 1]
        /\ \A j \in DOMAIN frames : j + 1 \in DOMAIN frames' /\ frames'[j + 1] = frames[j]
        /\ DOMAIN frames' = 1 .. Len(frames) + 1
    BY <1>2, <2>1, <2>4, Entering
  <2>7. 1 \in DOMAIN frames' /\ \A j \in DOMAIN frames' : j \in Nat
    <3>1. Len(frames) \in Nat
      BY <1>2
    <3> QED BY <2>6, <3>1
  <2> HIDE DEF x
  <2>8. \A j \in DOMAIN frames' : frames'[j].new \in {x} \cup {frames[l].new : l \in DOMAIN frames}
    BY <2>4, <2>6
  <2>9. Holders' = more
    <3> DEFINE N == {frames'[j].new : j \in DOMAIN frames'}
               M0 == {frames[j].new : j \in DOMAIN frames}
    <3>1. N \subseteq M0 \cup {x}
      BY <2>8
    <3>2. x \in N
      BY <2>4, <2>6, <2>7
    <3>3. ASSUME NEW j \in DOMAIN frames
          PROVE  frames[j].new \in N
      <4>1. j + 1 \in DOMAIN frames' /\ frames'[j + 1].new = frames[j].new
        BY <2>6
      <4> QED BY <4>1
    <3>4. \A y \in M0 : y \in N
      BY <3>3
    <3>5. Holders = roots \cup M0 /\ Holders' = roots \cup N
      BY <1>1 DEF Holders
    <3> HIDE DEF N, M0
    <3> QED BY <2>1, <3>1, <3>2, <3>4, <3>5
  <2>10. FramesOK'
    <3>1. \A j \in DOMAIN frames' : frames'[j].new \notin roots
      BY <1>1, <1>3, <2>2, <2>4, <2>6 DEF FramesOK
    <3>2. ASSUME NEW j \in DOMAIN frames', NEW l \in DOMAIN frames', j # l
          PROVE  frames'[j].new # frames'[l].new
      <4>1. \A q \in DOMAIN frames : frames[q].new # x
        BY <1>2, <2>2
      <4>2. CASE j = 1
        BY <2>4, <2>6, <3>2, <4>1, <4>2
      <4>3. CASE l = 1
        BY <2>4, <2>6, <3>2, <4>1, <4>3
      <4>4. CASE j # 1 /\ l # 1
        <5>1. j - 1 # l - 1
          BY <2>7, <3>2
        <5> QED BY <1>3, <2>6, <4>4, <5>1 DEF FramesOK
      <4> QED BY <4>2, <4>3, <4>4
    <3> QED BY <1>1, <2>1, <2>6, <3>1, <3>2 DEF FramesOK
  <2>11. ASSUME NEW j \in DOMAIN frames'
         PROVE  frames'[j].new \notin InUse(before) /\ Appending(m, frames'[j])
    <3>1. CASE j = 1
      BY <2>2, <2>4, <2>5, <2>6, <3>1
    <3>2. CASE j # 1
      BY <1>14, <1>17, <2>6, <3>2 DEF m
    <3> QED BY <3>1, <3>2
  <2>12. origin' \in [Items -> Address]
    <3>1. c \in Address
      BY <1>6 DEF InUse, Address
    <3> QED BY <1>2, <2>1, <3>1
  <2>13. Forest(m, more, {}) /\ (~renamed => AllOwned(m, {})) /\ Grown(before, m)
         /\ mem'.item = m.item /\ mem'.text = m.text
    BY <1>9, <1>12, <1>13, <1>16 DEF m, more, x
  <2>14. left' \in Nat /\ MemoryOK(before') /\ Forest(before', roots, {}) /\ Grown(before', m)
         /\ UNCHANGED <<roots, renamed>> /\ before' = before
    BY <1>1, <1>2, <2>13
  <2> QED BY <1>16, <2>1, <2>3, <2>6, <2>9, <2>10, <2>11, <2>12, <2>13, <2>14, GoesOn
<1> QED BY <1>18, <1>19

\* Memory in which nothing is in use.
LEMMA EmptyIsMemory ==
  MemoryOK(Empty) /\ Forest(Empty, {}, {}) /\ AllOwned(Empty, {})
<1>1. Node(FALSE) \in Nodes /\ Node(FALSE).name # LITERAL /\ ~Node(FALSE).live
  BY AddressAssumption DEF Node, Nodes, Address
<1>2. /\ Empty.item = [p \in Items |-> Node(FALSE)] /\ Empty.text = {} /\ Empty.budget = 0
      /\ Empty.fault = FALSE /\ Empty.starved = FALSE
  BY DEF Empty
<1>3. Empty \in Memory
  <2>1. Empty.item \in [Items -> Nodes]
    BY <1>1, <1>2
  <2> QED BY <2>1 DEF Empty, Memory
<1>4. InUse(Empty) = {} /\ \A p \in Items : Empty.item[p] = Node(FALSE)
  BY <1>1, <1>2 DEF InUse, Live
<1>5. MemoryOK(Empty) /\ Clean(Empty)
  BY <1>1, <1>2, <1>3, <1>4 DEF MemoryOK, Clean
<1>6. Links(Empty, {})
  BY <1>4 DEF Links
<1>7. TextsOwned(Empty) /\ Loose(Empty, {}) /\ AllOwned(Empty, {})
  BY <1>2, <1>4 DEF TextsOwned, Loose, AllOwned
<1> QED BY <1>2, <1>3, <1>5, <1>6, <1>7 DEF Forest

\* The copy of an element is complete, or that of all.
LEMMA CopyReturnsKeeps ==
  ASSUME IInv, ~mem.fault, CopyReturns
  PROVE  IInv'
<1>1. /\ pc = "copy" /\ Top.child = NULL /\ UNCHANGED <<roots, renamed, left, origin, before>>
  BY DEF CopyReturns
<1>2. /\ Forest(mem, Holders, {}) /\ (~renamed => AllOwned(mem, {}))
      /\ Forest(before, roots, {}) /\ Grown(before, mem) /\ roots \subseteq Holders
      /\ frames \in Seq(Frames) /\ mem \in Memory /\ roots \subseteq Items
      /\ origin \in [Items -> Address] /\ left \in Nat /\ MemoryOK(before)
      /\ Working(before, mem, frames) /\ \A j \in DOMAIN frames : frames[j].new \in Holders
  BY <1>1, InCall
<1>3. /\ FramesOK /\ frames # <<>> /\ Copied(origin, before, mem, frames) /\ CallOK
      /\ TypeOK /\ Clean(mem)
  BY <1>1 DEF IInv, Sound, FramesOK, CopyOK
<1>4. CASE Len(frames) = 1
  <2>1. pc' = "return" /\ mem' = mem /\ frames' = frames
    BY <1>4 DEF CopyReturns
  <2>2. frames[1].child = NULL
    BY <1>1 DEF Top
  <2>3. TypeOK' /\ FramesOK' /\ CallOK' /\ CopyOK'
    BY <1>1, <1>3, <1>4, <2>1, <2>2 DEF TypeOK, FramesOK, CallOK, CopyOK
  <2>4. Holders' = Holders /\ Clean(mem') /\ ~mem'.fault
    BY <1>1, <1>3, <2>1 DEF Holders
  <2> QED BY <1>1, <1>2, <2>1, <2>3, <2>4 DEF IInv, Sound
<1>5. CASE Len(frames) # 1
  <2> DEFINE f == frames[2]
             x == Top.new
             w == Linked(mem, f, x)
             g == [f EXCEPT !.last = x, !.child = before.item[f.child].next]
  <2>1. Len(frames) > 1 /\ 1 \in DOMAIN frames /\ 2 \in DOMAIN frames /\ x = frames[1].new
    <3>1. Len(frames) \in Nat /\ Len(frames) # 0 /\ DOMAIN frames = 1 .. Len(frames)
      BY <1>2, <1>3
    <3>2. \A n \in Nat : n # 0 /\ n # 1 => n > 1 /\ 1 \in 1 .. n /\ 2 \in 1 .. n
      OBVIOUS
    <3> QED BY <1>5, <3>1, <3>2 DEF Top
  <2>2. /\ f.new \in Holders /\ f.new \notin InUse(before) /\ Appending(mem, f)
        /\ x \in Holders /\ x \notin InUse(before) /\ x # f.new /\ x \notin roots
    <3>1. /\ f.new \in Holders /\ f.new \notin InUse(before) /\ Appending(mem, f)
          /\ x \in Holders /\ x \notin InUse(before) /\ x # f.new
      BY <1>2, <2>1 DEF Working
    <3> QED BY <1>3, <2>1, <3>1 DEF FramesOK
  <2>3. /\ Outcome(mem, {}, w, Holders \ {x}, {}) /\ Grown(before, w) /\ Taken(mem, w, f, x)
        /\ \E T : Relinked(mem, w, T)
        /\ \A h : h.new = f.new /\ h.last = x => Appending(w, h)
    <3> HIDE DEF f, x
    <3> QED BY <1>2, <2>2, TakesInCall
  <2>4. PICK T : Relinked(mem, w, T)
    BY <2>3
  <2> DEFINE gs == <<g>> \o Tail(Tail(frames))
  <2>5. Copied(origin, before, w, gs) /\ g \in Frames /\ f.child \in InUse(before)
    <3>1. frames[1].child = NULL
      BY <1>1 DEF Top
    <3> HIDE DEF w
    <3> QED BY <1>2, <1>3, <2>1, <2>3, <2>4, <3>1, CopyComesBack
  <2>6. Live(mem, f.child) /\ mem.item[f.child] = before.item[f.child]
    <3>1. mem.item[f.child] = before.item[f.child]
      BY <1>2, <2>5 DEF Grown
    <3>2. f.child \in InUse(mem)
      BY <1>2, <2>5, GrownInUse
    <3> QED BY <3>1, <3>2 DEF InUse
  <2>7. Leaves(w) /\ frames' = gs /\ pc' = "copy"
    BY <1>1, <1>5, <2>6 DEF CopyReturns
  <2>8. f \in Frames
    BY <1>2, <2>1
  <2> HIDE DEF w
  <2>9. g.new = f.new /\ g.last = x
    <3>1. x \in Address
      BY <1>2, <2>2 DEF Forest, Links, InUse, Address
    <3> QED BY <2>8 DEF Frames
  <2> HIDE DEF g, f, x
  <2>10. ReturnsTo(frames, g, gs)
    <3>1. frames \in Seq(Frames) /\ Len(frames) > 1 /\ g \in Frames
      BY <1>2, <2>1, <2>5
    <3> QED BY ONLY <3>1, Returning DEF gs
  <2> HIDE DEF gs
  <2>11. /\ gs \in Seq(Frames) /\ gs # <<>> /\ gs[1] = g
         /\ \A j \in DOMAIN gs : j # 1 => j + 1 \in DOMAIN frames /\ gs[j] = frames[j + 1]
         /\ DOMAIN gs = 1 .. Len(frames) - 1
    BY <2>10 DEF ReturnsTo
  <2>12. Len(frames) \in Nat /\ DOMAIN frames = 1 .. Len(frames)
    BY <1>2
  <2>13. 1 \in DOMAIN gs
    <3>1. \A n \in Nat : n > 1 => 1 \in 1 .. n - 1
      OBVIOUS
    <3> QED BY <2>1, <2>11, <2>12, <3>1
  <2>14. ASSUME NEW j \in DOMAIN gs, j # 1
         PROVE  /\ j + 1 \in DOMAIN frames /\ gs[j] = frames[j + 1] /\ j + 1 # 1 /\ j + 1 # 2
                /\ gs[j].new # f.new /\ gs[j].new # x /\ gs[j].new \in Holders
    <3>1. j + 1 \in DOMAIN frames /\ gs[j] = frames[j + 1]
      BY <2>11, <2>14
    <3>2. \A n \in Nat : \A l \in 1 .. n - 1 : l # 1 => l + 1 # 1 /\ l + 1 # 2
      OBVIOUS
    <3>3. j + 1 # 1 /\ j + 1 # 2
      BY <2>11, <2>12, <2>14, <3>2
    <3>4. frames[j + 1].new # frames[1].new /\ frames[j + 1].new # frames[2].new
      BY <1>2, <2>1, <3>1, <3>3 DEF Working
    <3> QED BY <1>2, <2>1, <3>1, <3>3, <3>4 DEF f
  <2>15. ASSUME NEW j \in DOMAIN frames, j # 1
         PROVE  \E l \in DOMAIN gs : gs[l].new = frames[j].new
    <3>1. \A n \in Nat : \A q \in 1 .. n : q # 1 /\ q # 2 => q - 1 \in 1 .. n - 1 /\ q - 1 # 1 /\ q - 1 + 1 = q
      OBVIOUS
    <3>2. CASE j = 2
      <4>1. gs[1].new = frames[j].new
        BY <2>9, <2>11, <3>2 DEF f
      <4> QED BY <2>13, <4>1
    <3>3. CASE j # 2
      <4>1. j - 1 \in DOMAIN gs /\ j - 1 # 1 /\ j - 1 + 1 = j
        BY <2>11, <2>12, <2>15, <3>1, <3>3
      <4>2. gs[j - 1] = frames[j]
        BY <2>11, <4>1
      <4> QED BY <4>1, <4>2
    <3> QED BY <3>2, <3>3
  <2>16. Holders' = Holders \ {x}
    <3> DEFINE N == {gs[j].new : j \in DOMAIN gs}
               M0 == {frames[j].new : j \in DOMAIN frames}
    <3>1. \A y \in N : y \in Holders /\ y # x
      <4>1. ASSUME NEW j \in DOMAIN gs
            PROVE  gs[j].new \in Holders /\ gs[j].new # x
        BY <2>2, <2>9, <2>11, <2>14, <4>1
      <4> QED BY <4>1
    <3>2. \A y \in M0 : y # x => y \in N
      <4>1. ASSUME NEW j \in DOMAIN frames, frames[j].new # x
            PROVE  frames[j].new \in N
        <5>1. j # 1
          BY <2>1, <4>1
        <5>2. PICK l \in DOMAIN gs : gs[l].new = frames[j].new
          BY <2>15, <5>1
        <5> QED BY <5>2
      <4> QED BY <4>1
    <3>3. Holders = roots \cup M0 /\ Holders' = roots \cup N
      BY <1>1, <2>7 DEF Holders
    <3> HIDE DEF N, M0
    <3> QED BY <2>2, <3>1, <3>2, <3>3
  <2>17. FramesOK'
    <3>1. ASSUME NEW j \in DOMAIN gs
          PROVE  gs[j].new \notin roots
      <4>1. CASE j = 1
        <5>1. frames[2].new \notin roots
          BY <1>3, <2>1 DEF FramesOK
        <5> QED BY <2>9, <2>11, <4>1, <5>1 DEF f
      <4>2. CASE j # 1
        BY <1>3, <2>14, <4>2 DEF FramesOK
      <4> QED BY <4>1, <4>2
    <3>2. ASSUME NEW j \in DOMAIN gs, NEW l \in DOMAIN gs, j # l
          PROVE  gs[j].new # gs[l].new
      <4>1. CASE j = 1
        BY <2>9, <2>11, <2>14, <3>2, <4>1
      <4>2. CASE l = 1
        BY <2>9, <2>11, <2>14, <3>2, <4>2
      <4>3. CASE j # 1 /\ l # 1
        <5>1. j + 1 # l + 1
          BY <2>11, <2>12, <3>2
        <5> QED BY <1>3, <2>14, <4>3, <5>1 DEF FramesOK
      <4> QED BY <4>1, <4>2, <4>3
    <3> QED BY <1>1, <2>7, <2>11, <3>1, <3>2 DEF FramesOK
  <2>18. ASSUME NEW j \in DOMAIN gs
         PROVE  gs[j].new \notin InUse(before) /\ Appending(w, gs[j])
    <3>1. CASE j = 1
      BY <2>2, <2>3, <2>9, <2>11, <3>1
    <3>2. CASE j # 1
      <4> DEFINE h == gs[j]
      <4>1. h.new \in Holders /\ h.new # f.new
        BY <2>14, <3>2
      <4>2. h.new \notin InUse(before) /\ Appending(mem, h)
        BY <1>2, <2>14, <3>2 DEF Working
      <4>3. w \in Memory
        BY <2>4 DEF Relinked
      <4> HIDE DEF h
      <4>4. Appending(w, h)
        BY <1>2, <2>2, <2>3, <2>4, <4>1, <4>2, <4>3, OthersAppend
      <4> QED BY <4>2, <4>4 DEF h
    <3> QED BY <3>1, <3>2
  <2>19. Forest(w, Holders \ {x}, {}) /\ (~renamed => AllOwned(w, {})) /\ w \in Memory /\ ~w.fault
    BY <1>2, <2>3 DEF Outcome, Forest
  <2>20. /\ ~mem'.fault /\ mem' \in Memory /\ mem'.item = w.item /\ mem'.text = w.text
         /\ mem'.budget = 0
    BY <2>7, <2>19, LeavesBehind
  <2> QED BY <1>1, <1>2, <2>3, <2>5, <2>7, <2>11, <2>16, <2>17, <2>18, <2>19, <2>20, GoesOn
<1> QED BY <1>4, <1>5

\* An activation that has failed gives back what it has made.
LEMMA UnwindKeeps ==
  ASSUME IInv, ~mem.fault, Unwind
  PROVE  IInv'
<1> DEFINE x == Top.new
           w == Delete(mem, x)
           gs == Tail(frames)
<1>1. /\ pc = "failed" /\ frames # <<>> /\ Leaves(w) /\ frames' = gs
      /\ UNCHANGED <<roots, renamed, pc, left, origin, before>>
  BY DEF Unwind
<1>2. /\ Forest(mem, Holders, {}) /\ (~renamed => AllOwned(mem, {}))
      /\ Forest(before, roots, {}) /\ Grown(before, mem) /\ roots \subseteq Holders
      /\ frames \in Seq(Frames) /\ mem \in Memory /\ roots \subseteq Items
      /\ origin \in [Items -> Address] /\ left \in Nat /\ MemoryOK(before)
      /\ \A j \in DOMAIN frames : frames[j].new \in Holders
  BY <1>1, InCall
<1>3. FramesOK /\ CallOK
  BY DEF IInv, Sound
<1>4. 1 \in DOMAIN frames /\ x = frames[1].new
  BY <1>1, <1>2 DEF Top
<1>5. x \in Holders /\ x \notin roots /\ x \notin InUse(before)
  BY <1>1, <1>2, <1>3, <1>4 DEF FramesOK, CallOK
<1> HIDE DEF x
<1>6. Grown(before, w) /\ Outcome(mem, {}, w, Holders \ {x}, {}) /\ ~w.fault
  BY <1>2, <1>5, GrownDelete
<1> HIDE DEF w
<1>7. /\ gs \in Seq(Frames) /\ DOMAIN gs = 1 .. Len(frames) - 1
      /\ \A j \in DOMAIN gs : j + 1 \in DOMAIN frames /\ gs[j] = frames[j + 1]
  BY <1>1, <1>2, Leaving
<1>8. DOMAIN frames = 1 .. Len(frames) /\ Len(frames) \in Nat
  BY <1>2
<1>9. ASSUME NEW j \in DOMAIN gs
      PROVE  j \in Nat /\ j + 1 # 1 /\ j + 1 \in DOMAIN frames /\ gs[j] = frames[j + 1]
  BY <1>7, <1>8
<1>10. ASSUME NEW j \in DOMAIN frames, j # 1
       PROVE  j - 1 \in DOMAIN gs /\ gs[j - 1] = frames[j]
  <2>1. \A n \in Nat : \A q \in 1 .. n : q # 1 => q - 1 \in 1 .. n - 1 /\ q - 1 + 1 = q
    OBVIOUS
  <2>2. j - 1 \in DOMAIN gs /\ j - 1 + 1 = j
    BY <1>7, <1>8, <1>10, <2>1
  <2> QED BY <1>9, <2>2
<1>11. \A j \in DOMAIN gs : /\ gs[j].new \in Holders /\ gs[j].new # x /\ gs[j].new \notin roots
                            /\ gs[j].new \notin InUse(before)
  <2> SUFFICES ASSUME NEW j \in DOMAIN gs
               PROVE  /\ gs[j].new \in Holders /\ gs[j].new # x /\ gs[j].new \notin roots
                      /\ gs[j].new \notin InUse(before)
    OBVIOUS
  <2>1. j + 1 # 1 /\ j + 1 \in DOMAIN frames /\ gs[j] = frames[j + 1]
    BY <1>9
  <2>2. frames[j + 1].new # frames[1].new /\ frames[j + 1].new \notin roots
    BY <1>3, <1>4, <2>1 DEF FramesOK
  <2> QED BY <1>1, <1>2, <1>3, <1>4, <2>1, <2>2 DEF CallOK
<1>12. \A j, l \in DOMAIN gs : j # l => gs[j].new # gs[l].new
  <2> SUFFICES ASSUME NEW j \in DOMAIN gs, NEW l \in DOMAIN gs, j # l
               PROVE  gs[j].new # gs[l].new
    OBVIOUS
  <2>1. j + 1 # l + 1 /\ j + 1 \in DOMAIN frames /\ l + 1 \in DOMAIN frames
        /\ gs[j] = frames[j + 1] /\ gs[l] = frames[l + 1]
    BY <1>9
  <2> QED BY <1>3, <2>1 DEF FramesOK
<1> HIDE DEF gs
<1>13. Holders' = Holders \ {x}
  <2> DEFINE N == {gs[j].new : j \in DOMAIN gs}
             M0 == {frames[j].new : j \in DOMAIN frames}
  <2>1. \A y \in N : y \in Holders /\ y # x
    BY <1>11
  <2>2. \A y \in M0 : y # x => y \in N
    <3>1. ASSUME NEW j \in DOMAIN frames, frames[j].new # x
          PROVE  frames[j].new \in N
      <4>1. j - 1 \in DOMAIN gs /\ gs[j - 1].new = frames[j].new
        BY <1>4, <1>10, <3>1
      <4> QED BY <4>1
    <3> QED BY <3>1
  <2>3. Holders = roots \cup M0 /\ Holders' = roots \cup N
    BY <1>1 DEF Holders
  <2> HIDE DEF N, M0
  <2> QED BY <1>5, <2>1, <2>2, <2>3
<1>14. FramesOK'
  BY <1>1, <1>11, <1>12 DEF FramesOK
<1>15. Forest(w, Holders \ {x}, {}) /\ (~renamed => AllOwned(w, {})) /\ w \in Memory
  BY <1>2, <1>6 DEF Outcome, Forest
<1>16. /\ ~mem'.fault /\ mem' \in Memory /\ mem'.item = w.item /\ mem'.text = w.text
       /\ mem'.budget = 0
  BY <1>1, <1>6, <1>15, LeavesBehind
<1>17. \A j \in DOMAIN frames' : frames'[j].new \notin InUse(before)
  BY <1>1, <1>11
<1> QED BY <1>1, <1>2, <1>6, <1>7, <1>13, <1>14, <1>15, <1>16, <1>17, GoesOn

\* The client has the result.
LEMMA ReturnKeeps ==
  ASSUME IInv, ~mem.fault, Return
  PROVE  IInv'
<1>1. /\ pc \in {"return", "failed"} /\ pc' = "client" /\ frames' = <<>> /\ left' = 0
      /\ origin' = NoOrigin /\ before' = Empty /\ renamed' = renamed
  BY DEF Return
<1>2. Becomes(mem, Holders)
  <2>1. CASE pc = "return" /\ Becomes(mem, roots \cup {Top.new})
    <3>1. Len(frames) = 1
      BY <2>1 DEF IInv, Sound, FramesOK
    <3>2. DOMAIN frames = {1}
      <4>1. frames \in Seq(Frames)
        BY <1>1, InCall
      <4>2. DOMAIN frames = 1 .. 1
        BY <3>1, <4>1
      <4> QED BY <4>2
    <3>3. Holders = roots \cup {Top.new}
      BY <3>2 DEF Holders, Top
    <3> QED BY <2>1, <3>3
  <2>2. CASE pc = "failed" /\ frames = <<>> /\ Becomes(mem, roots)
    <3>1. Holders = roots
      BY <2>2 DEF Holders
    <3> QED BY <2>2, <3>1
  <2> QED BY <2>1, <2>2 DEF Return
<1>3. /\ Forest(mem, Holders, {}) /\ (~renamed => AllOwned(mem, {}))
      /\ mem \in Memory /\ renamed \in BOOLEAN /\ Clean(mem)
  BY <1>1, InCall DEF Forest
<1>4. mem' = [mem EXCEPT !.budget = 0, !.starved = @ /\ mem.fault] /\ roots' = Holders
  BY <1>2 DEF Becomes
<1>5. /\ mem' \in Memory /\ mem'.item = mem.item /\ mem'.text = mem.text /\ ~mem'.fault
      /\ mem'.budget = 0
  BY <1>3, <1>4 DEF Memory
<1>6. Forest(mem', Holders, {}) /\ (AllOwned(mem, {}) => AllOwned(mem', {}))
  BY <1>3, <1>5, SameForest
<1>7. Holders' = Holders /\ Holders \subseteq Items
  BY <1>1, <1>3, <1>4 DEF Holders, Forest, Links, InUse
<1>8. MemoryOK(mem') /\ Clean(mem') /\ MemoryOK(Empty)
  <2>1. Clean(mem')
    BY <1>6 DEF Forest
  <2>2. MemoryOK(mem')
    BY <1>5, <2>1 DEF MemoryOK, Clean
  <2> QED BY <2>1, <2>2, EmptyIsMemory
<1>9. NoOrigin \in [Items -> Items \cup {NULL}]
  BY DEF NoOrigin
<1>10. TypeOK'
  BY <1>1, <1>3, <1>4, <1>7, <1>8, <1>9 DEF TypeOK
<1>11. FramesOK' /\ CallOK' /\ CopyOK'
  BY <1>1 DEF FramesOK, CallOK, CopyOK
<1> QED BY <1>1, <1>3, <1>5, <1>6, <1>7, <1>8, <1>10, <1>11 DEF IInv, Sound

-----------------------------------------------------------------------------
(* The theorems                                                            *)

\* At the start nothing is in use.
LEMMA InitHasInv ==
  ASSUME Init
  PROVE  IInv
<1>1. MemoryOK(Empty) /\ Forest(Empty, {}, {}) /\ AllOwned(Empty, {})
  BY EmptyIsMemory
<1>2. Holders = {}
  BY DEF Init, Holders
<1>3. TypeOK
  <2>1. NoOrigin \in [Items -> Items \cup {NULL}]
    BY DEF NoOrigin
  <2>2. <<>> \in Seq([new : Items, last : Items \cup {NULL}, child : Items \cup {NULL}])
    OBVIOUS
  <2> QED BY <1>1, <2>1, <2>2 DEF Init, TypeOK
<1>4. FramesOK /\ CallOK /\ CopyOK
  BY DEF Init, FramesOK, CallOK, CopyOK
<1>5. ~mem.fault /\ Clean(mem)
  BY <1>1 DEF Init, Forest
<1> QED BY <1>1, <1>2, <1>3, <1>4, <1>5 DEF Init, IInv, Sound

\* Every step keeps the invariant, also after a fault, when none is taken.
LEMMA NextKeepsInv ==
  ASSUME IInv, [Next]_vars
  PROVE  IInv'
<1>1. CASE Next
  <2>1. ~mem.fault
    BY <1>1 DEF Next
  <2>2. CASE pc = "client" /\ UNCHANGED call /\ ((Change /\ UNCHANGED renamed) \/ Rename)
    BY <2>1, <2>2, ChangeKeepsInv
  <2>3. CASE \E n \in 1 .. MaxCount, entry \in {"numbers", "strings"} : CreateArray(n, entry)
    <3>1. PICK n \in 1 .. MaxCount, q \in {"numbers", "strings"} : CreateArray(n, q)
      BY <2>3
    <3>2. n \in Nat
      BY BoundsAssumption
    <3> QED BY <2>1, <3>1, <3>2, CreateArrayKeeps
  <2>4. CASE CreateElement
    BY <2>1, <2>4, CreateElementKeeps
  <2>5. CASE ArrayDone
    BY <2>1, <2>5, ArrayDoneKeeps
  <2>6. CASE \E i \in Items : Copy(i)
    BY <2>1, <2>6, CopyKeeps
  <2>7. CASE CopyChild
    BY <2>1, <2>7, CopyChildKeeps
  <2>8. CASE CopyReturns
    BY <2>1, <2>8, CopyReturnsKeeps
  <2>9. CASE Unwind
    BY <2>1, <2>9, UnwindKeeps
  <2>10. CASE Return
    BY <2>1, <2>10, ReturnKeeps
  <2> QED BY <1>1, <2>2, <2>3, <2>4, <2>5, <2>6, <2>7, <2>8, <2>9, <2>10 DEF Next
<1>2. CASE UNCHANGED vars
  <2>1. /\ mem' = mem /\ roots' = roots /\ pc' = pc /\ frames' = frames /\ left' = left
        /\ origin' = origin /\ before' = before /\ renamed' = renamed
    BY <1>2 DEF vars, call
  <2>2. TypeOK' = TypeOK /\ Holders' = Holders
    BY <2>1 DEF TypeOK, Holders
  <2>3. FramesOK' = FramesOK /\ CallOK' = CallOK /\ CopyOK' = CopyOK
    BY <2>1 DEF FramesOK, CallOK, CopyOK
  <2> QED BY <2>1, <2>2, <2>3 DEF IInv, Sound
<1> QED BY <1>1, <1>2

\* The inductive invariant holds in every state of every behaviour.
THEOREM TreesAreInductive == Spec => []IInv
<1>1. Init => IInv
  BY InitHasInv
<1>2. IInv /\ [Next]_vars => IInv'
  BY NextKeepsInv
<1> QED BY <1>1, <1>2, PTL DEF Spec

\* The trees of the holders are all that is in use.
LEMMA AllIsHeld ==
  ASSUME IInv, ~mem.fault
  PROVE  /\ Forest(mem, Holders, {}) /\ Held = InUse(mem) /\ mem \in Memory
         /\ Links(mem, Holders)
<1>1. Forest(mem, Holders, {})
  BY DEF IInv, Sound
<1> QED BY <1>1, AllIsBehind DEF Forest, Held, Tree

\* Lists are doubly linked, and only a call that starved can have faulted.
LEMMA SoundInInv ==
  ASSUME IInv
  PROVE  ListsAreSound
<1>1. ASSUME ~mem.fault
      PROVE  LinksAgree
  <2>1. Held = InUse(mem) /\ mem \in Memory /\ Links(mem, Holders)
    BY <1>1, AllIsHeld
  <2>2. \A p \in Held :
          /\ mem.item[p].next # NULL =>
               Live(mem, mem.item[p].next) /\ mem.item[mem.item[p].next].prev = p
          /\ mem.item[p].prev # NULL =>
               Live(mem, mem.item[p].prev) /\ mem.item[mem.item[p].prev].next = p
          /\ ~mem.item[p].reference /\ mem.item[p].child # NULL =>
               mem.item[mem.item[p].child].prev = NULL
    BY <2>1, LinkTypes DEF InUse
  <2>3. \A r \in Holders : mem.item[r].next = NULL /\ mem.item[r].prev = NULL
    BY <2>1 DEF Links
  <2> QED BY <2>2, <2>3 DEF LinksAgree
<1> QED BY <1>1 DEF ListsAreSound, IInv

\* Every item belongs to one list or to a holder.
LEMMA ItemsOwnedInInv ==
  ASSUME IInv
  PROVE  EveryItemIsOwned
<1> SUFFICES ASSUME ~mem.fault
             PROVE  EveryItemIsOwned
  BY DEF EveryItemIsOwned
<1>1. Held = InUse(mem) /\ mem \in Memory /\ Links(mem, Holders)
  BY AllIsHeld
<1>3. ASSUME NEW p \in InUse(mem)
      PROVE  /\ p \in Holders => \A q \in InUse(mem) : p \notin OwnChildren(mem, q)
             /\ p \notin Holders =>
                  \E q \in InUse(mem) :
                    \A r \in InUse(mem) : p \in OwnChildren(mem, r) <=> r = q
  BY <1>1, OneList, Zenon
<1> DEFINE List(q) == [of |-> q, items |-> Children(mem, q)]
           lists == {List(q) : q \in {q \in Held : ~mem.item[q].reference}}
           owners(p) == {l \in lists : p \in l.items}
           Of(p) == {q \in InUse(mem) : p \in OwnChildren(mem, q)}
<1>2. ASSUME NEW p \in Held
      PROVE  IF p \in Holders THEN owners(p) = {} ELSE Cardinality(owners(p)) = 1
  <2>1. owners(p) = {List(q) : q \in Of(p)}
    BY <1>1 DEF OwnChildren
  <2>2. /\ p \in Holders => Of(p) = {}
        /\ p \notin Holders => \E q : Of(p) = {q}
    <3>1. \A q : q \in Of(p) <=> q \in InUse(mem) /\ p \in OwnChildren(mem, q)
      OBVIOUS
    <3>2. p \in InUse(mem)
      BY <1>1
    <3> HIDE DEF Of, List
    <3>3. ASSUME p \in Holders
          PROVE  Of(p) = {}
      BY <3>1, <3>2, <3>3, <1>3
    <3>4. ASSUME p \notin Holders
          PROVE  \E q : Of(p) = {q}
      <4>1. PICK q \in InUse(mem) :
              \A r \in InUse(mem) : p \in OwnChildren(mem, r) <=> r = q
        BY <3>2, <3>4, <1>3
      <4>2. Of(p) = {q}
        BY <3>1, <4>1
      <4> QED BY <4>2
    <3> QED BY <3>3, <3>4
  <2> HIDE DEF Of, owners, List
  <2>3. CASE p \in Holders
    BY <2>1, <2>2, <2>3
  <2>4. CASE p \notin Holders
    <3>1. PICK q : Of(p) = {q}
      BY <2>2, <2>4
    <3>2. owners(p) = {List(q)}
      BY <2>1, <3>1
    <3>3. Cardinality({List(q)}) = 1
      BY FS_Singleton
    <3> QED BY <2>4, <3>2, <3>3
  <2> QED BY <2>3, <2>4
<1> QED BY <1>1, <1>2, Zenon DEF EveryItemIsOwned

\* Every string belongs to one item.
LEMMA TextsOwnedInInv ==
  ASSUME IInv
  PROVE  EveryTextIsOwned
<1> SUFFICES ASSUME ~mem.fault
             PROVE  EveryTextIsOwned
  BY DEF EveryTextIsOwned
<1>1. Held = InUse(mem) /\ Forest(mem, Holders, {}) /\ (~renamed => AllOwned(mem, {}))
  BY AllIsHeld DEF IInv, Sound
<1>2. /\ \A p \in Held :
           /\ OwnedTexts(mem.item[p]) \subseteq mem.text
           /\ OwnedValue(mem.item[p]) # NULL =>
                OwnedValue(mem.item[p]) # OwnedName(mem.item[p])
      /\ \A p, q \in Held :
           p # q => OwnedTexts(mem.item[p]) \cap OwnedTexts(mem.item[q]) = {}
  BY <1>1 DEF Forest, TextsOwned
<1>3. ~renamed => \A t \in mem.text : \E p \in Held : t \in OwnedTexts(mem.item[p])
  BY <1>1 DEF AllOwned
<1> QED BY <1>2, <1>3 DEF EveryTextIsOwned

\* The tree that a copy returns is all new, and it is like the original.
LEMMA CopiesInInv ==
  ASSUME IInv
  PROVE  CopyIsIdentical
<1> SUFFICES ASSUME ~mem.fault
             PROVE  CopyIsIdentical
  BY DEF CopyIsIdentical
<1>1. /\ Forest(mem, Holders, {}) /\ mem \in Memory /\ Links(mem, Holders)
      /\ FramesOK /\ CallOK /\ CopyOK /\ TypeOK
  BY AllIsHeld DEF IInv, Sound
<1>2. ASSUME pc # "client"
      PROVE  /\ \A j \in Items : Live(before, j) => mem.item[j] = before.item[j]
             /\ Forest(before, roots, {}) /\ Grown(before, mem)
  <2>1. Forest(before, roots, {}) /\ Grown(before, mem)
    BY <1>1, <1>2 DEF CallOK
  <2> QED BY <2>1 DEF Grown, InUse
<1>3. ASSUME pc = "failed", frames = <<>>
      PROVE  mem.item = before.item /\ mem.text = before.text
  <2>1. Holders = roots
    BY <1>3 DEF Holders
  <2>2. Forest(before, roots, {}) /\ Grown(before, mem)
    BY <1>2, <1>3
  <2>3. InUse(mem) = InUse(before) /\ mem.item = before.item
    BY <1>1, <2>1, <2>2, NothingIsNew DEF Grown
  <2>4. mem.text = before.text
    BY <2>2, <2>3 DEF Grown
  <2> QED BY <2>3, <2>4
<1>4. ASSUME pc = "return", origin # NoOrigin
      PROVE  /\ \A j \in Tree(Top.new) :
                  ~Live(before, j) /\ ~mem.item[j].reference /\ Alike(j)
             /\ mem.item[Top.new].next = NULL /\ mem.item[Top.new].prev = NULL
  <2> DEFINE x == frames[1].new
             made == InUse(mem) \ InUse(before)
  <2>1. /\ Copied(origin, before, mem, frames) /\ Len(frames) = 1 /\ frames[1].child = NULL
        /\ Forest(before, roots, {}) /\ Grown(before, mem)
        /\ \A k \in DOMAIN frames : frames[k].new \notin InUse(before)
        /\ Appending(mem, frames[1])
    <3>1. /\ Copied(origin, before, mem, frames) /\ Len(frames) = 1 /\ frames[1].child = NULL
          /\ \A k \in DOMAIN frames : frames[k].new \notin InUse(before)
          /\ \A k \in DOMAIN frames : Appending(mem, frames[k])
      BY <1>1, <1>4 DEF CopyOK, FramesOK, CallOK
    <3>2. 1 \in DOMAIN frames
      BY <1>1, <3>1 DEF TypeOK
    <3> QED BY <1>2, <1>4, <3>1, <3>2
  <2>2. DOMAIN frames = {1}
    BY <1>1, <2>1 DEF TypeOK
  <2>3. x \in Holders /\ x \notin InUse(before) /\ roots \subseteq Holders
    BY <2>1, <2>2 DEF Holders
  <2>4. mem.item[x].next = NULL /\ mem.item[x].prev = NULL
    BY <1>1, <2>3 DEF Links
  <2>5. Tree(x) \subseteq made
    <3>1. Behind(mem, x) \cap InUse(before) = {}
      BY <1>1, <2>1, <2>3, NewIsApart
    <3>2. Behind(mem, x) \subseteq InUse(mem)
      BY DEF Behind
    <3> QED BY <3>1, <3>2 DEF Tree
  <2>6. /\ \A j \in made : IsCopy(origin, before, mem, j)
        /\ \A j \in made \ {x} : Follows(origin, mem.item[j].child, before.item[origin[j]].child)
        /\ \A j \in made \ {x, frames[1].last} :
             Follows(origin, mem.item[j].next, before.item[origin[j]].next)
        /\ CopyingList(origin, before, mem, frames[1])
    <3>1. {frames[k].new : k \in DOMAIN frames} = {x}
          /\ {frames[k].last : k \in DOMAIN frames} = {frames[1].last}
      BY <2>2
    <3>2. 1 \in DOMAIN frames
      BY <2>2
    <3> QED BY <2>1, <3>1, <3>2 DEF Copied
  <2>7. \A j \in made : Follows(origin, mem.item[j].child, before.item[origin[j]].child)
    BY <2>1, <2>6 DEF CopyingList, Appending, Follows
  <2>8. \A j \in made \ {x} : Follows(origin, mem.item[j].next, before.item[origin[j]].next)
    <3>1. frames[1].last # NULL =>
            /\ mem.item[frames[1].last].next = NULL
            /\ before.item[origin[frames[1].last]].next = NULL
      BY <2>1, <2>6 DEF Appending, CopyingList
    <3>2. NULL \notin made
      BY AddressAssumption DEF InUse
    <3> QED BY <2>6, <3>1, <3>2 DEF Follows
  <2>9. ASSUME NEW j \in Tree(x)
        PROVE  ~Live(before, j) /\ ~mem.item[j].reference /\ Alike(j)
    <3>1. j \in made
      BY <2>5
    <3>2. ~Live(before, j)
      BY <3>1 DEF InUse, Live
    <3>3. IsCopy(origin, before, mem, j)
      BY <2>6, <3>1
    <3>4. mem.item[origin[j]] = before.item[origin[j]]
      BY <2>1, <3>3 DEF Grown, IsCopy
    <3>5. Follows(origin, mem.item[j].child, mem.item[origin[j]].child)
      BY <2>7, <3>1, <3>4
    <3>6. j # x => Follows(origin, mem.item[j].next, mem.item[origin[j]].next)
      BY <2>8, <3>1, <3>4
    <3>7. Top.new = x
      BY DEF Top
    <3>8. Alike(j)
      BY <3>3, <3>4, <3>5, <3>6, <3>7 DEF Alike, IsCopy, Follows
    <3> QED BY <3>2, <3>3, <3>8 DEF IsCopy
  <2> QED BY <2>4, <2>9 DEF Top
<1>5. pc \in {"copy", "failed", "return"} => pc # "client"
  OBVIOUS
<1> QED BY <1>2, <1>3, <1>4, <1>5 DEF CopyIsIdentical

\* Freed memory or NULL is used only by a call one of whose allocations has failed, and
\* every list can be walked both ways.
THEOREM SpecListsAreSound == Spec => []ListsAreSound
<1>1. IInv => ListsAreSound
  BY SoundInInv
<1> QED BY <1>1, TreesAreInductive, PTL

\* No item is lost, and none belongs to two lists.
THEOREM SpecEveryItemIsOwned == Spec => []EveryItemIsOwned
<1>1. IInv => EveryItemIsOwned
  BY ItemsOwnedInInv
<1> QED BY <1>1, TreesAreInductive, PTL

\* No string is lost, but for the new name of an item whose name was a constant.
THEOREM SpecEveryTextIsOwned == Spec => []EveryTextIsOwned
<1>1. IInv => EveryTextIsOwned
  BY TextsOwnedInInv
<1> QED BY <1>1, TreesAreInductive, PTL

\* A copy is like its original, in memory of its own, and one that fails leaves nothing.
THEOREM SpecCopyIsIdentical == Spec => []CopyIsIdentical
<1>1. IInv => CopyIsIdentical
  BY CopiesInInv
<1> QED BY <1>1, TreesAreInductive, PTL

-----------------------------------------------------------------------------
(* What the library itself builds                                          *)

\* The trees of the holders, and no string without an owner.
Holds(m, holders) == Forest(m, holders, {}) /\ AllOwned(m, {})

\* Who is in use stays so, and is made no reference.
Stays(m, w) ==
  \A q \in InUse(m) : q \in InUse(w) /\ w.item[q].reference = m.item[q].reference

\* Who owns what when p has been added to a.
After(holders, a, p) == IF a = NULL THEN holders \cup ({p} \ {NULL}) ELSE holders

\* An outcome keeps what holds.
LEMMA OutcomeHolds ==
  ASSUME NEW m, NEW holders, Holds(m, holders), NEW w, NEW after, Outcome(m, {}, w, after, {})
  PROVE  Holds(w, after) /\ w \in Memory /\ ~w.fault /\ (m.starved => w.starved)
BY DEF Outcome, Holds, Forest

\* A new item is one more holder.
LEMMA MadeHolds ==
  ASSUME NEW m, NEW holders, Holds(m, holders), NEW r, Made(m, r)
  PROVE  /\ Holds(r.mem, holders \cup ({r.ptr} \ {NULL})) /\ Stays(m, r.mem)
         /\ (m.starved => r.mem.starved) /\ (r.ptr = NULL => r.mem.starved)
         /\ r.ptr \in Address /\ r.ptr \notin holders
         /\ \A q \in InUse(m) : r.mem.item[q] = m.item[q]
<1>1. /\ Forest(m, holders, {}) /\ AllOwned(m, {}) /\ NULL \notin Items
      /\ holders \subseteq InUse(m)
  BY AddressAssumption DEF Holds, Forest, Links
<1>2. Holds(r.mem, holders \cup ({r.ptr} \ {NULL}))
      /\ InUse(r.mem) = InUse(m) \cup ({r.ptr} \ {NULL})
  BY <1>1, MadeForest DEF Holds
<1>3. /\ \A q \in InUse(m) : r.mem.item[q] = m.item[q]
      /\ r.ptr \in Address /\ r.ptr \notin InUse(m)
      /\ (m.starved => r.mem.starved) /\ (r.ptr = NULL => r.mem.starved)
  BY <1>1 DEF Made, Address, InUse
<1> QED BY <1>1, <1>2, <1>3 DEF Stays

\* A new item is added to an object, unless there is none of the two.
LEMMA AddsNew ==
  ASSUME NEW m, NEW holders, Holds(m, holders), NEW r, Made(m, r), NEW a,
         a # NULL => a \in InUse(m) /\ ~m.item[a].reference, r.ptr # NULL,
         NEW w, w = AddItemToObject(r.mem, a, LITERAL, r.ptr)
  PROVE  /\ Holds(w, After(holders, a, r.ptr)) /\ Stays(m, w) /\ w \in Memory /\ ~w.fault
         /\ m.starved => w.starved
<1> DEFINE x == r.ptr
           n == r.mem
           H == holders \cup {x}
<1>1. /\ Holds(n, H) /\ Stays(m, n) /\ (m.starved => n.starved) /\ x \notin holders
      /\ H = holders \cup ({x} \ {NULL})
  <2>1. H = holders \cup ({x} \ {NULL})
    OBVIOUS
  <2> QED BY <2>1, MadeHolds
<1>2. MayJoin(n, H, a, x)
  <2>1. ASSUME a # NULL
        PROVE  MayTake(n, H, a, x)
    BY <2>1, NewMayBeTaken DEF Holds
  <2> QED BY <2>1 DEF MayJoin
<1>3. Outcome(n, {}, w, Remaining(H, a, x), {}) /\ Kept(n, w)
  <2>1. Forest(n, H, {})
    BY <1>1 DEF Holds
  <2> HIDE DEF H, n, x
  <2> QED BY <1>2, <2>1, JoinForest DEF n, x
<1>4. Remaining(H, a, x) = After(holders, a, x)
  BY <1>1 DEF Remaining, After
<1>5. Holds(w, After(holders, a, x)) /\ w \in Memory /\ ~w.fault /\ (n.starved => w.starved)
  BY <1>1, <1>3, <1>4, OutcomeHolds
<1>6. Stays(m, w)
  BY <1>1, <1>3 DEF Stays, Kept, InUse, Live
<1> QED BY <1>1, <1>5, <1>6

\* And to an array; nothing happens if there is none of the two.
LEMMA AppendsNew ==
  ASSUME NEW m, NEW holders, Holds(m, holders), NEW r, Made(m, r), NEW a,
         a # NULL => a \in InUse(m) /\ ~m.item[a].reference,
         NEW w, w = AddItemToArray(r.mem, a, r.ptr)
  PROVE  /\ Holds(w, After(holders, a, r.ptr)) /\ Stays(m, w) /\ w \in Memory /\ ~w.fault
         /\ m.starved => w.starved
<1> DEFINE x == r.ptr
           n == r.mem
<1>1. /\ Holds(n, holders \cup ({x} \ {NULL})) /\ Stays(m, n) /\ (m.starved => n.starved)
      /\ x \notin holders
  BY MadeHolds
<1>2. CASE x = NULL \/ a = NULL
  <2>1. w = n
    BY <1>2 DEF AddItemToArray
  <2>2. After(holders, a, x) = holders \cup ({x} \ {NULL})
    BY <1>2 DEF After
  <2> QED BY <1>1, <2>1, <2>2 DEF Holds, Forest
<1>3. CASE x # NULL /\ a # NULL
  <2> DEFINE H == holders \cup {x}
  <2>1. MayTake(n, H, a, x) /\ H \ {x} = holders
    BY <1>3, NewMayBeTaken DEF Holds
  <2>2. Holds(n, H)
    <3>1. H = holders \cup ({x} \ {NULL})
      BY <1>3
    <3> QED BY <1>1, <3>1
  <2> HIDE DEF H
  <2>3. Outcome(n, {}, w, H \ {x}, {}) /\ Relinked(n, w, InUse(n))
    BY <2>1, <2>2, AppendForest DEF Holds
  <2>4. Holds(w, H \ {x}) /\ w \in Memory /\ ~w.fault /\ (n.starved => w.starved)
    BY <2>2, <2>3, OutcomeHolds
  <2>5. After(holders, a, x) = H \ {x}
    BY <1>3, <2>1 DEF After
  <2>6. Stays(m, w)
    BY <1>1, <2>3 DEF Stays, Relinked, InUse, Live
  <2> QED BY <1>1, <2>4, <2>5, <2>6
<1> QED BY <1>2, <1>3

\* What nothing but the call owns.
CallHolds ==
  (IF place = "done" THEN {}
   ELSE IF place = "answered" /\ task.extract THEN {response}
   ELSE IF place = "field" THEN {tree, members}
   ELSE {response, tree}) \ {NULL}

\* The trees of the call, and, when there was nothing to begin with, what is lost.
Standing ==
  \E lost : /\ Holds(heap, CallHolds \cup lost)
            /\ lost # {} => tree = NULL /\ place \notin {"parse", "begin"}

\* How far the call has come.
Phase ==
  /\ IF task.kind = "search"
       THEN /\ place \in {"parse", "begin", "match", "answered", "done"}
            /\ members = NULL /\ (place # "parse" => response # NULL)
       ELSE /\ place \in {"begin", "members", "field", "member", "built", "done"}
            /\ response = NULL /\ (task.members = NULL => members = NULL)
  /\ place \in {"parse", "begin"} => tree = NULL /\ element = NULL
  /\ place \in {"parse", "begin", "members"} => members = NULL
  /\ place \notin {"parse", "begin"} /\ tree = NULL => heap.starved
  /\ place = "members" => task.members # NULL
  /\ place = "answered" /\ ~task.extract => tree # NULL
  /\ place = "field" /\ task.members # NULL /\ members = NULL => heap.starved
  /\ response # NULL => response # tree
  /\ place = "field" /\ members # NULL => members # tree

\* What items are added to is in use, and is no reference.
MayGrow(p) == p \in InUse(heap) /\ ~heap.item[p].reference

\* The items that the call adds to, and the item of the document that it is at.
Growing ==
  /\ place \in {"parse", "begin"} /\ response # NULL => MayGrow(response)
  /\ place \in {"match", "members", "field"} /\ tree # NULL => MayGrow(tree)
  /\ place = "match" /\ element # NULL => element \in InUse(heap)
  /\ place = "field" /\ members # NULL => MayGrow(members)
  /\ place = "member" => MayGrow(members)

\* Nothing goes wrong unless an allocation has failed, and until then nothing but
\* the call owns what there is.
TaskInv ==
  /\ TaskOK /\ Clean(heap)
  /\ heap.fault => heap.starved
  /\ ~heap.fault => Phase /\ Growing /\ Standing

\* A step keeps the memory's type whatever it leaves.
LEMMA HeapTypes ==
  ASSUME NEW m \in Memory, Clean(m), HeapBecomes(m)
  PROVE  /\ MemoryOK(heap') /\ Clean(heap') /\ heap'.item = m.item /\ heap'.text = m.text
         /\ heap'.fault = m.fault /\ heap'.starved = m.starved
<1>1. /\ heap' \in Memory /\ heap'.item = m.item /\ heap'.text = m.text /\ heap'.budget = 0
      /\ heap'.fault = m.fault /\ heap'.starved = m.starved
  BY DEF HeapBecomes, Memory
<1> QED BY <1>1 DEF MemoryOK, Clean

\* And what holds.
LEMMA HeapHolds ==
  ASSUME NEW m, NEW holders, Holds(m, holders), HeapBecomes(m)
  PROVE  /\ Holds(heap', holders) /\ MemoryOK(heap') /\ Clean(heap') /\ heap'.item = m.item
         /\ ~heap'.fault /\ heap'.starved = m.starved /\ InUse(heap') = InUse(m)
<1>1. m \in Memory /\ Clean(m) /\ ~m.fault /\ Forest(m, holders, {}) /\ AllOwned(m, {})
  BY DEF Holds, Forest
<1>2. /\ MemoryOK(heap') /\ Clean(heap') /\ heap'.item = m.item /\ heap'.text = m.text
      /\ ~heap'.fault /\ heap'.starved = m.starved
  BY <1>1, HeapTypes
<1>3. heap' \in Memory
  BY <1>2 DEF MemoryOK
<1>4. Forest(heap', holders, {}) /\ AllOwned(heap', {})
  BY <1>1, <1>2, <1>3, SameForest
<1> QED BY <1>2, <1>4 DEF Holds, InUse, Live

\* More memory changes nothing.
LEMMA MoreHolds ==
  ASSUME NEW holders, Holds(heap, holders), NEW k \in Nat, NEW s, s = HeapWith(k)
  PROVE  /\ Holds(s, holders) /\ s \in Memory /\ s.item = heap.item /\ s.starved = heap.starved
         /\ InUse(s) = InUse(heap)
<1>1. heap \in Memory /\ Forest(heap, holders, {}) /\ AllOwned(heap, {}) /\ ~heap.fault
  BY DEF Holds, Forest
<1>2. s \in Memory /\ s.item = heap.item /\ s.text = heap.text /\ ~s.fault
      /\ s.starved = heap.starved
  BY <1>1 DEF HeapWith, Memory
<1>3. Holds(s, holders)
  BY <1>1, <1>2, SameForest DEF Holds
<1> QED BY <1>2, <1>3 DEF InUse, Live

\* What holds is memory, and the holders are items in use that lead to no other holder.
LEMMA HoldsTypes ==
  ASSUME NEW m, NEW holders, Holds(m, holders)
  PROVE  /\ m \in Memory /\ Clean(m) /\ ~m.fault /\ Links(m, holders)
         /\ holders \subseteq InUse(m) /\ NULL \notin InUse(m) /\ InUse(m) \subseteq Items
         /\ \A a, x \in holders : a # x => a \notin Behind(m, x)
<1>1. m \in Memory /\ Clean(m) /\ ~m.fault /\ Links(m, holders)
  BY DEF Holds, Forest
<1>2. holders \subseteq InUse(m) /\ NULL \notin InUse(m) /\ InUse(m) \subseteq Items
  BY <1>1, AddressAssumption DEF Links, InUse
<1>3. \A a, x \in holders : a # x => a \notin Behind(m, x)
  BY <1>1, BehindIsApart
<1> QED BY <1>1, <1>2, <1>3

\* A holder's tree is deleted.
LEMMA DeleteHolds ==
  ASSUME NEW m, NEW holders, Holds(m, holders), NEW x \in holders \cup {NULL},
         NEW w, w = Delete(m, x)
  PROVE  Holds(w, holders \ {x}) /\ (m.starved => w.starved)
<1>1. CASE x = NULL
  <2>1. w = m
    BY <1>1 DEF Delete
  <2>2. holders \ {x} = holders
    BY <1>1, HoldsTypes
  <2> QED BY <2>1, <2>2
<1>2. CASE x # NULL
  <2>1. Outcome(m, {}, w, holders \ {x}, {})
    BY <1>2, DeleteForest DEF Holds
  <2> QED BY <2>1, OutcomeHolds
<1> QED BY <1>1, <1>2

\* With an object or an array to begin with nothing is lost.
LEMMA NoneLost ==
  ASSUME TaskInv, ~heap.fault, tree # NULL \/ place \in {"parse", "begin"}
  PROVE  Holds(heap, CallHolds)
<1>1. PICK lost : /\ Holds(heap, CallHolds \cup lost)
                  /\ lost # {} => tree = NULL /\ place \notin {"parse", "begin"}
  BY DEF TaskInv, Standing
<1>2. CallHolds \cup lost = CallHolds
  BY <1>1
<1> QED BY <1>1, <1>2

\* What an action that has not used freed memory must show.
LEMMA TaskGoesOn ==
  ASSUME TaskInv, task' = task, NEW m, HeapBecomes(m), NEW holders, Holds(m, holders),
         NEW lost, holders = CallHolds' \cup lost,
         lost # {} => tree' = NULL /\ place' \notin {"parse", "begin"},
         Phase', Growing', {element', response', tree', members', answer'} \subseteq Items \cup {NULL},
         matching' \subseteq Items,
         rest' \in IF task.kind = "search" THEN Seq(BOOLEAN) ELSE Seq({"string", "other"})
  PROVE  TaskInv'
<1>1. Holds(heap', holders) /\ MemoryOK(heap') /\ Clean(heap') /\ ~heap'.fault
  BY HeapHolds
<1>2. Standing'
  BY <1>1 DEF Standing
<1>3. place' \in {"parse", "begin", "match", "answered", "members", "field", "member", "built",
                  "done"}
  BY DEF Phase
<1>4. TaskOK'
  BY <1>1, <1>3 DEF TaskInv, TaskOK
<1> QED BY <1>1, <1>2, <1>4 DEF TaskInv

\* And one that has, which only happens when an allocation has failed.
LEMMA TaskEnds ==
  ASSUME TaskInv, task' = task, NEW m \in Memory, Clean(m), HeapBecomes(m), m.starved,
         place' \in {"parse", "begin", "match", "answered", "members", "field", "member", "built",
                     "done"}, m.fault,
         {element', response', tree', members', answer'} \subseteq Items \cup {NULL},
         matching' \subseteq Items,
         rest' \in IF task.kind = "search" THEN Seq(BOOLEAN) ELSE Seq({"string", "other"})
  PROVE  TaskInv'
<1>1. MemoryOK(heap') /\ Clean(heap') /\ heap'.starved /\ heap'.fault
  BY HeapTypes
<1>2. TaskOK'
  BY <1>1 DEF TaskInv, TaskOK
<1> QED BY <1>1, <1>2 DEF TaskInv

\* The locals.
LEMMA TaskTypes ==
  ASSUME TaskInv
  PROVE  /\ element \in Address /\ response \in Address /\ tree \in Address
         /\ members \in Address /\ answer \in Address /\ matching \subseteq Items
         /\ rest \in IF task.kind = "search" THEN Seq(BOOLEAN) ELSE Seq({"string", "other"})
         /\ heap \in Memory /\ task \in Tasks /\ NULL \notin Items
BY AddressAssumption DEF TaskInv, TaskOK, Address, MemoryOK

\* What is left of a list is a list.
LEMMA RestIsList ==
  ASSUME NEW S, NEW s \in Seq(S), s # <<>>
  PROVE  Head(s) \in S /\ Tail(s) \in Seq(S)
OBVIOUS

\* The parser begins with the array.
LEMMA ParseArrayKeeps ==
  ASSUME TaskInv, ~heap.fault, ParseArray
  PROVE  TaskInv'
<1> DEFINE s == HeapWith(1)
           array == CreateItem(s)
           x == array.ptr
<1>1. /\ place = "parse" /\ response = NULL /\ x # NULL /\ HeapBecomes(array.mem)
      /\ response' = x
      /\ UNCHANGED <<task, place, rest, matching, element, tree, members, answer>>
  BY DEF ParseArray
<1>2. task.kind = "search" /\ tree = NULL /\ members = NULL /\ element = NULL
  BY <1>1 DEF TaskInv, Phase
<1>3. Holds(heap, {})
  <2>1. CallHolds = {}
    BY <1>1, <1>2 DEF CallHolds
  <2> QED BY <1>1, <2>1, NoneLost
<1>4. Holds(s, {}) /\ s \in Memory
  BY <1>3, MoreHolds
<1> HIDE DEF s
<1>5. Made(s, array) /\ Blank(array)
  BY <1>4, CreateItemMakes
<1> HIDE DEF array
<1>6. Holds(array.mem, {} \cup ({x} \ {NULL})) /\ x \in Address
  BY <1>4, <1>5, MadeHolds
<1>7. Holds(array.mem, {x}) /\ x \in Items
  <2>1. {} \cup ({x} \ {NULL}) = {x}
    BY <1>1
  <2> QED BY <1>1, <1>6, <2>1 DEF Address
<1>8. x \in InUse(heap') /\ ~heap'.item[x].reference
  <2>1. x \in InUse(array.mem) /\ ~array.mem.item[x].reference
    BY <1>1, <1>5, <1>7, HoldsTypes DEF Blank
  <2> QED BY <1>1, <1>7, <2>1, HeapHolds
<1>9. {x} = CallHolds' \cup {}
  BY <1>1, <1>2, <1>7 DEF CallHolds
<1>10. Phase' /\ Growing'
  BY <1>1, <1>2, <1>8 DEF Phase, Growing, MayGrow
<1>11. /\ {element', response', tree', members', answer'} \subseteq Items \cup {NULL}
       /\ matching' \subseteq Items /\ task' = task
       /\ rest' \in IF task.kind = "search" THEN Seq(BOOLEAN) ELSE Seq({"string", "other"})
  BY <1>1, <1>7, TaskTypes DEF Address
<1> HIDE DEF x
<1> QED BY <1>1, <1>7, <1>9, <1>10, <1>11, TaskGoesOn

\* It goes on with an object and its member.
LEMMA ParseObjectKeeps ==
  ASSUME TaskInv, ~heap.fault, ParseObject
  PROVE  TaskInv'
<1> DEFINE s == HeapWith(4)
           object == CreateItem(s)
           text == CreateString(object.mem)
           whole == AddItemToObject(text.mem, object.ptr, LITERAL, text.ptr)
           w == AddItemToArray(whole, response, object.ptr)
           x == object.ptr
<1>1. /\ place = "parse" /\ response # NULL /\ rest # <<>>
      /\ x # NULL /\ text.ptr # NULL /\ HeapBecomes(w)
      /\ matching' = matching \cup IF Head(rest) THEN {x} ELSE {}
      /\ rest' = Tail(rest)
      /\ UNCHANGED <<task, place, response, element, tree, members, answer>>
  BY DEF ParseObject
<1>2. /\ task.kind = "search" /\ tree = NULL /\ members = NULL /\ element = NULL
      /\ response \in InUse(heap) /\ ~heap.item[response].reference
  BY <1>1 DEF TaskInv, Phase, Growing, MayGrow
<1>3. Holds(heap, {response})
  <2>1. CallHolds = {response}
    BY <1>1, <1>2 DEF CallHolds
  <2> QED BY <1>1, <2>1, NoneLost
<1>4. Holds(s, {response}) /\ s \in Memory /\ s.item = heap.item /\ InUse(s) = InUse(heap)
  BY <1>3, MoreHolds
<1> HIDE DEF s
<1>5. Made(s, object) /\ Blank(object)
  BY <1>4, CreateItemMakes
<1> HIDE DEF object
<1>6. /\ Holds(object.mem, {response} \cup ({x} \ {NULL})) /\ x \in Address /\ x \notin {response}
      /\ Stays(s, object.mem)
  BY <1>4, <1>5, MadeHolds
<1>7. Holds(object.mem, {response, x}) /\ x \in Items /\ x # response
  <2>1. {response} \cup ({x} \ {NULL}) = {response, x}
    BY <1>1
  <2> QED BY <1>1, <1>6, <2>1 DEF Address
<1>8. x \in InUse(object.mem) /\ ~object.mem.item[x].reference
  BY <1>1, <1>5, <1>7, HoldsTypes DEF Blank
<1>9. Made(object.mem, text)
  BY <1>7, CreateStringMakes DEF Holds
<1> HIDE DEF text
<1>10. Holds(whole, After({response, x}, x, text.ptr)) /\ Stays(object.mem, whole)
  BY <1>1, <1>7, <1>8, <1>9, AddsNew
<1>11. Holds(whole, {response, x})
  BY <1>1, <1>10 DEF After
<1> HIDE DEF whole
<1>12. response \in InUse(whole) /\ ~whole.item[response].reference
  <2>1. response \in InUse(s) /\ ~s.item[response].reference
    BY <1>2, <1>4
  <2>2. response \in InUse(object.mem) /\ ~object.mem.item[response].reference
    BY <1>6, <2>1 DEF Stays
  <2> QED BY <1>10, <2>2 DEF Stays
<1>13. MayTake(whole, {response, x}, response, x)
  BY <1>7, <1>11, <1>12, HoldsTypes DEF MayTake
<1>14. Outcome(whole, {}, w, {response, x} \ {x}, {}) /\ Relinked(whole, w, InUse(whole))
  BY <1>11, <1>13, AppendForest DEF Holds
<1>15. Holds(w, {response})
  <2>1. {response, x} \ {x} = {response}
    BY <1>7
  <2> QED BY <1>11, <1>14, <2>1, OutcomeHolds
<1>16. response \in InUse(heap') /\ ~heap'.item[response].reference
  <2>1. response \in InUse(w) /\ ~w.item[response].reference
    BY <1>12, <1>14 DEF Relinked, InUse, Live
  <2> HIDE DEF w
  <2> QED BY <1>1, <1>15, <2>1, HeapHolds
<1> HIDE DEF w
<1>17. {response} = CallHolds' \cup {}
  BY <1>1, <1>2 DEF CallHolds
<1>18. Phase' /\ Growing'
  BY <1>1, <1>2, <1>16 DEF Phase, Growing, MayGrow
<1>19. /\ {element', response', tree', members', answer'} \subseteq Items \cup {NULL}
       /\ matching' \subseteq Items /\ task' = task
       /\ rest' \in IF task.kind = "search" THEN Seq(BOOLEAN) ELSE Seq({"string", "other"})
  <2>1. rest \in Seq(BOOLEAN)
    BY <1>2, TaskTypes
  <2>2. Tail(rest) \in Seq(BOOLEAN)
    BY <1>1, <2>1, RestIsList
  <2>3. matching \cup (IF Head(rest) THEN {x} ELSE {}) \subseteq Items
    BY <1>7, TaskTypes
  <2> QED BY <1>1, <1>2, <2>2, <2>3, TaskTypes DEF Address
<1> HIDE DEF x
<1> QED BY <1>1, <1>15, <1>17, <1>18, <1>19, TaskGoesOn

\* The document is complete.
LEMMA ParsedKeeps ==
  ASSUME TaskInv, ~heap.fault, Parsed
  PROVE  TaskInv'
<1>1. /\ place = "parse" /\ response # NULL /\ rest = <<>> /\ place' = "begin"
      /\ UNCHANGED <<task, heap, rest, document, element, tree, members, answer>>
  BY DEF Parsed
<1>2. task' = task /\ heap' = heap /\ matching' = matching /\ response' = response
      /\ element' = element /\ tree' = tree /\ members' = members /\ answer' = answer
      /\ rest' = rest
  BY <1>1 DEF document
<1>3. Phase' /\ Growing'
  BY <1>1, <1>2 DEF TaskInv, Phase, Growing, MayGrow
<1>4. Standing'
  BY <1>1, <1>2 DEF TaskInv, Standing, CallHolds
<1>5. TaskOK'
  BY <1>1, <1>2 DEF TaskInv, TaskOK
<1> QED BY <1>2, <1>3, <1>4, <1>5 DEF TaskInv

\* The fields are there, without members.
LEMMA FieldsDoneKeeps ==
  ASSUME TaskInv, ~heap.fault, FieldsDone
  PROVE  TaskInv'
<1>1. /\ place = "field" /\ task.members = NULL /\ place' = "built"
      /\ UNCHANGED <<task, heap, rest, document, element, tree, members, answer>>
  BY DEF FieldsDone
<1>2. task' = task /\ heap' = heap /\ matching' = matching /\ response' = response
      /\ element' = element /\ tree' = tree /\ members' = members /\ answer' = answer
      /\ rest' = rest
  BY <1>1 DEF document
<1>3. Phase' /\ Growing' /\ response = NULL /\ members = NULL
  BY <1>1, <1>2 DEF TaskInv, Phase, Growing
<1>4. Standing'
  <2>1. CallHolds' = CallHolds
    BY <1>1, <1>2, <1>3 DEF CallHolds
  <2> QED BY <1>1, <1>2, <2>1 DEF TaskInv, Standing
<1>5. TaskOK'
  BY <1>1, <1>2 DEF TaskInv, TaskOK
<1> QED BY <1>2, <1>3, <1>4, <1>5 DEF TaskInv

\* The members are there.
LEMMA MembersDoneKeeps ==
  ASSUME TaskInv, ~heap.fault, MembersDone
  PROVE  TaskInv'
<1>1. /\ place = "member" /\ place' = "built"
      /\ UNCHANGED <<task, heap, rest, document, element, tree, members, answer>>
  BY DEF MembersDone
<1>2. task' = task /\ heap' = heap /\ matching' = matching /\ response' = response
      /\ element' = element /\ tree' = tree /\ members' = members /\ answer' = answer
      /\ rest' = rest
  BY <1>1 DEF document
<1>3. Phase' /\ Growing'
  BY <1>1, <1>2 DEF TaskInv, Phase, Growing
<1>4. Standing'
  <2>1. CallHolds' = CallHolds
    BY <1>1, <1>2 DEF CallHolds
  <2> QED BY <1>1, <1>2, <2>1 DEF TaskInv, Standing
<1>5. TaskOK'
  BY <1>1, <1>2 DEF TaskInv, TaskOK
<1> QED BY <1>2, <1>3, <1>4, <1>5 DEF TaskInv

\* The array of the matches, or the object, is made.
LEMMA BeginKeeps ==
  ASSUME TaskInv, ~heap.fault, Begin
  PROVE  TaskInv'
<1>1. /\ place = "begin"
      /\ \E k \in Budgets :
           LET new == CreateItem(HeapWith(k)) IN HeapBecomes(new.mem) /\ tree' = new.ptr
      /\ IF task.kind = "search"
           THEN place' = "match" /\ element' = heap.item[response].child
           ELSE place' = (IF task.members = NULL THEN "field" ELSE "members") /\ element' = element
      /\ task' = task /\ rest' = rest /\ matching' = matching /\ response' = response
      /\ members' = members /\ answer' = answer
  BY DEF Begin, document
<1>2. PICK k \in Budgets :
        LET new == CreateItem(HeapWith(k)) IN HeapBecomes(new.mem) /\ tree' = new.ptr
  BY <1>1
<1> DEFINE s == HeapWith(k)
           new == CreateItem(s)
           x == new.ptr
           H == {response} \ {NULL}
<1>3. tree = NULL /\ members = NULL /\ element = NULL
  BY <1>1 DEF TaskInv, Phase
<1>4. Holds(heap, H)
  <2>1. CallHolds = H
    BY <1>1, <1>3 DEF CallHolds
  <2> QED BY <1>1, <2>1, NoneLost
<1>5. Holds(s, H) /\ s \in Memory /\ s.item = heap.item /\ InUse(s) = InUse(heap)
  <2>1. k \in Nat
    BY BudgetsAssumption
  <2> QED BY <1>4, <2>1, MoreHolds
<1> HIDE DEF s
<1>6. Made(s, new) /\ Blank(new)
  BY <1>5, CreateItemMakes
<1>7. HeapBecomes(new.mem) /\ tree' = x
  BY <1>2 DEF s
<1> HIDE DEF new
<1>8. /\ Holds(new.mem, H \cup ({x} \ {NULL})) /\ Stays(s, new.mem) /\ x \in Address
      /\ x \notin H /\ (x = NULL => new.mem.starved)
  BY <1>5, <1>6, MadeHolds
<1>9. /\ InUse(heap') = InUse(new.mem) /\ heap'.item = new.mem.item
      /\ heap'.starved = new.mem.starved
  BY <1>7, <1>8, HeapHolds
<1>10. x # NULL => x \in InUse(heap') /\ ~heap'.item[x].reference
  <2>1. x # NULL => x \in InUse(new.mem) /\ ~new.mem.item[x].reference
    BY <1>6, <1>8, HoldsTypes DEF Blank
  <2> QED BY <1>9, <2>1
<1>11. task.kind = "search" =>
         /\ heap.item[response].child \in Address
         /\ heap.item[response].child # NULL => heap.item[response].child \in InUse(heap')
  <2>1. ASSUME task.kind = "search"
        PROVE  response \in InUse(heap) /\ ~heap.item[response].reference
    BY <1>1, <2>1 DEF TaskInv, Phase, Growing, MayGrow
  <2>2. heap \in Memory /\ Links(heap, H)
    BY <1>4, HoldsTypes
  <2>3. task.kind = "search" =>
          /\ heap.item[response].child \in Address
          /\ heap.item[response].child # NULL => heap.item[response].child \in InUse(heap)
    BY <2>1, <2>2, LinkTypes
  <2> QED BY <1>5, <1>8, <1>9, <2>3 DEF Stays
<1>12. x # response \/ response = NULL
  BY <1>8
<1>13. H \cup ({x} \ {NULL}) = CallHolds' \cup {}
  BY <1>1, <1>3, <1>7 DEF CallHolds, TaskInv, Phase
<1> HIDE DEF x, H
<1>14. Phase'
  BY <1>1, <1>3, <1>7, <1>8, <1>9, <1>12 DEF TaskInv, Phase
<1>15. Growing'
  <2>1. tree' # NULL => MayGrow(tree)'
    BY <1>7, <1>10 DEF MayGrow
  <2> QED BY <1>1, <1>3, <1>7, <1>11, <2>1 DEF Growing, TaskInv, Phase
<1>16. /\ {element', response', tree', members', answer'} \subseteq Items \cup {NULL}
       /\ matching' \subseteq Items
       /\ rest' \in IF task.kind = "search" THEN Seq(BOOLEAN) ELSE Seq({"string", "other"})
  BY <1>1, <1>7, <1>8, <1>11, TaskTypes DEF Address
<1> QED BY <1>1, <1>7, <1>8, <1>13, <1>14, <1>15, <1>16, TaskGoesOn

\* Why everything is well when nothing has been made: a process that goes on
\* without the array or the object only adds to what is lost.
Covers(holders, holds) ==
  \E kept : holders = holds \cup kept /\ (kept # {} => tree = NULL)

\* An item that is added to nothing is lost, and any other has a holder.
LEMMA AfterHolds ==
  ASSUME NEW lost, NEW holds, lost # {} => tree = NULL, NEW p
  PROVE  Covers(After(holds \cup lost, tree, p), holds)
<1>1. CASE tree = NULL
  <2>1. After(holds \cup lost, tree, p) = holds \cup (lost \cup ({p} \ {NULL}))
    BY <1>1 DEF After
  <2> QED BY <1>1, <2>1 DEF Covers
<1>2. CASE tree # NULL
  <2>1. After(holds \cup lost, tree, p) = holds \cup lost
    BY <1>2 DEF After
  <2> QED BY <1>2, <2>1 DEF Covers
<1> QED BY <1>1, <1>2

\* A match is added to the array, or passed by.
LEMMA AddMatchKeeps ==
  ASSUME TaskInv, ~heap.fault, AddMatch
  PROVE  TaskInv'
<1>1. /\ place = "match" /\ element # NULL
      /\ IF element \in matching
           THEN \E k \in Budgets :
                  LET new == CreateReference(HeapWith(k), element)
                  IN  HeapBecomes(AddItemToArray(new.mem, tree, new.ptr))
           ELSE heap' = heap
      /\ element' = heap.item[element].next
      /\ task' = task /\ place' = place /\ rest' = rest /\ matching' = matching
      /\ response' = response /\ tree' = tree /\ members' = members /\ answer' = answer
  BY DEF AddMatch, document
<1>2. /\ Phase /\ Growing /\ Standing /\ element \in InUse(heap)
      /\ tree # NULL => tree \in InUse(heap) /\ ~heap.item[tree].reference
  BY <1>1 DEF TaskInv, Growing, MayGrow
<1>3. PICK lost : Holds(heap, CallHolds \cup lost) /\ (lost # {} => tree = NULL)
  BY <1>2 DEF Standing
<1> DEFINE H == CallHolds \cup lost
<1>4. heap.item[element].next \in Address
      /\ (heap.item[element].next # NULL => heap.item[element].next \in InUse(heap))
  <2>1. heap \in Memory /\ Links(heap, H)
    BY <1>3, HoldsTypes
  <2> QED BY <1>2, <2>1, LinkTypes
<1>5. \E m, kept : /\ HeapBecomes(m) /\ Holds(m, CallHolds \cup kept) /\ (kept # {} => tree = NULL)
                   /\ Stays(heap, m) /\ (heap.starved => m.starved)
  <2>1. CASE element \in matching
    <3>1. PICK k \in Budgets :
            LET new == CreateReference(HeapWith(k), element)
            IN  HeapBecomes(AddItemToArray(new.mem, tree, new.ptr))
      BY <1>1, <2>1
    <3> DEFINE s == HeapWith(k)
               new == CreateReference(s, element)
               w == AddItemToArray(new.mem, tree, new.ptr)
    <3>2. /\ Holds(s, H) /\ s \in Memory /\ s.item = heap.item /\ s.starved = heap.starved
          /\ InUse(s) = InUse(heap)
      <4>1. k \in Nat
        BY BudgetsAssumption
      <4> QED BY <1>3, <4>1, MoreHolds
    <3>3. HeapBecomes(w)
      BY <3>1
    <3> HIDE DEF s, H
    <3>4. Made(s, new)
      BY <1>2, <3>2, CreateReferenceMakes
    <3> HIDE DEF new
    <3>5. tree # NULL => tree \in InUse(s) /\ ~s.item[tree].reference
      BY <1>2, <3>2
    <3>6. Holds(w, After(H, tree, new.ptr)) /\ Stays(s, w) /\ (s.starved => w.starved)
      BY <3>2, <3>4, <3>5, AppendsNew
    <3>7. PICK kept : After(H, tree, new.ptr) = CallHolds \cup kept /\ (kept # {} => tree = NULL)
      <4>1. Covers(After(CallHolds \cup lost, tree, new.ptr), CallHolds)
        BY <1>3, AfterHolds
      <4> QED BY <4>1 DEF H, Covers
    <3>8. Stays(heap, w) /\ (heap.starved => w.starved)
      BY <3>2, <3>6 DEF Stays
    <3>9. Holds(w, CallHolds \cup kept)
      BY <3>6, <3>7
    <3> HIDE DEF w
    <3> QED BY <3>3, <3>7, <3>8, <3>9
  <2>2. CASE element \notin matching
    <3>1. heap' = heap
      BY <1>1, <2>2
    <3>2. heap \in Memory /\ heap.budget = 0 /\ Clean(heap)
      BY DEF TaskInv, TaskOK, MemoryOK
    <3>3. HeapBecomes(heap)
      BY <3>1, <3>2 DEF HeapBecomes, Memory
    <3>4. Stays(heap, heap)
      BY DEF Stays
    <3> QED BY <1>3, <3>3, <3>4
  <2> QED BY <2>1, <2>2
<1>6. PICK m, kept : /\ HeapBecomes(m) /\ Holds(m, CallHolds \cup kept)
                     /\ (kept # {} => tree = NULL)
                     /\ Stays(heap, m) /\ (heap.starved => m.starved)
  BY <1>5
<1>7. heap'.item = m.item /\ heap'.starved = m.starved /\ InUse(heap') = InUse(m)
  BY <1>6, HeapHolds
<1>8. CallHolds' = CallHolds
  BY <1>1 DEF CallHolds
<1>9. Phase'
  BY <1>1, <1>2, <1>6, <1>7 DEF Phase
<1>10. Growing'
  <2>1. tree # NULL => MayGrow(tree)'
    BY <1>1, <1>2, <1>6, <1>7 DEF MayGrow, Stays
  <2>2. element' # NULL => element' \in InUse(heap')
    BY <1>1, <1>4, <1>6, <1>7 DEF Stays
  <2> QED BY <1>1, <2>1, <2>2 DEF Growing
<1>11. /\ {element', response', tree', members', answer'} \subseteq Items \cup {NULL}
       /\ matching' \subseteq Items
       /\ rest' \in IF task.kind = "search" THEN Seq(BOOLEAN) ELSE Seq({"string", "other"})
  BY <1>1, <1>4, TaskTypes DEF Address
<1>12. CallHolds \cup kept = CallHolds' \cup kept
       /\ (kept # {} => tree' = NULL /\ place' \notin {"parse", "begin"})
  BY <1>1, <1>6, <1>8
<1> QED BY <1>1, <1>6, <1>9, <1>10, <1>11, <1>12, TaskGoesOn

\* The single match is read and the array deleted.
LEMMA ExtractKeeps ==
  ASSUME TaskInv, ~heap.fault, ExtractSingleResult
  PROVE  TaskInv'
<1> DEFINE w == Delete(heap, tree)
<1>1. /\ place = "match" /\ element = NULL /\ task.extract /\ answer' = Single /\ HeapBecomes(w)
      /\ place' = "answered"
      /\ task' = task /\ rest' = rest /\ matching' = matching /\ response' = response
      /\ element' = element /\ tree' = tree /\ members' = members
  BY DEF ExtractSingleResult, document
<1>2. Phase /\ Growing /\ Standing
  BY DEF TaskInv
<1>3. PICK lost : Holds(heap, CallHolds \cup lost) /\ (lost # {} => tree = NULL)
  BY <1>2 DEF Standing
<1> DEFINE H == CallHolds \cup lost
<1>4. tree \in H \cup {NULL} /\ response # tree /\ CallHolds' = {response} \ {NULL}
  BY <1>1, <1>2 DEF CallHolds, Phase
<1>5. Holds(w, H \ {tree}) /\ (heap.starved => w.starved)
  <2>1. Holds(heap, H)
    BY <1>3
  <2> HIDE DEF H
  <2> QED BY <1>4, <2>1, DeleteHolds
<1>6. PICK kept : H \ {tree} = CallHolds' \cup kept /\ (kept # {} => tree = NULL)
  <2>1. H \ {tree} = CallHolds' \cup (lost \ {tree})
    BY <1>1, <1>4 DEF CallHolds
  <2> QED BY <1>3, <2>1
<1>7. Single \in Address
  <2>1. CASE Cardinality(Matches) = 1
    <3>1. Matches # {}
      BY <2>1, FS_EmptySet
    <3>2. Matches \subseteq Items
      BY DEF Matches, Children, InUse
    <3>3. (CHOOSE p \in Matches : TRUE) \in Items
      BY <3>1, <3>2
    <3>4. \A p \in Items : heap.item[p].ref \in Address
      BY TaskTypes DEF Memory, Nodes
    <3> QED BY <2>1, <3>3, <3>4 DEF Single
  <2>2. CASE Cardinality(Matches) # 1
    BY <2>2 DEF Single, Address
  <2> QED BY <2>1, <2>2
<1>8. heap'.starved = w.starved
  BY <1>1, <1>5, HeapHolds
<1> HIDE DEF w
<1>9. Phase' /\ Growing'
  BY <1>1, <1>2, <1>5, <1>8 DEF Phase, Growing
<1>10. /\ {element', response', tree', members', answer'} \subseteq Items \cup {NULL}
       /\ matching' \subseteq Items
       /\ rest' \in IF task.kind = "search" THEN Seq(BOOLEAN) ELSE Seq({"string", "other"})
  BY <1>1, <1>7, TaskTypes DEF Address
<1>11. kept # {} => tree' = NULL /\ place' \notin {"parse", "begin"}
  BY <1>1, <1>6
<1> QED BY <1>1, <1>5, <1>6, <1>9, <1>10, <1>11, TaskGoesOn

\* The matches are walked through.
LEMMA WalkKeeps ==
  ASSUME TaskInv, ~heap.fault, Walk
  PROVE  TaskInv'
<1>1. /\ place = "match" /\ element = NULL /\ ~task.extract
      /\ HeapBecomes(IF tree = NULL THEN Fault(heap) ELSE heap) /\ place' = "answered"
      /\ task' = task /\ rest' = rest /\ matching' = matching /\ response' = response
      /\ element' = element /\ tree' = tree /\ members' = members /\ answer' = answer
  BY DEF Walk, document
<1>2. Phase /\ Growing /\ Standing /\ heap \in Memory /\ Clean(heap)
  BY DEF TaskInv, TaskOK, MemoryOK
<1>3. /\ {element', response', tree', members', answer'} \subseteq Items \cup {NULL}
      /\ matching' \subseteq Items
      /\ rest' \in IF task.kind = "search" THEN Seq(BOOLEAN) ELSE Seq({"string", "other"})
  BY <1>1, TaskTypes DEF Address
<1>4. CASE tree = NULL
  <2>1. heap.starved
    BY <1>1, <1>2, <1>4 DEF Phase
  <2> DEFINE w == Fault(heap)
  <2>2. w \in Memory /\ w.item = heap.item /\ w.fault /\ w.starved
    BY <1>2, <2>1 DEF Fault, Memory
  <2>3. Clean(w) /\ HeapBecomes(w)
    BY <1>1, <1>2, <1>4, <2>2 DEF Clean
  <2> HIDE DEF w
  <2> QED BY <1>1, <1>3, <2>2, <2>3, TaskEnds
<1>5. CASE tree # NULL
  <2>1. Holds(heap, CallHolds) /\ HeapBecomes(heap)
    BY <1>1, <1>5, NoneLost
  <2>2. CallHolds = CallHolds' \cup {}
    BY <1>1 DEF CallHolds
  <2>3. heap'.starved = heap.starved
    BY <2>1, HeapHolds
  <2>4. Phase' /\ Growing'
    BY <1>1, <1>2, <1>5, <2>3 DEF Phase, Growing
  <2> QED BY <1>1, <1>3, <2>1, <2>2, <2>4, TaskGoesOn
<1> QED BY <1>4, <1>5

\* The document is deleted, and then the references to its items.
LEMMA CleanupKeeps ==
  ASSUME TaskInv, ~heap.fault, Cleanup
  PROVE  TaskInv'
<1> DEFINE d == Delete(heap, response)
           w == IF task.extract \/ d.fault THEN d ELSE Delete(d, tree)
<1>1. /\ place = "answered" /\ HeapBecomes(w) /\ place' = "done"
      /\ task' = task /\ rest' = rest /\ matching' = matching /\ response' = response
      /\ element' = element /\ tree' = tree /\ members' = members /\ answer' = answer
  BY DEF Cleanup, document
<1>2. Phase /\ Growing /\ Standing
  BY DEF TaskInv
<1>3. PICK lost : Holds(heap, CallHolds \cup lost) /\ (lost # {} => tree = NULL)
  BY <1>2 DEF Standing
<1> DEFINE H == CallHolds \cup lost
<1>4. response \in H /\ response # tree /\ CallHolds' = {}
  BY <1>1, <1>2 DEF CallHolds, Phase
<1>5. Holds(d, H \ {response}) /\ (heap.starved => d.starved)
  <2>1. Holds(heap, H)
    BY <1>3
  <2> HIDE DEF H
  <2> QED BY <1>4, <2>1, DeleteHolds
<1>6. ~d.fault
  BY <1>5, HoldsTypes
<1> HIDE DEF d
<1>7. PICK kept : Holds(w, kept) /\ (heap.starved => w.starved) /\ (kept # {} => tree = NULL)
  <2>1. CASE task.extract
    <3>1. w = d
      BY <2>1
    <3>2. H \ {response} # {} => tree = NULL
      BY <1>1, <1>3, <1>4, <2>1 DEF CallHolds
    <3> QED BY <1>5, <3>1, <3>2
  <2>2. CASE ~task.extract
    <3>1. w = Delete(d, tree) /\ tree # NULL
      BY <1>1, <1>2, <1>6, <2>2 DEF Phase
    <3>2. H \ {response} = {tree}
      BY <1>1, <1>3, <1>4, <2>2, <3>1 DEF CallHolds
    <3>3. Holds(d, {tree})
      BY <1>5, <3>2
    <3>4. Holds(w, {tree} \ {tree}) /\ (d.starved => w.starved)
      <4> HIDE DEF w
      <4> QED BY <3>1, <3>3, DeleteHolds
    <3>5. {tree} \ {tree} = {}
      OBVIOUS
    <3> QED BY <1>5, <3>4, <3>5
  <2> QED BY <2>1, <2>2
<1> HIDE DEF w
<1>8. heap'.starved = w.starved
  BY <1>1, <1>7, HeapHolds
<1>9. Phase' /\ Growing'
  BY <1>1, <1>2, <1>7, <1>8 DEF Phase, Growing
<1>10. /\ {element', response', tree', members', answer'} \subseteq Items \cup {NULL}
       /\ matching' \subseteq Items
       /\ rest' \in IF task.kind = "search" THEN Seq(BOOLEAN) ELSE Seq({"string", "other"})
  BY <1>1, TaskTypes DEF Address
<1>11. kept = CallHolds' \cup kept
       /\ (kept # {} => tree' = NULL /\ place' \notin {"parse", "begin"})
  BY <1>1, <1>4, <1>7
<1> QED BY <1>1, <1>7, <1>9, <1>10, <1>11, TaskGoesOn

\* The array for the members is made.
LEMMA CreateMembersKeeps ==
  ASSUME TaskInv, ~heap.fault, CreateMembers
  PROVE  TaskInv'
<1>1. /\ place = "members" /\ place' = "field"
      /\ \E k \in Budgets :
           LET new == CreateItem(HeapWith(k)) IN HeapBecomes(new.mem) /\ members' = new.ptr
      /\ task' = task /\ rest' = rest /\ matching' = matching /\ response' = response
      /\ element' = element /\ tree' = tree /\ answer' = answer
  BY DEF CreateMembers, document
<1>2. PICK k \in Budgets :
        LET new == CreateItem(HeapWith(k)) IN HeapBecomes(new.mem) /\ members' = new.ptr
  BY <1>1
<1> DEFINE s == HeapWith(k)
           new == CreateItem(s)
           x == new.ptr
<1>3. /\ Phase /\ Growing /\ Standing /\ response = NULL /\ members = NULL
      /\ task.kind # "search" /\ task.members # NULL
      /\ tree # NULL => tree \in InUse(heap) /\ ~heap.item[tree].reference
  BY <1>1 DEF TaskInv, Phase, Growing, MayGrow
<1>4. PICK lost : Holds(heap, CallHolds \cup lost) /\ (lost # {} => tree = NULL)
  BY <1>3 DEF Standing
<1> DEFINE H == CallHolds \cup lost
<1>5. /\ Holds(s, H) /\ s \in Memory /\ s.item = heap.item /\ InUse(s) = InUse(heap)
      /\ s.starved = heap.starved
  <2>1. k \in Nat
    BY BudgetsAssumption
  <2> QED BY <1>4, <2>1, MoreHolds
<1>6. HeapBecomes(new.mem) /\ members' = x
  BY <1>2
<1> HIDE DEF s
<1>7. Made(s, new) /\ Blank(new)
  BY <1>5, CreateItemMakes
<1> HIDE DEF new
<1>8. /\ Holds(new.mem, H \cup ({x} \ {NULL})) /\ Stays(s, new.mem) /\ x \in Address
      /\ x \notin H /\ (x = NULL => new.mem.starved) /\ (s.starved => new.mem.starved)
  BY <1>5, <1>7, MadeHolds
<1>9. /\ InUse(heap') = InUse(new.mem) /\ heap'.item = new.mem.item
      /\ heap'.starved = new.mem.starved
  BY <1>6, <1>8, HeapHolds
<1>10. x # NULL => x \in InUse(heap') /\ ~heap'.item[x].reference
  <2>1. x # NULL => x \in InUse(new.mem) /\ ~new.mem.item[x].reference
    BY <1>7, <1>8, HoldsTypes DEF Blank
  <2> QED BY <1>9, <2>1
<1>11. x = NULL \/ x # tree
  BY <1>1, <1>8 DEF CallHolds
<1>12. H \cup ({x} \ {NULL}) = CallHolds' \cup lost
  BY <1>1, <1>3, <1>6 DEF CallHolds
<1> HIDE DEF x, H
<1>13. Phase'
  BY <1>1, <1>3, <1>5, <1>6, <1>8, <1>9, <1>11 DEF Phase, TaskInv
<1>14. Growing'
  <2>1. members' # NULL => MayGrow(members)'
    BY <1>6, <1>10 DEF MayGrow
  <2>2. tree' # NULL => MayGrow(tree)'
    BY <1>1, <1>3, <1>5, <1>8, <1>9 DEF MayGrow, Stays
  <2> QED BY <1>1, <2>1, <2>2 DEF Growing
<1>15. /\ {element', response', tree', members', answer'} \subseteq Items \cup {NULL}
       /\ matching' \subseteq Items
       /\ rest' \in IF task.kind = "search" THEN Seq(BOOLEAN) ELSE Seq({"string", "other"})
  BY <1>1, <1>6, <1>8, TaskTypes DEF Address
<1>16. lost # {} => tree' = NULL /\ place' \notin {"parse", "begin"}
  BY <1>1, <1>4
<1> QED BY <1>1, <1>6, <1>8, <1>12, <1>13, <1>14, <1>15, <1>16, TaskGoesOn

\* A field is added to the object.
LEMMA AddFieldKeeps ==
  ASSUME TaskInv, ~heap.fault, AddField
  PROVE  TaskInv'
<1>1. /\ place = "field" /\ rest # <<>> /\ place' = place /\ rest' = Tail(rest)
      /\ \E k \in Budgets :
           LET new == Element(HeapWith(k), Head(rest) = "string")
           IN  HeapBecomes(AddItemToObject(new.mem, tree, LITERAL, new.ptr))
      /\ task' = task /\ matching' = matching /\ response' = response
      /\ element' = element /\ tree' = tree /\ members' = members /\ answer' = answer
  BY DEF AddField, document
<1>2. PICK k \in Budgets :
        LET new == Element(HeapWith(k), Head(rest) = "string")
        IN  HeapBecomes(AddItemToObject(new.mem, tree, LITERAL, new.ptr))
  BY <1>1
<1> DEFINE s == HeapWith(k)
           new == Element(s, Head(rest) = "string")
           w == AddItemToObject(new.mem, tree, LITERAL, new.ptr)
<1>3. /\ Phase /\ Growing /\ Standing /\ task.kind # "search"
      /\ tree # NULL => tree \in InUse(heap) /\ ~heap.item[tree].reference
      /\ members # NULL => members \in InUse(heap) /\ ~heap.item[members].reference
  BY <1>1 DEF TaskInv, Phase, Growing, MayGrow
<1>4. PICK lost : Holds(heap, CallHolds \cup lost) /\ (lost # {} => tree = NULL)
  BY <1>3 DEF Standing
<1> DEFINE H == CallHolds \cup lost
<1>5. /\ Holds(s, H) /\ s \in Memory /\ s.item = heap.item /\ InUse(s) = InUse(heap)
      /\ s.starved = heap.starved
  <2>1. k \in Nat
    BY BudgetsAssumption
  <2> QED BY <1>4, <2>1, MoreHolds
<1>6. HeapBecomes(w)
  BY <1>2
<1> HIDE DEF s
<1>7. Made(s, new)
  <2>1. CASE Head(rest) = "string"
    BY <1>5, <2>1, CreateStringMakes DEF Element, Holds
  <2>2. CASE Head(rest) # "string"
    BY <1>5, <2>2, CreateItemMakes DEF Element
  <2> QED BY <2>1, <2>2
<1> HIDE DEF new
<1>8. /\ {element', response', tree', members', answer'} \subseteq Items \cup {NULL}
      /\ matching' \subseteq Items
      /\ rest' \in IF task.kind = "search" THEN Seq(BOOLEAN) ELSE Seq({"string", "other"})
  <2>1. Tail(rest) \in Seq({"string", "other"})
    BY <1>1, <1>3, TaskTypes, RestIsList
  <2> QED BY <1>1, <1>3, <2>1, TaskTypes DEF Address
<1>9. CASE new.ptr = NULL
  <2>1. /\ Holds(new.mem, H \cup ({new.ptr} \ {NULL})) /\ new.mem.starved
    BY <1>5, <1>7, <1>9, MadeHolds
  <2>2. new.mem \in Memory /\ Clean(new.mem)
    BY <2>1, HoldsTypes
  <2>3. Ruined(new.mem, w)
    BY <1>9, <2>2, AddNull
  <2>4. w \in Memory /\ Clean(w) /\ w.fault /\ w.starved
    BY <2>1, <2>3 DEF Ruined
  <2> HIDE DEF w
  <2> QED BY <1>1, <1>6, <1>8, <2>4, TaskEnds DEF TaskInv, TaskOK
<1>10. CASE new.ptr # NULL
  <2>1. tree # NULL => tree \in InUse(s) /\ ~s.item[tree].reference
    BY <1>3, <1>5
  <2> DEFINE after == After(H, tree, new.ptr)
  <2>2. Holds(w, after) /\ Stays(s, w) /\ (s.starved => w.starved)
    <3> HIDE DEF H
    <3> QED BY <1>5, <1>7, <1>10, <2>1, AddsNew
  <2> HIDE DEF w
  <2>3. PICK kept : after = CallHolds \cup kept /\ (kept # {} => tree = NULL)
    <3>1. Covers(After(CallHolds \cup lost, tree, new.ptr), CallHolds)
      BY <1>4, AfterHolds
    <3> QED BY <3>1 DEF Covers
  <2>4. /\ InUse(heap') = InUse(w) /\ heap'.item = w.item /\ heap'.starved = w.starved
    BY <1>6, <2>2, HeapHolds
  <2>5. CallHolds' = CallHolds
    BY <1>1 DEF CallHolds
  <2>6. Phase'
    BY <1>1, <1>3, <1>5, <2>2, <2>4 DEF Phase
  <2>7. Growing'
    <3>1. tree # NULL => MayGrow(tree)'
      BY <1>1, <2>1, <2>2, <2>4 DEF MayGrow, Stays
    <3>2. members # NULL => MayGrow(members)'
      BY <1>1, <1>3, <1>5, <2>2, <2>4 DEF MayGrow, Stays
    <3> QED BY <1>1, <3>1, <3>2 DEF Growing
  <2>8. after = CallHolds' \cup kept
        /\ (kept # {} => tree' = NULL /\ place' \notin {"parse", "begin"})
    BY <1>1, <2>3, <2>5
  <2> HIDE DEF after
  <2> QED BY <1>1, <1>6, <1>8, <2>2, <2>6, <2>7, <2>8, TaskGoesOn
<1> QED BY <1>9, <1>10

\* A member is added to the array.
LEMMA AddMemberKeeps ==
  ASSUME TaskInv, ~heap.fault, AddMember
  PROVE  TaskInv'
<1>1. /\ place = "member" /\ rest # <<>> /\ place' = place /\ rest' = Tail(rest)
      /\ \E k \in Budgets :
           LET new == CreateString(HeapWith(k))
           IN  HeapBecomes(AddItemToArray(new.mem, members, new.ptr))
      /\ task' = task /\ matching' = matching /\ response' = response
      /\ element' = element /\ tree' = tree /\ members' = members /\ answer' = answer
  BY DEF AddMember, document
<1>2. PICK k \in Budgets :
        LET new == CreateString(HeapWith(k))
        IN  HeapBecomes(AddItemToArray(new.mem, members, new.ptr))
  BY <1>1
<1> DEFINE s == HeapWith(k)
           new == CreateString(s)
           w == AddItemToArray(new.mem, members, new.ptr)
<1>3. /\ Phase /\ Growing /\ Standing /\ task.kind # "search"
      /\ members \in InUse(heap) /\ ~heap.item[members].reference
  BY <1>1 DEF TaskInv, Phase, Growing, MayGrow
<1>4. PICK lost : Holds(heap, CallHolds \cup lost) /\ (lost # {} => tree = NULL)
  BY <1>3 DEF Standing
<1> DEFINE H == CallHolds \cup lost
<1>5. /\ Holds(s, H) /\ s \in Memory /\ s.item = heap.item /\ InUse(s) = InUse(heap)
      /\ s.starved = heap.starved
  <2>1. k \in Nat
    BY BudgetsAssumption
  <2> QED BY <1>4, <2>1, MoreHolds
<1>6. HeapBecomes(w)
  BY <1>2
<1> HIDE DEF s
<1>7. Made(s, new)
  BY <1>5, CreateStringMakes DEF Holds
<1> HIDE DEF new
<1>8. Holds(w, After(H, members, new.ptr)) /\ Stays(s, w) /\ (s.starved => w.starved)
  <2>1. members \in InUse(s) /\ ~s.item[members].reference
    BY <1>3, <1>5
  <2> HIDE DEF H
  <2> QED BY <1>5, <1>7, <2>1, AppendsNew
<1>9. Holds(w, H)
  <2>1. members # NULL
    BY <1>3, <1>4, HoldsTypes
  <2> QED BY <1>8, <2>1 DEF After
<1> HIDE DEF w
<1>10. /\ InUse(heap') = InUse(w) /\ heap'.item = w.item /\ heap'.starved = w.starved
  BY <1>6, <1>9, HeapHolds
<1>11. Phase'
  BY <1>1, <1>3, <1>5, <1>8, <1>10 DEF Phase
<1>12. Growing'
  <2>1. MayGrow(members)'
    BY <1>1, <1>3, <1>5, <1>8, <1>10 DEF MayGrow, Stays
  <2> QED BY <1>1, <2>1 DEF Growing
<1>13. H = CallHolds' \cup lost
       /\ (lost # {} => tree' = NULL /\ place' \notin {"parse", "begin"})
  BY <1>1, <1>4 DEF CallHolds
<1>14. /\ {element', response', tree', members', answer'} \subseteq Items \cup {NULL}
       /\ matching' \subseteq Items
       /\ rest' \in IF task.kind = "search" THEN Seq(BOOLEAN) ELSE Seq({"string", "other"})
  <2>1. Tail(rest) \in Seq({"string", "other"})
    BY <1>1, <1>3, TaskTypes, RestIsList
  <2> QED BY <1>1, <1>3, <2>1, TaskTypes DEF Address
<1> HIDE DEF H
<1> QED BY <1>1, <1>6, <1>9, <1>11, <1>12, <1>13, <1>14, TaskGoesOn

\* The array of the members is added to the object.
LEMMA AddMembersKeeps ==
  ASSUME TaskInv, ~heap.fault, AddMembers
  PROVE  TaskInv'
<1>1. /\ place = "field" /\ place' = "member" /\ task.members # NULL
      /\ rest' = [i \in 1 .. task.members |-> "string"]
      /\ \E k \in Budgets : HeapBecomes(AddItemToObject(HeapWith(k), tree, LITERAL, members))
      /\ task' = task /\ matching' = matching /\ response' = response
      /\ element' = element /\ tree' = tree /\ members' = members /\ answer' = answer
  BY DEF AddMembers, document
<1>2. PICK k \in Budgets : HeapBecomes(AddItemToObject(HeapWith(k), tree, LITERAL, members))
  BY <1>1
<1> DEFINE s == HeapWith(k)
           w == AddItemToObject(s, tree, LITERAL, members)
<1>3. /\ Phase /\ Growing /\ Standing /\ task.kind # "search" /\ response = NULL
      /\ tree # NULL => tree \in InUse(heap) /\ ~heap.item[tree].reference
      /\ members # NULL => members \in InUse(heap) /\ ~heap.item[members].reference
      /\ members # NULL => members # tree
      /\ members = NULL => heap.starved
  BY <1>1 DEF TaskInv, Phase, Growing, MayGrow
<1>4. PICK lost : Holds(heap, CallHolds \cup lost) /\ (lost # {} => tree = NULL)
  BY <1>3 DEF Standing
<1> DEFINE H == CallHolds \cup lost
<1>5. /\ Holds(s, H) /\ s \in Memory /\ s.item = heap.item /\ InUse(s) = InUse(heap)
      /\ s.starved = heap.starved
  <2>1. k \in Nat
    BY BudgetsAssumption
  <2> QED BY <1>4, <2>1, MoreHolds
<1>6. HeapBecomes(w)
  BY <1>2
<1> HIDE DEF s
<1>7. /\ {element', response', tree', members', answer'} \subseteq Items \cup {NULL}
      /\ matching' \subseteq Items
      /\ rest' \in IF task.kind = "search" THEN Seq(BOOLEAN) ELSE Seq({"string", "other"})
  <2>1. task.members \in Nat
    BY <1>1, <1>3, TaskTypes, TasksAssumption
  <2>2. [i \in 1 .. task.members |-> "string"] \in Seq({"string", "other"})
    BY <2>1
  <2> QED BY <1>1, <1>3, <2>2, TaskTypes DEF Address
<1>8. CASE members = NULL
  <2>1. Ruined(s, w)
    <3>1. Clean(s) /\ w = AddItemToObject(s, tree, LITERAL, NULL)
      BY <1>5, <1>8, HoldsTypes
    <3> HIDE DEF w
    <3> QED BY <1>5, <3>1, AddNull
  <2>2. w \in Memory /\ Clean(w) /\ w.fault /\ w.starved
    BY <1>3, <1>5, <1>8, <2>1 DEF Ruined
  <2> HIDE DEF w
  <2> QED BY <1>1, <1>6, <1>7, <2>2, TaskEnds
<1>9. CASE members # NULL
  <2>1. members \in H /\ (tree # NULL => tree \in H)
    BY <1>1, <1>9 DEF CallHolds
  <2>2. CallHolds' = {tree} \ {NULL}
    BY <1>1, <1>3 DEF CallHolds
  <2>3. CallHolds = {tree, members} \ {NULL}
    BY <1>1 DEF CallHolds
  <2> DEFINE after == Remaining(H, tree, members)
             kept == after \ CallHolds'
  <2>4. after = CallHolds' \cup kept /\ (kept # {} => tree = NULL)
    <3>1. CASE tree = NULL
      BY <2>1, <2>2, <3>1 DEF Remaining
    <3>2. CASE tree # NULL
      <4>1. H = {tree, members}
        BY <1>4, <1>9, <2>3, <3>2
      <4>2. after = {tree} /\ CallHolds' = {tree}
        BY <1>3, <1>9, <2>2, <3>2, <4>1 DEF Remaining
      <4> HIDE DEF after
      <4> QED BY <4>2
    <3> QED BY <3>1, <3>2
  <2> HIDE DEF H
  <2>5. MayJoin(s, H, tree, members)
    <3>1. tree # NULL => tree \notin Behind(s, members)
      BY <1>3, <1>5, <1>9, <2>1, HoldsTypes
    <3> QED BY <1>3, <1>5, <2>1, <3>1 DEF MayJoin, MayTake
  <2>6. Outcome(s, {}, w, after, {}) /\ Kept(s, w)
    <3>1. Forest(s, H, {})
      BY <1>5 DEF Holds
    <3> HIDE DEF w
    <3> QED BY <2>5, <3>1, JoinForest DEF w
  <2> HIDE DEF w, after
  <2>7. Holds(w, after) /\ (s.starved => w.starved)
    BY <1>5, <2>6, OutcomeHolds
  <2>8. /\ InUse(heap') = InUse(w) /\ heap'.item = w.item /\ heap'.starved = w.starved
    BY <1>6, <2>7, HeapHolds
  <2>9. Phase'
    BY <1>1, <1>3, <1>5, <2>7, <2>8 DEF Phase
  <2>10. Growing'
    <3>1. members \in InUse(w) /\ ~w.item[members].reference
      BY <1>3, <1>5, <1>9, <2>6 DEF Kept, InUse, Live
    <3>2. MayGrow(members)'
      BY <1>1, <2>8, <3>1 DEF MayGrow
    <3> QED BY <1>1, <3>2 DEF Growing
  <2>11. /\ after = CallHolds' \cup kept
         /\ kept # {} => tree' = NULL /\ place' \notin {"parse", "begin"}
    BY <1>1, <2>4
  <2> HIDE DEF kept
  <2> QED BY <1>1, <1>6, <1>7, <2>7, <2>9, <2>10, <2>11, TaskGoesOn
<1> QED BY <1>8, <1>9

\* What was built is deleted.
LEMMA ReleaseTreeKeeps ==
  ASSUME TaskInv, ~heap.fault, ReleaseTree
  PROVE  TaskInv'
<1> DEFINE w == Delete(heap, tree)
<1>1. /\ place = "built" /\ HeapBecomes(w) /\ place' = "done"
      /\ task' = task /\ rest' = rest /\ matching' = matching /\ response' = response
      /\ element' = element /\ tree' = tree /\ members' = members /\ answer' = answer
  BY DEF ReleaseTree, document
<1>2. Phase /\ Growing /\ Standing /\ response = NULL
  BY <1>1 DEF TaskInv, Phase
<1>3. PICK lost : Holds(heap, CallHolds \cup lost) /\ (lost # {} => tree = NULL)
  BY <1>2 DEF Standing
<1>4. CallHolds = {tree} \ {NULL} /\ CallHolds' = {}
  BY <1>1, <1>2 DEF CallHolds
<1> DEFINE H == CallHolds \cup lost
           kept == H \ {tree}
<1>5. tree \in H \cup {NULL} /\ (kept # {} => tree = NULL)
  BY <1>3, <1>4
<1>6. Holds(heap, H)
  BY <1>3
<1> HIDE DEF H
<1>7. Holds(w, kept) /\ (heap.starved => w.starved)
  BY <1>5, <1>6, DeleteHolds
<1> HIDE DEF w
<1>8. heap'.starved = w.starved
  BY <1>1, <1>7, HeapHolds
<1>9. Phase' /\ Growing'
  BY <1>1, <1>2, <1>7, <1>8 DEF Phase, Growing
<1>10. /\ {element', response', tree', members', answer'} \subseteq Items \cup {NULL}
       /\ matching' \subseteq Items
       /\ rest' \in IF task.kind = "search" THEN Seq(BOOLEAN) ELSE Seq({"string", "other"})
  BY <1>1, TaskTypes DEF Address
<1>11. /\ kept = CallHolds' \cup kept
       /\ kept # {} => tree' = NULL /\ place' \notin {"parse", "begin"}
  BY <1>1, <1>4, <1>5
<1> HIDE DEF kept
<1> QED BY <1>1, <1>7, <1>9, <1>10, <1>11, TaskGoesOn

\* A call begins with empty memory.
LEMMA TaskInitHasInv == TaskInit => TaskInv
<1> SUFFICES ASSUME TaskInit
             PROVE  TaskInv
  OBVIOUS
<1>1. /\ task \in Tasks /\ heap = Empty /\ matching = {} /\ response = NULL /\ element = NULL
      /\ tree = NULL /\ members = NULL /\ answer = NULL
      /\ IF task.kind = "search" THEN place = "parse" /\ rest = task.document
                                 ELSE place = "begin" /\ rest = task.fields
  BY DEF TaskInit
<1>2. MemoryOK(Empty) /\ Holds(Empty, {})
  BY EmptyIsMemory DEF Holds
<1>3. Clean(heap) /\ ~heap.fault
  BY <1>1, <1>2, HoldsTypes
<1>4. rest \in IF task.kind = "search" THEN Seq(BOOLEAN) ELSE Seq({"string", "other"})
  <2>1. CASE task.kind = "search"
    BY <1>1, <2>1, TasksAssumption
  <2>2. CASE task.kind # "search"
    BY <1>1, <2>2, TasksAssumption
  <2> QED BY <2>1, <2>2
<1>5. TaskOK
  BY <1>1, <1>2, <1>4 DEF TaskOK
<1>6. Phase /\ Growing
  BY <1>1 DEF Phase, Growing
<1>7. Standing
  <2>1. CallHolds \cup {} = {}
    BY <1>1 DEF CallHolds
  <2>2. Holds(heap, CallHolds \cup {})
    BY <1>1, <1>2, <2>1
  <2> QED BY <2>2 DEF Standing
<1> QED BY <1>3, <1>5, <1>6, <1>7 DEF TaskInv

\* What an invariant says of an unchanged call it says of the next state.
LEMMA TaskStutters ==
  ASSUME TaskInv, UNCHANGED taskVars
  PROVE  TaskInv'
<1>1. /\ task' = task /\ heap' = heap /\ place' = place /\ rest' = rest /\ matching' = matching
      /\ response' = response /\ element' = element /\ tree' = tree /\ members' = members
      /\ answer' = answer
  BY DEF taskVars, document
<1>2. TaskOK'
  BY <1>1 DEF TaskInv, TaskOK
<1>3. ~heap.fault => Phase' /\ Growing'
  BY <1>1 DEF TaskInv, Phase, Growing, MayGrow
<1>4. ~heap.fault => Standing'
  BY <1>1 DEF TaskInv, Standing, CallHolds
<1> QED BY <1>1, <1>2, <1>3, <1>4 DEF TaskInv

\* Every step of a call keeps the invariant.
LEMMA TaskNextKeepsInv == TaskInv /\ [TaskNext]_taskVars => TaskInv'
<1> SUFFICES ASSUME TaskInv, [TaskNext]_taskVars
             PROVE  TaskInv'
  OBVIOUS
<1>1. CASE UNCHANGED taskVars
  BY <1>1, TaskStutters
<1>2. CASE TaskNext
  <2>1. ~heap.fault
    BY <1>2 DEF TaskNext
  <2>2. CASE ParseArray \/ ParseObject \/ Parsed \/ Begin
    BY <2>1, <2>2, ParseArrayKeeps, ParseObjectKeeps, ParsedKeeps, BeginKeeps
  <2>3. CASE AddMatch \/ ExtractSingleResult \/ Walk \/ Cleanup
    BY <2>1, <2>3, AddMatchKeeps, ExtractKeeps, WalkKeeps, CleanupKeeps
  <2>4. CASE CreateMembers \/ AddField \/ FieldsDone
    BY <2>1, <2>4, CreateMembersKeeps, AddFieldKeeps, FieldsDoneKeeps
  <2>5. CASE AddMembers \/ AddMember \/ MembersDone \/ ReleaseTree
    BY <2>1, <2>5, AddMembersKeeps, AddMemberKeeps, MembersDoneKeeps, ReleaseTreeKeeps
  <2> QED BY <1>2, <2>2, <2>3, <2>4, <2>5 DEF TaskNext
<1> QED BY <1>1, <1>2

\* What the library builds is well-formed, and held by its call.
THEOREM TasksAreInductive == TaskSpec => []TaskInv
<1> QED BY TaskInitHasInv, TaskNextKeepsInv, PTL DEF TaskSpec

\* With no holder left there is no item, and no string.
LEMMA NothingIsLostInInv == TaskInv => NothingIsLost
<1> SUFFICES ASSUME TaskInv
             PROVE  NothingIsLost
  OBVIOUS
<1>1. TaskOK /\ (heap.fault => heap.starved)
  BY DEF TaskInv
<1>2. ASSUME place = "done", ~heap.fault, tree # NULL
      PROVE  InUse(heap) = {} /\ heap.text = {}
  <2>1. Holds(heap, {})
    <3>1. CallHolds = {}
      BY <1>2 DEF CallHolds
    <3> QED BY <1>2, <3>1, NoneLost
  <2>2. InUse(heap) = {}
    <3>1. \A S \in SUBSET InUse(heap) : {} \subseteq S /\ IsClosed(heap, S) => S = InUse(heap)
      BY <2>1, HoldsTypes DEF Links
    <3>2. IsClosed(heap, {})
      BY DEF IsClosed
    <3> QED BY <3>1, <3>2
  <2>3. heap.text = {}
    BY <2>1, <2>2 DEF Holds, AllOwned
  <2> QED BY <2>2, <2>3
<1> QED BY <1>1, <1>2 DEF NothingIsLost

\* Freed memory or NULL is used only when an allocation has failed, and a call
\* that has an object or an array to begin with leaves nothing behind.
THEOREM SpecNothingIsLost == TaskSpec => []NothingIsLost
<1> QED BY TasksAreInductive, NothingIsLostInInv, PTL
=============================================================================
