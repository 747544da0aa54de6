--------------------------- MODULE NssCalls_proofs ---------------------------
(***************************************************************************)
(* What a caller who opens, reads and closes one database at a time can    *)
(* rely on, for every set of documents and every memory: no freed memory   *)
(* is touched, none is lost, and every record of the database is handed    *)
(* out once and in order, as module Enumeration promises.  And what a      *)
(* caller who looks a record up can rely on, for every document, every set *)
(* of strings and every width of int: the keyed calls find the records     *)
(* that an enumeration lists.                                              *)
(***************************************************************************)
EXTENDS NssEnum, NssLookup, WellFoundedInduction, TLAPS

-----------------------------------------------------------------------------
(* Facts about the operators of the model                                  *)

\* A list that is not empty has a first reference: every non-empty set of
\* natural numbers has a least element.
LEMMA LeastExists ==
  ASSUME NEW S \in SUBSET Nat, S # {}
  PROVE  \E x \in S : \A y \in S : x <= y
<1>1. PICK x \in S : \A y \in S : ~ (<<y, x>> \in OpToRel(<, Nat))
  BY NatLessThanWellFounded, WFMin
<1>2. \A y \in S : ~ (y < x)
  BY <1>1 DEF OpToRel
<1> QED BY <1>2

\* Min is an element of its set, and none is smaller.
LEMMA MinIsLeast ==
  ASSUME NEW S \in SUBSET Nat, S # {}
  PROVE  Min(S) \in S /\ \A y \in S : Min(S) <= y
BY LeastExists DEF Min

\* The references that setpwent and setgrent collect are exactly those to
\* the records that the README describes.
LEMMA MatchesAreRecords ==
  ASSUME NEW db \in Databases, NEW d
  PROVE  EnumerationMatches(db, d) = {i \in Candidates(d) : IsRecordOf(db, d.items[i])}
BY DEF Databases, EnumerationMatches, GetStringMatches, IsStringMatch, KeyExists,
       IsRecordOf, IsPasswdRecord, IsGroupRecord

\* The searches collect positions of items of the document.
LEMMA MatchesArePositions ==
  ASSUME NEW db \in Databases, NEW d \in Docs
  PROVE  /\ EnumerationMatches(db, d) \in SUBSET Nat
         /\ EnumerationMatches(db, d) \subseteq DOMAIN d.items
         /\ d.type = NULL => EnumerationMatches(db, d) = {}
<1>1. Candidates(d) \subseteq DOMAIN d.items
  BY DEF Candidates
<1>2. DOMAIN d.items \in SUBSET Nat
  BY DocsAssumption
<1>3. d.type = NULL => Candidates(d) = {}
  BY NullAssumption DEF Candidates
<1> QED BY <1>1, <1>2, <1>3, MatchesAreRecords

\* The reference at the head of a list, and what is left behind one.
LEMMA FirstOfList ==
  ASSUME NEW block \in Ptr, NEW refs \in SUBSET Nat
  PROVE  /\ First(block, refs) \in Entries \cup {NULL}
         /\ First(block, refs) = NULL <=> refs = {}
         /\ refs # {} => /\ First(block, refs).block = block
                         /\ First(block, refs).pos \in refs
                         /\ refs = {i \in refs : i >= First(block, refs).pos}
<1>1. CASE refs = {}
  BY <1>1 DEF First
<1>2. CASE refs # {}
  <2>1. Min(refs) \in refs /\ \A y \in refs : Min(refs) <= y
    BY <1>2, MinIsLeast
  <2>2. First(block, refs) = Entry(block, Min(refs))
    BY <1>2 DEF First
  <2>3. First(block, refs) \in Entries
    <3> DEFINE pos == Min(refs)
    <3>1. pos \in Nat
      BY <2>1
    <3> HIDE DEF pos
    <3>2. Entry(block, pos) \in Entries
      BY <3>1 DEF Entry, Entries
    <3> QED BY <2>2, <3>2 DEF pos
  <2> QED BY <1>2, <2>1, <2>2, <2>3, PtrAssumption DEF Entry, Entries
<1> QED BY <1>1, <1>2

-----------------------------------------------------------------------------
(* Any caller                                                              *)

\* The statics that own something own it: they never dangle.
StaticsAreLive ==
  /\ openResponse # NULL => heap[openResponse].kind = "tree"
  /\ openMatches # NULL => heap[openMatches].kind = "refs"

\* References that can still be followed lead into the open response, and
\* only to items that it has.
ReferencesLeadHome ==
  openMatches # NULL /\ Live(heap[openMatches].tree) =>
    /\ heap[openMatches].tree = openResponse
    /\ heap[openMatches].refs \subseteq DOMAIN heap[openResponse].doc.items

\* A cursor either dangles or is one of the open references.
CursorInList ==
  cursor # NULL /\ Live(cursor.block) =>
    cursor.block = openMatches /\ cursor.pos \in heap[openMatches].refs

MemoryInv ==
  TypeOK /\ StaticsAreLive /\ ReferencesLeadHome /\ CursorInList /\ LeaksOnlyReferences

\* At the start nothing is allocated.
LEMMA MemoryInit == Init => MemoryInv
<1> SUFFICES ASSUME Init PROVE MemoryInv
  OBVIOUS
<1>1. FREE \in Blocks
  BY DEF FREE, Block, Blocks
<1>2. reply \in Replies
  BY DEF Init, NoReply, Reply, Replies
<1>3. TypeOK
  BY <1>1, <1>2 DEF Init, TypeOK
<1>4. StaticsAreLive /\ ReferencesLeadHome /\ CursorInList
  BY DEF Init, StaticsAreLive, ReferencesLeadHome, CursorInList
<1>5. LeaksOnlyReferences
  BY DEF Init, LeaksOnlyReferences, FREE, Block
<1> QED BY <1>3, <1>4, <1>5 DEF MemoryInv

\* setpwent and setgrent: what was open is freed or replaced, and the new
\* array leads into the new response.
LEMMA MemorySetEnt ==
  ASSUME MemoryInv, NEW db \in Databases, SetEnt(db)
  PROVE  MemoryInv'
<1> USE DEF MemoryInv, Live
<1>1. PICK d \in Docs, st \in HandlerStatuses, r \in Ptr \cup {NULL}, m \in Ptr \cup {NULL} :
        Opens(db, d, st, r, m)
  BY DEF SetEnt
<1> DEFINE refs == EnumerationMatches(db, d)
<1>2. /\ refs \in SUBSET Nat
      /\ refs \subseteq DOMAIN d.items
      /\ r = NULL => refs = {}
  BY <1>1, MatchesArePositions, PtrAssumption DEF Opens
<1>3. r # NULL => r \in Ptr /\ Available(r)
  BY <1>1, PtrAssumption DEF Opens
<1>4. Answered(d, r) \in [Ptr -> Blocks]
  BY PtrAssumption DEF TypeOK, Blocks, Block, Answered, Cleared, Deleted, FREE
<1>5. \A p \in Ptr : p \notin {r, openResponse} => Answered(d, r)[p] = heap[p]
  BY DEF Answered, Cleared, Deleted
<1>6. /\ r # NULL => Answered(d, r)[r] = Block("tree", d, NULL, {})
      /\ openResponse # NULL => Answered(d, r)[openResponse].kind = "free"
  BY <1>3 DEF Answered, Cleared, Deleted, FREE, Block, Available, StaticsAreLive, TypeOK
<1>7. /\ openResponse' = r
      /\ openMatches' = m
      /\ reply' = Reply("setent", db, st, NULL, FALSE)
  BY <1>1 DEF Opens
<1>8. fault' \in BOOLEAN /\ reply' \in Replies
  BY <1>7, StatusAssumption DEF SetEnt, BadDelete, Reply, Replies
<1> HIDE DEF refs
<1>9. CASE st = "SUCCESS"
  <2>1. /\ m \in Ptr \ {r} /\ Available(m)
        /\ heap' = [Answered(d, r) EXCEPT ![m] = Block("refs", NoDocument, r, refs)]
        /\ cursor' = First(m, refs)
        /\ session' = db
    BY <1>1, <1>9 DEF Opens, refs
  <2>2. TypeOK'
    <3>1. Block("refs", NoDocument, r, refs) \in Blocks
      BY <1>2 DEF Block, Blocks
    <3>2. heap' \in [Ptr -> Blocks]
      BY <1>4, <2>1, <3>1
    <3>3. cursor' \in Entries \cup {NULL}
      BY <1>2, <2>1, FirstOfList
    <3> QED BY <1>7, <1>8, <2>1, <3>2, <3>3 DEF TypeOK
  <2>3. (StaticsAreLive /\ ReferencesLeadHome /\ CursorInList)'
    <3>1. heap'[m] = Block("refs", NoDocument, r, refs)
      BY <1>4, <2>1
    <3>2. r # NULL => heap'[r] = Block("tree", d, NULL, {})
      BY <1>3, <1>4, <1>6, <2>1
    <3>3. StaticsAreLive'
      BY <1>7, <3>1, <3>2 DEF StaticsAreLive, Block
    <3>4. ReferencesLeadHome'
      BY <1>2, <1>7, <3>1, <3>2 DEF ReferencesLeadHome, Block
    <3>5. CursorInList'
      BY <1>2, <1>7, <2>1, <3>1, FirstOfList DEF CursorInList, Block
    <3> QED BY <3>3, <3>4, <3>5
  <2>4. LeaksOnlyReferences'
    <3> SUFFICES ASSUME NEW p \in Ptr, heap'[p].kind = "tree"
                 PROVE  p = r
      BY <1>7 DEF LeaksOnlyReferences, Owned
    <3>1. p # m
      BY <1>4, <2>1 DEF Block
    <3>2. Answered(d, r)[p].kind = "tree"
      BY <1>4, <2>1, <3>1
    <3> QED BY <1>5, <1>6, <3>2, PtrAssumption DEF LeaksOnlyReferences, Owned, TypeOK, StaticsAreLive
  <2> QED BY <2>2, <2>3, <2>4
<1>10. CASE st # "SUCCESS"
  <2>1. /\ m = openMatches
        /\ heap' = Answered(d, r)
        /\ UNCHANGED <<cursor, session>>
    BY <1>1, <1>10 DEF Opens
  <2>2. TypeOK'
    BY <1>4, <1>7, <1>8, <2>1 DEF TypeOK
  <2>3. (StaticsAreLive /\ ReferencesLeadHome /\ CursorInList)'
    <3>1. r # NULL => heap'[r] = Block("tree", d, NULL, {})
      BY <1>6, <2>1
    <3>2. openMatches # NULL => openMatches \notin {r, openResponse}
      BY <1>3 DEF StaticsAreLive, Available
    <3>3. openMatches # NULL => heap'[openMatches] = heap[openMatches]
      BY <1>5, <2>1, <3>2 DEF TypeOK
    <3>4. StaticsAreLive'
      BY <1>7, <2>1, <3>1, <3>3 DEF StaticsAreLive, Block
    <3>5. openMatches # NULL => ~Live(heap[openMatches].tree)'
      BY <1>3, <1>5, <1>6, <1>7, <2>1, <3>3
      DEF ReferencesLeadHome, Available, TypeOK, Blocks
    <3>6. ReferencesLeadHome'
      BY <1>7, <2>1, <3>5 DEF ReferencesLeadHome
    <3>7. CursorInList'
      BY <1>3, <1>5, <1>6, <1>7, <2>1, <3>3
      DEF CursorInList, Available, TypeOK, Entries
    <3> QED BY <3>4, <3>6, <3>7
  <2>4. LeaksOnlyReferences'
    BY <1>3, <1>5, <1>6, <1>7, <2>1, PtrAssumption
    DEF LeaksOnlyReferences, Owned, Block, TypeOK
  <2> QED BY <2>2, <2>3, <2>4
<1> QED BY <1>9, <1>10

\* getpwent_r and getgrent_r move the cursor and leave memory as it is.
LEMMA MemoryGetEnt ==
  ASSUME MemoryInv, NEW db \in Databases, GetEnt(db)
  PROVE  MemoryInv'
<1> USE DEF MemoryInv
<1>1. CASE GetEntAtEnd(db)
  BY <1>1 DEF GetEntAtEnd, TypeOK, StaticsAreLive, ReferencesLeadHome, CursorInList,
              LeaksOnlyReferences, Owned, Live, Reply, Replies
<1>2. CASE GetEntEntry(db)
  <2>1. /\ cursor.block = openMatches
        /\ cursor.pos \in heap[openMatches].refs
        /\ heap[openMatches].tree = openResponse
        /\ cursor.pos \in DOMAIN heap[openResponse].doc.items
        /\ openResponse \in Ptr
    BY <1>2 DEF GetEntEntry, Dangling, Live, CursorInList, ReferencesLeadHome, TypeOK
  <2>2. ItemAt(cursor) \in Items
    <3>1. heap[openResponse].doc \in Docs \cup {NoDocument}
      BY <2>1 DEF TypeOK, Blocks
    <3>2. heap[openResponse].doc \in Docs
      BY <2>1, <3>1 DEF NoDocument
    <3> QED BY <2>1, <3>2, DocsAssumption DEF ItemAt
  <2>3. reply' \in Replies
    BY <1>2, <2>2 DEF GetEntEntry, Reply, Replies
  <2>4. cursor \in Entries
    BY <1>2 DEF GetEntEntry, TypeOK
  <2> DEFINE rest == {i \in heap[cursor.block].refs : i > cursor.pos}
  <2>5. cursor' = First(cursor.block, rest)
    BY <1>2 DEF GetEntEntry, Following
  <2>6. rest \in SUBSET Nat /\ cursor.block \in Ptr
    BY <2>4 DEF TypeOK, Entries, Blocks
  <2> HIDE DEF rest
  <2>7. /\ cursor' \in Entries \cup {NULL}
        /\ cursor' # NULL => cursor'.block = cursor.block /\ cursor'.pos \in rest
    BY <2>5, <2>6, FirstOfList
  <2>8. CursorInList'
    BY <1>2, <2>1, <2>7 DEF GetEntEntry, CursorInList, rest
  <2> QED
    BY <1>2, <2>3, <2>7, <2>8
    DEF GetEntEntry, TypeOK, StaticsAreLive, ReferencesLeadHome, LeaksOnlyReferences,
        Owned, Live
<1>3. CASE GetEntDangling(db)
  BY <1>3 DEF GetEntDangling, TypeOK, StaticsAreLive, ReferencesLeadHome, CursorInList,
              LeaksOnlyReferences, Owned, Live
<1> QED BY <1>1, <1>2, <1>3 DEF GetEnt

\* endpwent and endgrent free what the statics own.
LEMMA MemoryEndEnt ==
  ASSUME MemoryInv, NEW db \in Databases, EndEnt(db)
  PROVE  MemoryInv'
<1> USE DEF MemoryInv
<1>1. /\ heap' = Deleted({openResponse, openMatches})
      /\ fault' = BadDelete({openResponse, openMatches})
      /\ openResponse' = NULL /\ openMatches' = NULL /\ session' = NULL
      /\ reply' = Reply("endent", db, "SUCCESS", NULL, FALSE)
      /\ cursor' = cursor
  BY DEF EndEnt, Ends
<1>2. TypeOK'
  BY <1>1 DEF TypeOK, Deleted, BadDelete, FREE, Block, Blocks, Reply, Replies
<1>3. (StaticsAreLive /\ ReferencesLeadHome)'
  BY <1>1 DEF StaticsAreLive, ReferencesLeadHome
<1>4. CursorInList'
  BY <1>1 DEF CursorInList, Live, Deleted, FREE, Block, TypeOK, Entries
<1>5. LeaksOnlyReferences'
  BY <1>1 DEF LeaksOnlyReferences, Owned, Deleted, FREE, Block
<1> QED BY <1>2, <1>3, <1>4, <1>5

\* So every call keeps memory in shape.
LEMMA MemoryNext == MemoryInv /\ [Next]_vars => MemoryInv'
<1> SUFFICES ASSUME MemoryInv, [Next]_vars PROVE MemoryInv'
  OBVIOUS
<1>1. CASE Next
  BY <1>1, MemorySetEnt, MemoryGetEnt, MemoryEndEnt DEF Next
<1>2. CASE UNCHANGED vars
  BY <1>2 DEF vars, MemoryInv, TypeOK, StaticsAreLive, ReferencesLeadHome, CursorInList,
              LeaksOnlyReferences, Owned, Live
<1> QED BY <1>1, <1>2

\* Whatever a program calls, and in whatever order, the variables stay what
\* they are meant to be: in particular every record that getpwent_r or
\* getgrent_r hands out is an item of a document of the backend.
THEOREM TypeCorrect == Spec => []TypeOK
<1>1. MemoryInv => TypeOK
  BY DEF MemoryInv
<1> QED BY <1>1, MemoryInit, MemoryNext, PTL DEF Spec

\* Whatever a program calls, and in whatever order, no copy of the backend's
\* document is ever lost: only arrays of references are.
THEOREM OnlyReferencesLeak == Spec => []LeaksOnlyReferences
<1>1. MemoryInv => LeaksOnlyReferences
  BY DEF MemoryInv
<1> QED BY <1>1, MemoryInit, MemoryNext, PTL DEF Spec

-----------------------------------------------------------------------------
(* Any caller, as long as no request fails                                 *)

NeverFails == HandlerStatuses = {"SUCCESS"}

OpenInv ==
  /\ MemoryInv
  /\ FaultOnlyAfterEnd
  /\ openMatches # NULL =>
       /\ heap[openMatches].tree = openResponse
       /\ openResponse = NULL => heap[openMatches].refs = {}
       /\ cursor # NULL => cursor.block = openMatches

\* The statics can be deleted.
LEMMA NoBadDelete ==
  ASSUME MemoryInv
  PROVE  ~BadDelete({openResponse, openMatches}) /\ ~BadDelete({openResponse})
BY DEF BadDelete, MemoryInv, StaticsAreLive, Live

\* The invariant says what is to be shown of open arrays.
LEMMA OpenIsReadable == OpenInv => OpenMatchesAreReadable
BY DEF OpenInv, OpenMatchesAreReadable, MemoryInv, StaticsAreLive, CursorInList, Live, Dangling

\* A request that succeeds opens an array that leads into its response.
LEMMA OpenSetEnt ==
  ASSUME NeverFails, OpenInv, NEW db \in Databases, SetEnt(db)
  PROVE  OpenInv'
<1>1. MemoryInv'
  BY MemorySetEnt DEF OpenInv
<1>2. FaultOnlyAfterEnd'
  BY NoBadDelete DEF OpenInv, SetEnt, FaultOnlyAfterEnd
<1>3. PICK d \in Docs, st \in HandlerStatuses, r \in Ptr \cup {NULL}, m \in Ptr \cup {NULL} :
        Opens(db, d, st, r, m)
  BY DEF SetEnt
<1> DEFINE refs == EnumerationMatches(db, d)
<1>4. /\ openResponse' = r
      /\ openMatches' = m
      /\ m \in Ptr \ {r}
      /\ heap' = [Answered(d, r) EXCEPT ![m] = Block("refs", NoDocument, r, refs)]
      /\ cursor' = First(m, refs)
      /\ IF d.type = NULL THEN r = NULL ELSE r \in Ptr
  BY <1>3 DEF Opens, NeverFails
<1>5. refs \in SUBSET Nat /\ (r = NULL => refs = {})
  BY <1>4, MatchesArePositions, PtrAssumption
<1> HIDE DEF refs
<1>6. Answered(d, r) \in [Ptr -> Blocks]
  BY <1>4, PtrAssumption
  DEF OpenInv, MemoryInv, TypeOK, Blocks, Block, Answered, Cleared, Deleted, FREE
<1>7. heap'[m] = Block("refs", NoDocument, r, refs)
  BY <1>4, <1>6
<1>8. cursor' # NULL => cursor'.block = m
  BY <1>4, <1>5, FirstOfList
<1> QED BY <1>1, <1>2, <1>4, <1>5, <1>7, <1>8 DEF OpenInv, Block

\* Reading on stays within the open array.
LEMMA OpenGetEnt ==
  ASSUME OpenInv, NEW db \in Databases, GetEnt(db)
  PROVE  OpenInv'
<1>1. MemoryInv'
  BY MemoryGetEnt DEF OpenInv
<1>2. CASE GetEntAtEnd(db)
  BY <1>1, <1>2 DEF GetEntAtEnd, OpenInv, FaultOnlyAfterEnd
<1>3. CASE GetEntEntry(db)
  <2>1. /\ cursor # NULL
        /\ cursor' = Following(cursor)
        /\ UNCHANGED <<heap, openResponse, openMatches, fault>>
    BY <1>3 DEF GetEntEntry
  <2>2. cursor \in Entries
    BY <2>1 DEF OpenInv, MemoryInv, TypeOK
  <2> DEFINE rest == {i \in heap[cursor.block].refs : i > cursor.pos}
  <2>3. cursor.block \in Ptr /\ rest \in SUBSET Nat
    BY <2>2 DEF OpenInv, MemoryInv, TypeOK, Entries, Blocks
  <2>4. cursor' = First(cursor.block, rest)
    BY <2>1 DEF Following
  <2> HIDE DEF rest
  <2>5. cursor' # NULL => cursor'.block = cursor.block
    BY <2>3, <2>4, FirstOfList
  <2> QED BY <1>1, <2>1, <2>5 DEF OpenInv, FaultOnlyAfterEnd
<1>4. CASE GetEntDangling(db)
  <2>1. openMatches = NULL
    BY <1>4, OpenIsReadable DEF GetEntDangling, OpenMatchesAreReadable
  <2> QED BY <1>1, <1>4, <2>1 DEF GetEntDangling, OpenInv, FaultOnlyAfterEnd
<1> QED BY <1>2, <1>3, <1>4 DEF GetEnt

\* So every call keeps the open array readable.
LEMMA OpenStep == NeverFails /\ OpenInv /\ [Next]_vars => OpenInv'
<1> SUFFICES ASSUME NeverFails, OpenInv, [Next]_vars PROVE OpenInv'
  OBVIOUS
<1>1. ASSUME NEW db \in Databases, EndEnt(db) PROVE OpenInv'
  BY <1>1, MemoryEndEnt DEF EndEnt, Ends, OpenInv, FaultOnlyAfterEnd
<1>2. CASE Next
  BY <1>1, <1>2, OpenSetEnt, OpenGetEnt DEF Next
<1>3. CASE UNCHANGED vars
  <2>1. MemoryInv'
    BY <1>3, MemoryNext DEF OpenInv
  <2> QED BY <1>3, <2>1 DEF vars, OpenInv, FaultOnlyAfterEnd
<1> QED BY <1>2, <1>3

\* However the calls on both databases are mixed, reading on is safe while a
\* reference array is open, as long as no request fails.
THEOREM OpenStaysReadable ==
  ASSUME NeverFails
  PROVE  Spec => []OpenMatchesAreReadable
<1>1. Init => OpenInv
  BY MemoryInit DEF Init, OpenInv, FaultOnlyAfterEnd
<1>2. OpenInv /\ [Next]_vars => OpenInv'
  BY OpenStep
<1> QED BY <1>1, <1>2, OpenIsReadable, PTL DEF Spec

\* So freed memory is read only by a caller who reads on after closing.
THEOREM OnlyLateReadersFault ==
  ASSUME NeverFails
  PROVE  Spec => []FaultOnlyAfterEnd
<1>1. Init => OpenInv
  BY MemoryInit DEF Init, OpenInv, FaultOnlyAfterEnd
<1>2. OpenInv /\ [Next]_vars => OpenInv'
  BY OpenStep
<1>3. OpenInv => FaultOnlyAfterEnd
  BY DEF OpenInv
<1> QED BY <1>1, <1>2, <1>3, PTL DEF Spec

-----------------------------------------------------------------------------
(* A caller who walks one database at a time                               *)

SessionInv ==
  /\ session = NULL => openMatches = NULL
  /\ session # NULL =>
       /\ openMatches # NULL
       /\ heap[openMatches].tree = openResponse
       /\ heap[openMatches].refs = EnumerationMatches(session, Walked)
       /\ cursor # NULL => Live(cursor.block)

PairedInv == MemoryInv /\ NoFault /\ NoLeak /\ SessionInv

\* At the start nothing is open.
LEMMA PairedInit == Init => PairedInv
BY MemoryInit DEF Init, PairedInv, NoFault, NoLeak, SessionInv, FREE, Block

\* What the cursor points to can be read.
LEMMA CursorReadable ==
  ASSUME PairedInv, session # NULL, cursor # NULL
  PROVE  /\ ~Dangling(cursor)
         /\ openResponse # NULL
         /\ cursor.block = openMatches
         /\ cursor.pos \in heap[openMatches].refs
<1>1. /\ cursor.block = openMatches
      /\ cursor.pos \in heap[openMatches].refs
      /\ Live(openMatches)
      /\ heap[openMatches].tree = openResponse
      /\ heap[openMatches].refs = EnumerationMatches(session, Walked)
  BY DEF PairedInv, SessionInv, MemoryInv, CursorInList
<1>2. session \in Databases
  BY DEF PairedInv, MemoryInv, TypeOK
<1>3. openResponse # NULL
  <2> SUFFICES ASSUME openResponse = NULL PROVE FALSE
    OBVIOUS
  <2>1. Walked = NoDocument
    BY DEF Walked
  <2>2. Candidates(NoDocument) = {}
    BY NullAssumption DEF Candidates, NoDocument
  <2> QED BY <1>1, <1>2, <2>1, <2>2, MatchesAreRecords
<1>4. Live(openResponse)
  BY <1>3 DEF PairedInv, MemoryInv, StaticsAreLive, Live
<1> QED BY <1>1, <1>3, <1>4 DEF Dangling

\* Opening what is closed: nothing was open that could be lost.
LEMMA PairedSetEnt ==
  ASSUME PairedInv, NEW db \in Databases, session = NULL, SetEnt(db)
  PROVE  PairedInv'
<1> USE DEF PairedInv
<1>1. MemoryInv'
  BY MemorySetEnt
<1>2. NoFault'
  BY NoBadDelete DEF SetEnt, NoFault
<1>3. PICK d \in Docs, st \in HandlerStatuses, r \in Ptr \cup {NULL}, m \in Ptr \cup {NULL} :
        Opens(db, d, st, r, m)
  BY DEF SetEnt
<1>4. openMatches = NULL
  BY DEF SessionInv
<1>5. NoLeak'
  <2> SUFFICES ASSUME NEW p \in Ptr, p # openResponse', p # openMatches'
               PROVE  heap'[p].kind = "free"
    BY DEF NoLeak, Owned
  <2>1. Answered(d, r) \in [Ptr -> Blocks] /\ p # r /\ p # m
    BY <1>3, PtrAssumption
    DEF Opens, MemoryInv, TypeOK, Blocks, Block, Answered, Cleared, Deleted, FREE
  <2>2. heap'[p] = Answered(d, r)[p]
    BY <1>3, <2>1 DEF Opens
  <2>3. Answered(d, r)[p].kind = "free"
    BY <1>4, <2>1, PtrAssumption DEF Answered, Cleared, Deleted, FREE, Block, NoLeak, Owned
  <2> QED BY <2>2, <2>3
<1>6. SessionInv'
  <2>1. CASE st = "SUCCESS"
    <3>1. /\ openResponse' = r
          /\ openMatches' = m
          /\ m \in Ptr \ {r}
          /\ heap' = [Answered(d, r) EXCEPT
                      ![m] = Block("refs", NoDocument, r, EnumerationMatches(db, d))]
          /\ cursor' = First(m, EnumerationMatches(db, d))
          /\ session' = db
          /\ IF d.type = NULL THEN r = NULL ELSE r \in Ptr
      BY <1>3, <2>1 DEF Opens
    <3>2. Answered(d, r) \in [Ptr -> Blocks]
      BY <3>1, PtrAssumption
      DEF MemoryInv, TypeOK, Blocks, Block, Answered, Cleared, Deleted, FREE
    <3>3. heap'[m] = Block("refs", NoDocument, r, EnumerationMatches(db, d))
      BY <3>1, <3>2
    <3>4. Walked' = d
      <4>1. CASE r = NULL
        BY <3>1, <4>1, DocsAssumption, PtrAssumption DEF Walked
      <4>2. CASE r # NULL
        <5>1. heap'[r] = Block("tree", d, NULL, {})
          BY <3>1, <3>2, <4>2, PtrAssumption DEF Answered, Cleared, Deleted
        <5> QED BY <3>1, <4>2, <5>1, NullAssumption DEF Walked, Block, Databases
      <4> QED BY <4>1, <4>2
    <3>5. cursor' # NULL => cursor'.block = m
      BY <3>1, MatchesArePositions, FirstOfList
    <3> QED BY <3>1, <3>3, <3>4, <3>5, PtrAssumption, NullAssumption
            DEF SessionInv, Block, Live, Databases
  <2>2. CASE st # "SUCCESS"
    BY <1>3, <1>4, <2>2 DEF Opens, SessionInv
  <2> QED BY <2>1, <2>2
<1> QED BY <1>1, <1>2, <1>5, <1>6

\* Reading what is open: the cursor does not dangle.
LEMMA PairedGetEnt ==
  ASSUME PairedInv, NEW db \in Databases, session = db, GetEnt(db)
  PROVE  PairedInv'
<1>1. MemoryInv'
  BY MemoryGetEnt DEF PairedInv
<1>2. session # NULL
  BY NullAssumption DEF Databases
<1>3. ~GetEntDangling(db)
  BY <1>2, CursorReadable DEF GetEntDangling
<1>4. UNCHANGED <<heap, openResponse, openMatches, session, fault>>
  BY <1>3 DEF GetEnt, GetEntAtEnd, GetEntEntry
<1>5. cursor' # NULL => cursor # NULL /\ cursor'.block = cursor.block
  <2>1. CASE GetEntAtEnd(db)
    BY <2>1 DEF GetEntAtEnd
  <2>2. CASE GetEntEntry(db)
    <3>1. cursor # NULL /\ cursor' = Following(cursor)
      BY <2>2 DEF GetEntEntry
    <3>2. cursor \in Entries
      BY <3>1 DEF PairedInv, MemoryInv, TypeOK
    <3> DEFINE rest == {i \in heap[cursor.block].refs : i > cursor.pos}
    <3>3. cursor.block \in Ptr /\ rest \in SUBSET Nat
      BY <3>2 DEF PairedInv, MemoryInv, TypeOK, Entries, Blocks
    <3>4. cursor' = First(cursor.block, rest)
      BY <3>1 DEF Following
    <3> HIDE DEF rest
    <3> QED BY <3>1, <3>3, <3>4, FirstOfList
  <2> QED BY <1>3, <2>1, <2>2 DEF GetEnt
<1> QED BY <1>1, <1>2, <1>4, <1>5
        DEF PairedInv, NoFault, NoLeak, Owned, SessionInv, Walked, Live

\* Closing what is open frees all that is allocated.
LEMMA PairedEndEnt ==
  ASSUME PairedInv, NEW db \in Databases, EndEnt(db)
  PROVE  PairedInv'
<1>1. MemoryInv'
  BY MemoryEndEnt DEF PairedInv
<1>2. NoFault'
  BY NoBadDelete DEF PairedInv, EndEnt, Ends, NoFault
<1>3. NoLeak'
  BY DEF PairedInv, EndEnt, Ends, NoLeak, Owned, Deleted, FREE, Block
<1>4. SessionInv'
  BY DEF EndEnt, Ends, SessionInv
<1> QED BY <1>1, <1>2, <1>3, <1>4 DEF PairedInv

\* So every call of a paired caller keeps the invariant.
LEMMA PairedStep == PairedInv /\ [PairedNext]_vars => PairedInv'
<1> SUFFICES ASSUME PairedInv, [PairedNext]_vars PROVE PairedInv'
  OBVIOUS
<1>1. CASE PairedNext
  BY <1>1, PairedSetEnt, PairedGetEnt, PairedEndEnt DEF PairedNext
<1>2. CASE UNCHANGED vars
  <2>1. MemoryInv'
    BY <1>2, MemoryNext DEF PairedInv
  <2> QED BY <1>2, <2>1 DEF vars, PairedInv, NoFault, NoLeak, Owned, SessionInv, Walked, Live
<1> QED BY <1>1, <1>2

\* And it holds throughout.
LEMMA PairedInvariant == PairedSpec => []PairedInv
BY PairedInit, PairedStep, PTL DEF PairedSpec

\* A caller who closes what he opens before he opens again never makes the
\* library read or free freed memory, whatever the documents are.
THEOREM PairedIsSafe == PairedSpec => []NoFault
<1>1. PairedInv => NoFault
  BY DEF PairedInv
<1> QED BY <1>1, PairedInvariant, PTL

\* Nor does it lose any memory.
THEOREM PairedIsTidy == PairedSpec => []NoLeak
<1>1. PairedInv => NoLeak
  BY DEF PairedInv
<1> QED BY <1>1, PairedInvariant, PTL

-----------------------------------------------------------------------------
(* The refinement                                                          *)

\* The initial state is one of the abstract specification.
LEMMA PromiseInit == Init => Promise!Init
BY DEF Init, Promise!Init, Walked, Remaining, NoReply, Promise!NoReply, Reply,
       Promise!Reply, Promise!NoDocument, NoDocument

\* Opening implements Open, or Refuse if the request fails.
LEMMA PromiseSetEnt ==
  ASSUME PairedInv, PairedInv', NEW db \in Databases, session = NULL, SetEnt(db)
  PROVE  Promise!Open(db) \/ Promise!Refuse(db)
<1>1. PICK d \in Docs, st \in HandlerStatuses, r \in Ptr \cup {NULL}, m \in Ptr \cup {NULL} :
        Opens(db, d, st, r, m)
  BY DEF SetEnt
<1>2. CASE st = "SUCCESS"
  <2>1. /\ openResponse' = r
        /\ openMatches' = m
        /\ m \in Ptr \ {r}
        /\ heap' = [Answered(d, r) EXCEPT
                    ![m] = Block("refs", NoDocument, r, EnumerationMatches(db, d))]
        /\ cursor' = First(m, EnumerationMatches(db, d))
        /\ session' = db
        /\ IF d.type = NULL THEN r = NULL ELSE r \in Ptr
        /\ reply' = Reply("setent", db, "SUCCESS", NULL, FALSE)
    BY <1>1, <1>2 DEF Opens
  <2>2. Answered(d, r) \in [Ptr -> Blocks]
    BY <2>1, PtrAssumption
    DEF PairedInv, MemoryInv, TypeOK, Blocks, Block, Answered, Cleared, Deleted, FREE
  <2>3. heap'[m].refs = EnumerationMatches(db, d)
    BY <2>1, <2>2 DEF Block
  <2>4. Walked' = d
    <3>1. CASE r = NULL
      BY <2>1, <3>1, DocsAssumption, PtrAssumption DEF Walked
    <3>2. CASE r # NULL
      <4>1. heap'[r] = Block("tree", d, NULL, {})
        BY <2>1, <2>2, <3>2, PtrAssumption DEF Answered, Cleared, Deleted
      <4> QED BY <2>1, <3>2, <4>1, NullAssumption DEF Walked, Block, Databases
    <3> QED BY <3>1, <3>2
  <2> DEFINE refs == EnumerationMatches(db, d)
  <2>5. refs \in SUBSET Nat
    BY MatchesArePositions
  <2>6. refs = {i \in Candidates(d) : IsRecordOf(db, d.items[i])}
    BY MatchesAreRecords
  <2>7. session' # NULL
    BY <2>1, NullAssumption DEF Databases
  <2> HIDE DEF refs
  <2>8. Remaining' = refs
    <3>1. CASE refs = {}
      <4>1. cursor' = NULL
        BY <2>1, <2>5, <3>1, FirstOfList DEF refs
      <4> QED BY <3>1, <4>1 DEF Remaining
    <3>2. CASE refs # {}
      <4>1. /\ cursor' # NULL
            /\ cursor'.block = m
            /\ refs = {i \in refs : i >= cursor'.pos}
        BY <2>1, <2>5, <3>2, FirstOfList DEF refs
      <4> QED BY <2>3, <2>7, <4>1 DEF Remaining, refs
    <3> QED BY <3>1, <3>2
  <2>9. refs = {i \in Promise!Candidates(d) : Promise!IsRecordOf(db, d.items[i])}
    BY <2>6
    DEF Candidates, IsRecordOf, IsPasswdRecord, IsGroupRecord, KeyExists, GetObjectItem,
        Promise!Candidates, Promise!IsRecordOf, Promise!IsPasswdRecord,
        Promise!IsGroupRecord, Promise!KeyExists, Promise!GetObjectItem
  <2>10. Promise!Open(db)
    BY <2>1, <2>4, <2>8, <2>9 DEF Promise!Open, Promise!Reply, Reply
  <2> QED BY <2>10
<1>3. CASE st # "SUCCESS"
  <2>1. session' = NULL /\ reply' = Reply("setent", db, st, NULL, FALSE)
    BY <1>1, <1>3 DEF Opens
  <2>2. st = "NOTFOUND"
    BY <1>3, StatusAssumption
  <2>3. UNCHANGED <<session, Walked, Remaining>>
    BY <2>1 DEF Walked, Remaining
  <2> QED BY <2>1, <2>2, <2>3 DEF Promise!Refuse, Promise!Reply, Reply
<1> QED BY <1>2, <1>3

\* Reading implements Deliver, or Exhausted at the end of the list.
LEMMA PromiseGetEnt ==
  ASSUME PairedInv, NEW db \in Databases, session = db, GetEnt(db)
  PROVE  Promise!Deliver(db) \/ Promise!Exhausted(db)
<1>1. session # NULL
  BY NullAssumption DEF Databases
<1>2. ~GetEntDangling(db)
  BY <1>1, CursorReadable DEF GetEntDangling
<1>3. CASE GetEntAtEnd(db)
  BY <1>3 DEF GetEntAtEnd, Promise!Exhausted, Promise!Reply, Reply, Remaining, Walked
<1>4. CASE GetEntEntry(db)
  <2>1. /\ cursor # NULL
        /\ cursor' = Following(cursor)
        /\ UNCHANGED <<heap, openResponse, openMatches, session>>
    BY <1>4 DEF GetEntEntry
  <2>2. PICK fits \in BOOLEAN :
          reply' = Reply("getent", db, "SUCCESS", ItemAt(cursor),
                         ConversionStatus(db, ItemAt(cursor), fits) = "SUCCESS")
    BY <1>4 DEF GetEntEntry
  <2>3. /\ cursor.block = openMatches
        /\ cursor.pos \in heap[openMatches].refs
        /\ openResponse # NULL
        /\ heap[openMatches].tree = openResponse
        /\ openMatches \in Ptr
    BY <1>1, <2>1, CursorReadable
    DEF PairedInv, SessionInv, MemoryInv, TypeOK, Entries
  <2>4. ItemAt(cursor) = Walked.items[cursor.pos]
    BY <1>1, <2>3 DEF ItemAt, Walked
  <2> DEFINE refs == heap[openMatches].refs
             rest == {i \in refs : i > cursor.pos}
  <2>5. refs \in SUBSET Nat /\ cursor.pos \in refs
    BY <2>3 DEF PairedInv, MemoryInv, TypeOK, Blocks
  <2>6. Remaining = {i \in refs : i >= cursor.pos}
    BY <1>1, <2>1, <2>3 DEF Remaining
  <2>7. cursor' = First(openMatches, rest)
    BY <2>1, <2>3 DEF Following
  <2>8. Remaining' = rest
    <3> HIDE DEF rest
    <3>1. rest \in SUBSET Nat
      BY <2>5 DEF rest
    <3>2. CASE rest = {}
      BY <2>3, <2>7, <3>1, <3>2, FirstOfList DEF Remaining
    <3>3. CASE rest # {}
      <4>1. /\ cursor' # NULL
            /\ cursor'.block = openMatches
            /\ cursor'.pos \in rest
            /\ rest = {i \in rest : i >= cursor'.pos}
        BY <2>3, <2>7, <3>1, <3>3, FirstOfList
      <4>2. Remaining' = {i \in refs : i >= cursor'.pos}
        BY <1>1, <2>1, <4>1 DEF Remaining
      <4>3. {i \in refs : i >= cursor'.pos} = {i \in rest : i >= cursor'.pos}
        BY <2>5, <4>1 DEF rest
      <4> QED BY <4>1, <4>2, <4>3
    <3> QED BY <3>2, <3>3
  <2>9. rest = Remaining \ {cursor.pos} /\ cursor.pos \in Remaining
    BY <2>5, <2>6
  <2>10. \A j \in Remaining : cursor.pos <= j
    BY <2>5, <2>6
  <2>11. UNCHANGED Walked
    BY <2>1 DEF Walked
  <2> DEFINE whole == ConversionStatus(db, ItemAt(cursor), fits) = "SUCCESS"
  <2>12. whole \in BOOLEAN
    OBVIOUS
  <2> HIDE DEF refs, rest, whole
  <2>13. reply' = Promise!Reply("getent", db, "SUCCESS", Walked.items[cursor.pos], whole)
    BY <2>2, <2>4 DEF Promise!Reply, Reply, whole
  <2>14. Promise!Deliver(db)
    BY <2>1, <2>8, <2>9, <2>10, <2>11, <2>12, <2>13 DEF Promise!Deliver
  <2> QED BY <2>14
<1> QED BY <1>2, <1>3, <1>4 DEF GetEnt

\* Closing implements Close.
LEMMA PromiseEndEnt ==
  ASSUME NEW db \in Databases, session = db, EndEnt(db)
  PROVE  Promise!Close(db)
BY DEF EndEnt, Ends, Promise!Close, Promise!Reply, Reply, Walked, Remaining,
       Promise!NoDocument, NoDocument

\* So every call is a step of the abstract specification, or none.
LEMMA PromiseStep ==
  PairedInv /\ PairedInv' /\ [PairedNext]_vars
    => [Promise!Next]_(Promise!abstractVars)
<1> SUFFICES ASSUME PairedInv, PairedInv', [PairedNext]_vars
             PROVE  Promise!Next \/ UNCHANGED Promise!abstractVars
  BY DEF Promise!Next
<1>1. CASE PairedNext
  BY <1>1, PromiseSetEnt, PromiseGetEnt, PromiseEndEnt
  DEF PairedNext, Promise!Next, Promise!Databases, Databases
<1>2. CASE UNCHANGED vars
  BY <1>2 DEF vars, Promise!abstractVars, Walked, Remaining
<1> QED BY <1>1, <1>2

\* To a caller who walks one database at a time the shared statics, the
\* reference lists and the cursor are what module Enumeration promises:
\* every record of the database, once, in order, and then no more.
THEOREM PairedKeepsPromise == PairedSpec => KeepsPromise
BY PromiseInit, PromiseStep, PairedInvariant, PTL
DEF PairedSpec, KeepsPromise, Promise!Spec

-----------------------------------------------------------------------------
(* Keyed calls: facts about the operators of the model                     *)

\* Saturation stays in the range of int.
LEMMA ValueIntFits ==
  ASSUME NEW num \in Int
  PROVE  ValueInt(num) \in INT_MIN .. INT_MAX
BY IntAssumption DEF ValueInt, INT_MIN

\* The conversions between uid_t and int are inverse to each other.
LEMMA ConversionsAreInverse ==
  ASSUME NEW int \in INT_MIN .. INT_MAX, NEW uid \in UIDS
  PROVE  /\ AsUid(int) \in UIDS
         /\ AsUid(int) = uid <=> int = AsInt(uid)
<1>1. INT_MAX \in Nat
  BY IntAssumption
<1> QED BY <1>1 DEF AsUid, AsInt, UIDS, INT_MIN

\* The id of a converted record is a uid_t, and its name a string.
LEMMA RecordHasTypes ==
  ASSUME NEW item \in Items, NEW db \in Databases
  PROVE  /\ GetStringByKey(item, "name") \in Strings \cup {NULL}
         /\ RecordId(db, item) \in UIDS
         /\ GetObjectItem(item, IdKey(db)).num \in Int
<1>1. \A key \in Keys : item[key] \in Attributes
  BY DEF Items
<1>2. IdKey(db) \in Keys /\ "name" \in Keys
  BY DEF IdKey, Databases, Keys
<1>3. \A key \in Keys : item[key].num \in Int /\ item[key].str \in Strings \cup {NULL}
  BY <1>1 DEF Attributes
<1>4. NOBODY \in INT_MIN .. INT_MAX /\ INT_MAX \in Nat
  BY IntAssumption DEF INT_MIN
<1>5. GetIntByKey(item, IdKey(db), NOBODY) \in INT_MIN .. INT_MAX
  BY <1>2, <1>3, <1>4, ValueIntFits DEF GetIntByKey, GetObjectItem
<1>6. 0 \in UIDS
  BY <1>4 DEF UIDS
<1> QED BY <1>2, <1>3, <1>5, <1>6, ConversionsAreInverse
        DEF RecordId, GetStringByKey, GetObjectItem

\* There is one result if the references are one.
LEMMA SingleResult ==
  ASSUME NEW refs, NULL \notin refs
  PROVE  /\ ExtractSingleResult(refs) = NULL => \A i : refs # {i}
         /\ ExtractSingleResult(refs) # NULL => refs = {ExtractSingleResult(refs)}
BY DEF ExtractSingleResult

\* A number gives an id exactly if it is what the id is as an int.
LEMMA NumberIsId ==
  ASSUME NEW item \in Items, NEW db \in Databases, NEW id \in UIDS,
         GetObjectItem(item, IdKey(db)).type = "Number"
  PROVE  RecordId(db, item) = id <=> IsIntMatch(item, IdKey(db), AsInt(id))
<1> DEFINE num == GetObjectItem(item, IdKey(db)).num
<1>1. num \in Int
  BY RecordHasTypes
<1>2. RecordId(db, item) = AsUid(ValueInt(num))
  BY DEF RecordId, GetIntByKey
<1>3. IsIntMatch(item, IdKey(db), AsInt(id)) <=> ValueInt(num) = AsInt(id)
  BY DEF IsIntMatch
<1> HIDE DEF num
<1> QED BY <1>1, <1>2, <1>3, ValueIntFits, ConversionsAreInverse

\* A search visits items of the document.
LEMMA CandidatesAreItems ==
  ASSUME NEW d \in Docs
  PROVE  /\ Candidates(d) \subseteq DOMAIN d.items
         /\ \A i \in DOMAIN d.items : d.items[i] \in Items
         /\ NULL \notin DOMAIN d.items
<1>1. d.items \in [DOMAIN d.items -> Items] /\ DOMAIN d.items \subseteq Nat
  BY DocsAssumption
<1>2. NULL \notin Nat
  BY NullAssumption
<1> QED BY <1>1, <1>2 DEF Candidates

\* The search for a name finds what is listed under the name, if the groups
\* that it finds have a gid.
LEMMA NamesAgree ==
  ASSUME doc \in Docs, NEW db \in Databases, NEW name \in Strings,
         db = "group" => GroupsHaveIds(name)
  PROVE  NameMatches(db, doc, name) = ListedByName(db, name)
<1>1. name # NULL
  BY NullAssumption
<1>2. CASE db = "passwd"
  BY <1>1, <1>2 DEF NameMatches, ListedByName, EnumerationMatches, GetStringMatches,
                    IsStringMatch, KeyExists, GetStringByKey
<1>3. CASE db = "group"
  BY <1>1, <1>3 DEF NameMatches, ListedByName, EnumerationMatches, GetStringMatches,
                    IsStringMatch, KeyExists, GetStringByKey, GroupsHaveIds
<1> QED BY <1>2, <1>3 DEF Databases

\* The search for an id finds what is listed under the id.
LEMMA IdsAgree ==
  ASSUME doc \in Docs, NEW db \in Databases, NEW id \in UIDS
  PROVE  IdMatches(db, doc, id) = ListedById(db, id)
<1>1. ASSUME NEW i \in Candidates(doc)
      PROVE  /\ IsIntMatch(doc.items[i], IdKey(db), AsInt(id))
                  <=> /\ GetObjectItem(doc.items[i], IdKey(db)).type = "Number"
                      /\ RecordId(db, doc.items[i]) = id
  <2>1. doc.items[i] \in Items
    BY CandidatesAreItems
  <2> QED BY <2>1, NumberIsId DEF IsIntMatch
<1>2. \A i \in Candidates(doc) :
        IsIntMatch(doc.items[i], IdKey(db), AsInt(id)) => KeyExists(doc.items[i], IdKey(db))
  BY DEF IsIntMatch, KeyExists
<1>3. CASE db = "passwd"
  BY <1>1, <1>2, <1>3 DEF IdMatches, ListedById, EnumerationMatches, GetIntMatches,
                          GetStringMatches, IsStringMatch, IdKey
<1>4. CASE db = "group"
  BY <1>1, <1>2, <1>4 DEF IdMatches, ListedById, EnumerationMatches, GetIntMatches,
                          GetStringMatches, IsStringMatch, IdKey
<1> QED BY <1>3, <1>4 DEF Databases

-----------------------------------------------------------------------------
(* Keyed calls: the inductive invariant                                    *)

\* What the call searched for.
Matches(r) ==
  IF r.op = "byname" THEN NameMatches(r.db, doc, r.key) ELSE IdMatches(r.db, doc, r.key)

\* A call that was served has found the only match, or there is no such
\* match; what is set in the struct is that of the match.
Found(r) ==
  /\ Matches(r) = {r.pos}
  /\ r.pos \in DOMAIN doc.items
  /\ r.name = NULL \/ r.name = GetStringByKey(doc.items[r.pos], "name")
  /\ r.id = NULL \/ r.id = RecordId(r.db, doc.items[r.pos])

IsRight(r) ==
  /\ r.op = "none" => r = NoResult
  /\ r.op # "none" => r.db \in Databases
  /\ r.op = "byname" => r.key \in Strings
  /\ r.op = "byid" => r.key \in UIDS
  /\ r.status = "SUCCESS" => r.served /\ Found(r)
  /\ r.served /\ r.status # "SUCCESS" => \A i : Matches(r) # {i}

IInv == LookupOK /\ IsRight(last) /\ IsRight(previous)

\* The answer before the first call.
LEMMA NoResultIsRight == ResultOK(NoResult) /\ IsRight(NoResult)
<1>1. ResultOK(NoResult)
  BY DEF ResultOK, NoResult, Result
<1> QED BY <1>1, StatusAssumption DEF IsRight, NoResult, Result

\* Nothing has been answered at the start.
LEMMA InvariantInit == LookupInit => IInv
BY NoResultIsRight DEF LookupInit, IInv, LookupOK

\* A call gives a right answer.
LEMMA CallStep ==
  ASSUME IInv, NEW op \in {"byname", "byid"}, NEW db \in Databases, NEW key,
         op = "byname" => key \in Strings, op = "byid" => key \in UIDS,
         NEW refs, refs = (IF op = "byname" THEN NameMatches(db, doc, key)
                                            ELSE IdMatches(db, doc, key)),
         Call(op, db, key, refs)
  PROVE  IInv'
<1>1. UNCHANGED doc /\ previous' = last /\ doc \in Docs
  BY DEF Call, IInv, LookupOK
<1>2. ResultOK(previous)' /\ IsRight(previous)'
  <2>1. ResultOK(last) /\ IsRight(last)
    BY DEF IInv, LookupOK
  <2> QED BY <1>1, <2>1 DEF ResultOK, IsRight, Found, Matches
<1>3. refs \subseteq Candidates(doc) /\ NULL \notin refs
  <2>1. refs \subseteq Candidates(doc)
    BY DEF NameMatches, IdMatches, GetStringMatches, GetIntMatches
  <2> QED BY <1>1, <2>1, CandidatesAreItems
<1> DEFINE pos == ExtractSingleResult(refs)
<1>4. ASSUME NEW status \in HandlerStatuses, status # "SUCCESS",
             last' = Result(op, db, key, FALSE, status, NULL, NULL, NULL)
      PROVE  ResultOK(last)' /\ IsRight(last)'
  <2>1. status = "NOTFOUND"
    BY <1>4, StatusAssumption
  <2>2. ResultOK(last)'
    BY <1>4, <2>1 DEF ResultOK, Result
  <2>3. IsRight(last)'
    BY <1>4 DEF IsRight, Result
  <2> QED BY <2>2, <2>3
<1>5. ASSUME pos = NULL,
             last' = Result(op, db, key, TRUE, "NOTFOUND", NULL, NULL, NULL)
      PROVE  ResultOK(last)' /\ IsRight(last)'
  <2>1. \A i : refs # {i}
    BY <1>3, <1>5, SingleResult
  <2>2. ResultOK(last)'
    BY <1>5 DEF ResultOK, Result
  <2>3. Matches(last)' = refs
    BY <1>1, <1>5 DEF Matches, Result
  <2>4. IsRight(last)'
    BY <1>5, <2>1, <2>3 DEF IsRight, Result
  <2> QED BY <2>2, <2>4
<1>6. ASSUME pos # NULL, NEW filled \in Fillings,
             last' = Result(op, db, key, TRUE, "SUCCESS", pos,
                            IF filled = "nothing" THEN NULL
                                                  ELSE GetStringByKey(doc.items[pos], "name"),
                            IF filled = "id" THEN RecordId(db, doc.items[pos]) ELSE NULL)
      PROVE  ResultOK(last)' /\ IsRight(last)'
  <2>1. refs = {pos}
    BY <1>3, <1>6, SingleResult
  <2>2. pos \in DOMAIN doc.items /\ doc.items[pos] \in Items
    BY <1>1, <1>3, <2>1, CandidatesAreItems
  <2> HIDE DEF pos
  <2>3. /\ GetStringByKey(doc.items[pos], "name") \in Strings \cup {NULL}
        /\ RecordId(db, doc.items[pos]) \in UIDS
    BY <2>2, RecordHasTypes
  <2>4. ResultOK(last)'
    BY <1>1, <1>6, <2>2, <2>3 DEF ResultOK, Result
  <2>5. Matches(last)' = refs
    BY <1>1, <1>6 DEF Matches, Result
  <2>6. Found(last)'
    BY <1>1, <1>6, <2>1, <2>2, <2>5 DEF Found, Result
  <2>7. IsRight(last)'
    BY <1>6, <2>6 DEF IsRight, Result
  <2> QED BY <2>4, <2>7
<1>7. ResultOK(last)' /\ IsRight(last)'
  BY <1>4, <1>5, <1>6 DEF Call, Answer
<1> QED BY <1>1, <1>2, <1>7 DEF IInv, LookupOK

\* Every step keeps the invariant.
LEMMA InvariantStep == IInv /\ [LookupNext]_lookupVars => IInv'
<1> SUFFICES ASSUME IInv, [LookupNext]_lookupVars PROVE IInv'
  OBVIOUS
<1>1. "passwd" \in Databases /\ "group" \in Databases
  BY DEF Databases
<1>2. ASSUME NEW name \in Strings, GetPwNam(name) \/ GetGrNam(name) PROVE IInv'
  BY <1>1, <1>2, CallStep DEF GetPwNam, GetGrNam
<1>3. ASSUME NEW id \in UIDS, GetPwUid(id) \/ GetGrGid(id) PROVE IInv'
  BY <1>1, <1>3, CallStep DEF GetPwUid, GetGrGid
<1>4. CASE Refresh
  <2>1. doc' \in Docs /\ last' = NoResult /\ previous' = NoResult
    BY <1>4 DEF Refresh
  <2>2. ResultOK(last)' /\ ResultOK(previous)'
    BY <2>1 DEF ResultOK, NoResult, Result
  <2>3. IsRight(last)' /\ IsRight(previous)'
    BY <2>1, StatusAssumption DEF IsRight, NoResult, Result
  <2> QED BY <2>1, <2>2, <2>3 DEF IInv, LookupOK
<1>5. CASE UNCHANGED lookupVars
  <2>1. doc' = doc /\ last' = last /\ previous' = previous
    BY <1>5 DEF lookupVars
  <2>2. Matches(last)' = Matches(last) /\ Matches(previous)' = Matches(previous)
    BY <2>1 DEF Matches
  <2>3. ResultOK(last)' /\ ResultOK(previous)'
    BY <2>1 DEF IInv, LookupOK, ResultOK
  <2>4. IsRight(last)'
    BY <2>1, <2>2 DEF IInv, IsRight, Found
  <2>5. IsRight(previous)'
    BY <2>1, <2>2 DEF IInv, IsRight, Found
  <2> QED BY <2>1, <2>3, <2>4, <2>5 DEF IInv, LookupOK
<1> QED BY <1>2, <1>3, <1>4, <1>5 DEF LookupNext

\* The invariant holds in every state of every behaviour.
LEMMA InvariantHolds == LookupSpec => []IInv
<1> QED BY InvariantInit, InvariantStep, PTL DEF LookupSpec

-----------------------------------------------------------------------------
(* Keyed calls: the properties                                             *)

\* A keyed call finds a record exactly when the enumeration of the same
\* document lists one, and only one, under that key, for every document.
THEOREM CallsAgreeWithListing == LookupSpec => []FoundIffListedOnce
<1>1. IInv => FoundIffListedOnce
  <2> SUFFICES ASSUME IInv, last.served,
                      last.op = "byname" /\ last.db = "group" => GroupsHaveIds(last.key)
               PROVE  IF last.status = "SUCCESS"
                        THEN Listed(last) = {last.pos}
                        ELSE \A i \in Listed(last) : Listed(last) # {i}
    BY DEF FoundIffListedOnce, IInv
  <2>1. doc \in Docs /\ IsRight(last) /\ last.op \in {"byname", "byid"}
    <3>1. doc \in Docs /\ ResultOK(last) /\ IsRight(last)
      BY DEF IInv, LookupOK
    <3>2. last.op # "none"
      <4>1. NoResult.served = FALSE
        BY DEF NoResult, Result
      <4> QED BY <3>1, <4>1 DEF IsRight
    <3> QED BY <3>1, <3>2 DEF ResultOK
  <2>2. Matches(last) = Listed(last)
    <3>1. CASE last.op = "byname"
      BY <2>1, <3>1, NamesAgree DEF Matches, Listed, IsRight
    <3>2. CASE last.op = "byid"
      BY <2>1, <3>2, IdsAgree DEF Matches, Listed, IsRight
    <3> QED BY <2>1, <3>1, <3>2
  <2>3. CASE last.status = "SUCCESS"
    BY <2>1, <2>2, <2>3 DEF IsRight, Found
  <2>4. CASE last.status # "SUCCESS"
    BY <2>1, <2>2, <2>4 DEF IsRight
  <2> QED BY <2>3, <2>4
<1> QED BY <1>1, InvariantHolds, PTL

\* Name to uid and back, or uid to name and back, leads to the same user,
\* for every document that gives the uid as a number.
THEOREM UsersAreNotConfused == LookupSpec => []RoundTrip
<1>1. IInv => RoundTrip
  <2> DEFINE item == doc.items[previous.pos]
  <2> SUFFICES ASSUME IInv,
                      \/ /\ previous.op = "byname" /\ last.op = "byid"
                         /\ last.key = previous.id
                      \/ /\ previous.op = "byid" /\ last.op = "byname"
                         /\ last.key = previous.name,
                      previous.db = "passwd", previous.status = "SUCCESS",
                      last.db = "passwd", last.status = "SUCCESS",
                      GetObjectItem(item, "uid").type = "Number"
               PROVE  last.pos = previous.pos
    BY DEF RoundTrip
  <2>1. doc \in Docs /\ IsRight(previous) /\ IsRight(last)
    BY DEF IInv, LookupOK
  <2>2. Found(previous) /\ Matches(last) = {last.pos}
    BY <2>1 DEF IsRight, Found
  <2>3. previous.pos \in Matches(previous) /\ previous.pos \in DOMAIN doc.items
    BY <2>2 DEF Found
  <2>4. item \in Items /\ IdKey("passwd") = "uid" /\ "passwd" \in Databases
    BY <2>1, <2>3, CandidatesAreItems DEF IdKey, Databases
  <2>5. NULL \notin UIDS /\ NULL \notin Strings
    BY NullAssumption DEF UIDS
  <2>6. CASE previous.op = "byname" /\ last.op = "byid" /\ last.key = previous.id
    <3>1. last.key \in UIDS /\ previous.key \in Strings
      BY <2>1, <2>6 DEF IsRight
    <3>2. RecordId("passwd", item) = last.key
      BY <2>2, <2>5, <2>6, <3>1 DEF Found
    <3>3. IsIntMatch(item, "uid", AsInt(last.key))
      BY <2>4, <3>1, <3>2, NumberIsId
    <3>4. previous.pos \in NameMatches("passwd", doc, previous.key)
      BY <2>3, <2>6 DEF Matches
    <3>5. previous.pos \in Candidates(doc) /\ KeyExists(item, "name")
      BY <2>5, <3>1, <3>4 DEF NameMatches, GetStringMatches, IsStringMatch, KeyExists
    <3>6. previous.pos \in IdMatches("passwd", doc, last.key)
      BY <2>4, <3>3, <3>5 DEF IdMatches, GetIntMatches
    <3>7. previous.pos \in Matches(last)
      BY <2>6, <3>6 DEF Matches
    <3> QED BY <2>2, <3>7
  <2>7. CASE previous.op = "byid" /\ last.op = "byname" /\ last.key = previous.name
    <3>1. last.key \in Strings /\ last.key # NULL
      BY <2>1, <2>5, <2>7 DEF IsRight
    <3>2. GetStringByKey(item, "name") = last.key
      BY <2>2, <2>7, <3>1 DEF Found
    <3>3. GetObjectItem(item, "name").type = "String"
          /\ GetObjectItem(item, "name").str = last.key
      BY <3>1, <3>2 DEF GetStringByKey
    <3>4. KeyExists(item, "uid")
      BY DEF KeyExists
    <3>5. previous.pos \in Candidates(doc)
      BY <2>3, <2>7 DEF Matches, IdMatches, GetIntMatches
    <3>6. previous.pos \in NameMatches("passwd", doc, last.key)
      BY <3>1, <3>3, <3>4, <3>5 DEF NameMatches, GetStringMatches, IsStringMatch
    <3>7. previous.pos \in Matches(last)
      BY <2>7, <3>6 DEF Matches
    <3> QED BY <2>2, <3>7
  <2> QED BY <2>6, <2>7
<1> QED BY <1>1, InvariantHolds, PTL
=============================================================================
