----------------------------- MODULE MCNssEnum -----------------------------
(***************************************************************************)
(* A small instance of NssEnum.  The items are one of each sort that the   *)
(* searches tell apart; the documents are the arrays of up to two of them, *)
(* single objects, another JSON value, and no document at all.             *)
(***************************************************************************)
EXTENDS NssEnum, TLC

MCStrings == {"ann"}

Attribute(type) == [type |-> type, str |-> NULL, num |-> 0]
Missing == Attribute("Missing")
Text(s) == [type |-> "String", str |-> s, num |-> 0]
Number(n) == [type |-> "Number", str |-> NULL, num |-> n]

Item(name, uid, gid, members) ==
  [k \in Keys |-> CASE k = "name" -> name [] k = "uid" -> uid
                    [] k = "gid" -> gid [] k = "members" -> members]

User == Item(Text("ann"), Number(1), Number(1), Missing)
Team == Item(Text("ann"), Missing, Number(1), Attribute("Array"))
BadTeam == Item(Missing, Missing, Number(1), Text("ann"))
Both == Item(Text("ann"), Number(1), Number(1), Attribute("Array"))
Nameless == Item(Attribute("Null"), Number(1), Missing, Missing)

Arrays(items) ==
  {[type |-> "Array", items |-> s] :
     s \in {<<>>} \cup {<<i>> : i \in items} \cup (items \X items)}

Objects(items) == {[type |-> "Object", items |-> <<i>>] : i \in items}

OtherDocument == [type |-> "Other", items |-> <<>>]

\* Every walk of one database.
AllDocs == Arrays({User, Team, BadTeam, Both, Nameless})
             \cup Objects({User, Team, Both}) \cup {OtherDocument, NoDocument}

\* Enough for lists that are empty, that end and that go on.
FewDocs == {[type |-> "Array", items |-> <<User, Team, Both>>],
            [type |-> "Array", items |-> <<Team>>], NoDocument}

PtrSymmetry == Permutations(Ptr)
=============================================================================
