---------------------------- MODULE MCNssLookup ----------------------------
(***************************************************************************)
(* The two halves of a keyed call: NssLookup finds the record and decides, *)
(* NssBindings fills the struct and the buffer of the caller.  A behaviour *)
(* looks records up in one document after another, or converts one record, *)
(* and the other half rests.                                               *)
(*                                                                         *)
(* Ints have two bits, so that the ids of the documents reach past an int  *)
(* on both sides and the ids that callers ask for are all there are.       *)
(***************************************************************************)
EXTENDS NssLookup, MCNssBindings

MCStrings == {"ann", "bob"}

Attribute(type) == [type |-> type, str |-> NULL, num |-> 0]
Missing == Attribute("Missing")
Text(s) == [type |-> "String", str |-> s, num |-> 0]
Number(n) == [type |-> "Number", str |-> NULL, num |-> n]

User(name, uid) ==
  [k \in Keys |-> CASE k = "name" -> name [] k = "uid" -> uid [] OTHER -> Missing]

Team(name, gid, members) ==
  [k \in Keys |-> CASE k = "name" -> name [] k = "gid" -> gid
                    [] k = "members" -> members [] OTHER -> Missing]

\* An int is one of -2 .. 1, a uid_t one of 0 .. 3, and 0 is nobody.
Users ==
  {User(Text("ann"), Number(n)) : n \in {-3, -1, 0, 1, 2}}
    \cup {User(Text("bob"), u) : u \in {Number(1), Text("ann"), Missing}}
    \cup {User(Attribute("Null"), Number(1))}

Teams ==
  {Team(Text("ann"), Number(1), m) : m \in {Attribute("Array"), Attribute("Null"), Text("ann")}}
    \cup {Team(Text("ann"), g, Attribute("Array")) : g \in {Number(2), Missing}}
    \cup {Team(Text("bob"), Number(1), Attribute("Array"))}

Pairs(items) == {[type |-> "Array", items |-> <<i, j>>] : i \in items, j \in items}

Singles(items) ==
  {[type |-> t, items |-> <<i>>] : t \in {"Object"}, i \in items}

MCDocs ==
  Pairs(Users) \cup Pairs(Teams) \cup Singles(Users \cup Teams)
    \cup {[type |-> t, items |-> <<>>] : t \in {"Array", "Other", NULL}}

-----------------------------------------------------------------------------
(* One half or the other                                                   *)

halves == <<lookupVars, conversionVars>>

LookupRests == doc = NoDocument /\ last = NoResult /\ previous = NoResult

\* A shadow record without strings has been converted.
ConversionRests ==
  /\ conv = Conversion("shadow", <<NIL, NIL>>, <<>>, FALSE)
  /\ base = 8 /\ size = 0 /\ buffer = base /\ buflen = size
  /\ pc = "done" /\ index = 3
  /\ fields = <<NIL, NIL>> /\ grMem = NIL /\ memPtrs = <<>>
  /\ status = "SUCCESS" /\ errnop = "unset" /\ tight = FALSE

MCInit == \/ LookupInit /\ ConversionRests
          \/ ConversionInit /\ LookupRests

MCNext == \/ ConversionRests /\ LookupNext /\ UNCHANGED conversionVars
          \/ ConversionNext /\ UNCHANGED lookupVars

MCSpec == MCInit /\ [][MCNext]_halves
=============================================================================
