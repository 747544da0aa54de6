------------------------------ MODULE NssMatch ------------------------------
(***************************************************************************)
(* Picking records out of a response document: cJSON-utils.c, and the      *)
(* parts of cJSON.c it calls.                                              *)
(*                                                                         *)
(* A document is what cJSON_Parse made of the backend's answer.  Its type  *)
(* is "Array" or "Object" (the two that hold records), "Other" for any     *)
(* other JSON value, or NULL for the NULL pointer of a failed request.     *)
(* Its items are the array's elements, or the single object itself.        *)
(*                                                                         *)
(* An item maps each key this library asks for to the attribute found      *)
(* under it.  An element that is not an object has no attribute at all.    *)
(* A set of references is the set of the positions of the items it refers  *)
(* to: references are appended in document order and name their item.      *)
(***************************************************************************)
EXTENDS Integers

CONSTANTS
  NULL,              \* the null pointer
  Strings,           \* the strings that records and requests use
  INT_MAX,           \* the largest int
  NOBODY,            \* the id reported when a record has none, 65534 in the code
  Docs,              \* the documents the backend can answer with
  HandlerStatuses    \* what _nss_json_handle_request may return

ASSUME NullAssumption ==
  NULL \notin Int \cup Strings \cup {"Array", "Object", "Other", "passwd", "group"}
ASSUME IntAssumption == INT_MAX \in Nat \ {0} /\ NOBODY \in 0 .. INT_MAX

INT_MIN == -INT_MAX - 1

\* uid_t and gid_t have the width of int and no sign.
UIDS == 0 .. 2 * INT_MAX + 1

-----------------------------------------------------------------------------
(* cJSON values                                                            *)

\* valueint saturates where the JSON number does not fit an int.
ValueInt(num) ==
  IF num >= INT_MAX THEN INT_MAX ELSE IF num <= INT_MIN THEN INT_MIN ELSE num

\* The implicit conversions between uid_t and int keep the bits.
AsInt(uid) == IF uid > INT_MAX THEN uid - 2 * INT_MAX - 2 ELSE uid
AsUid(int) == IF int < 0 THEN int + 2 * INT_MAX + 2 ELSE int

Keys == {"name", "uid", "gid", "members"}

Attributes ==
  [type : {"Missing", "Null", "Number", "String", "Array", "Other"},
   str  : Strings \cup {NULL},
   num  : Int]

Items == [Keys -> Attributes]

Databases == {"passwd", "group"}

\* The first member of that name, whatever its case; "Missing" for none.
GetObjectItem(item, key) == item[key]

GetIntByKey(item, key, default) ==
  LET child == GetObjectItem(item, key)
  IN  IF child.type = "Number" THEN ValueInt(child.num) ELSE default

GetStringByKey(item, key) ==
  LET child == GetObjectItem(item, key)
  IN  IF child.type = "String" THEN child.str ELSE NULL

-----------------------------------------------------------------------------
(* Matching                                                                *)

KeyExists(item, key) == GetObjectItem(item, key).type \notin {"Missing", "Null"}

\* With no value to compare, the key only has to exist.
IsStringMatch(item, key, value) ==
  IF value = NULL
    THEN KeyExists(item, key)
    ELSE /\ GetObjectItem(item, key).type = "String"
         /\ GetObjectItem(item, key).str = value

IsIntMatch(item, key, value) ==
  /\ GetObjectItem(item, key).type = "Number"
  /\ ValueInt(GetObjectItem(item, key).num) = value

\* What a request that produced no document leaves behind.
NoDocument == [type |-> NULL, items |-> <<>>]

ASSUME DocsAssumption ==
  \A d \in Docs : /\ d.type \in {"Array", "Object", "Other", NULL}
                  /\ DOMAIN d.items \subseteq Nat
                  /\ d.items \in [DOMAIN d.items -> Items]
                  /\ d.type = NULL => d = NoDocument

ASSUME StatusAssumption ==
  /\ "SUCCESS" \in HandlerStatuses /\ HandlerStatuses \subseteq {"SUCCESS", "NOTFOUND"}
  /\ NULL # "SUCCESS"

\* The positions a search visits: an object counts as an array of one item.
Candidates(doc) ==
  IF doc.type \in {"Array", "Object"} THEN DOMAIN doc.items ELSE {}

GetStringMatches(doc, key, value, requiredKey) ==
  {i \in Candidates(doc) : /\ IsStringMatch(doc.items[i], key, value)
                           /\ KeyExists(doc.items[i], requiredKey)}

GetIntMatches(doc, key, value, requiredKey) ==
  {i \in Candidates(doc) : /\ IsIntMatch(doc.items[i], key, value)
                           /\ KeyExists(doc.items[i], requiredKey)}

\* A variant that takes the first of several.
ExtractFirst(refs) ==
  IF refs = {} THEN NULL ELSE CHOOSE i \in refs : \A j \in refs : i <= j

\* The item behind the only reference, or NULL for none or several.
ExtractSingleResult(refs) ==
  IF \E i \in refs : refs = {i} THEN CHOOSE i \in refs : TRUE ELSE NULL

-----------------------------------------------------------------------------
(* The searches of nss-json.c.  db is "passwd" or "group".                 *)

\* A variant that forgets the second key.
EnumerationMatchesOneKey(db, doc) ==
  IF db = "passwd" THEN GetStringMatches(doc, "name", NULL, "name")
                   ELSE GetStringMatches(doc, "members", NULL, "members")

\* The records setpwent and setgrent list: a key that must exist, with no
\* value to compare, and a key that is required beside it.
EnumerationMatches(db, doc) ==
  IF db = "passwd" THEN GetStringMatches(doc, "name", NULL, "uid")
                   ELSE GetStringMatches(doc, "members", NULL, "gid")

\* getpwnam_r, getgrnam_r
NameMatches(db, doc, name) ==
  GetStringMatches(doc, "name", name, IF db = "passwd" THEN "uid" ELSE "members")

\* getpwuid_r, getgrgid_r: the uid_t asked for is passed on as an int.
IdKey(db) == IF db = "passwd" THEN "uid" ELSE "gid"

\* A variant that forgets the required key.
IdMatchesAlone(db, doc, id) == GetIntMatches(doc, IdKey(db), AsInt(id), IdKey(db))

IdMatches(db, doc, id) ==
  GetIntMatches(doc, IdKey(db), AsInt(id), IF db = "passwd" THEN "name" ELSE "members")

\* What json2pwd or json2grp answers.  fits says whether everything that is
\* copied finds room in the caller's buffer.
ConversionStatus(db, item, fits) ==
  IF ~fits THEN "TRYAGAIN"
  ELSE IF db = "group" /\ GetObjectItem(item, "members").type # "Array" THEN "NOTFOUND"
  ELSE "SUCCESS"

\* The id that the converted record carries.
RecordId(db, item) == AsUid(GetIntByKey(item, IdKey(db), NOBODY))

-----------------------------------------------------------------------------
(* What makes an item a record of a database, as the README defines it.    *)
(* The searches above are not written in terms of these.                   *)

IsPasswdRecord(item) == KeyExists(item, "uid") /\ KeyExists(item, "name")
IsGroupRecord(item) == KeyExists(item, "gid") /\ KeyExists(item, "members")

IsRecordOf(db, item) ==
  IF db = "passwd" THEN IsPasswdRecord(item) ELSE IsGroupRecord(item)
=============================================================================
