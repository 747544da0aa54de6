----------------------------- MODULE NssLookup -----------------------------
(***************************************************************************)
(* The keyed calls of nss-json.c: getpwnam_r, getpwuid_r, getgrnam_r and   *)
(* getgrgid_r.  Each asks for the document, searches it, and converts the  *)
(* record when the search found exactly one.  What they share is the       *)
(* document, which the cache replaces between calls; the last two answers  *)
(* given from the same document are kept to state how answers agree.       *)
(***************************************************************************)
EXTENDS NssMatch

VARIABLES
  doc,       \* the document in the cache
  last,      \* the answer to the last call
  previous   \* the answer to the call before, if it saw the same document

lookupVars == <<doc, last, previous>>

\* name and id are those of the struct the caller passed in; each is NULL if
\* the call did not set it.  served says whether the request that the call
\* made was answered.
Result(op, db, key, served, status, pos, name, id) ==
  [op |-> op, db |-> db, key |-> key, served |-> served, status |-> status,
   pos |-> pos, name |-> name, id |-> id]

NoResult == Result("none", NULL, NULL, FALSE, NULL, NULL, NULL, NULL)

LookupInit ==
  /\ doc \in Docs
  /\ last = NoResult
  /\ previous = NoResult

\* How far json2pwd and json2grp get before something does not fit: the name
\* is copied first, the id is set when the other strings are in place.
Fillings == {"nothing", "name", "id"}

\* The part after _nss_json_handle_request.  The status of the conversion is
\* not looked at: a single match is a SUCCESS, however little of the struct
\* was filled.
Answer(op, db, key, refs) ==
  LET pos == ExtractSingleResult(refs)
  IN  IF pos = NULL
        THEN last' = Result(op, db, key, TRUE, "NOTFOUND", NULL, NULL, NULL)
        ELSE \E filled \in Fillings :
               last' = Result(op, db, key, TRUE, "SUCCESS", pos,
                              IF filled = "nothing" THEN NULL
                                                    ELSE GetStringByKey(doc.items[pos], "name"),
                              IF filled = "id" THEN RecordId(db, doc.items[pos]) ELSE NULL)

\* One call: a request that fails is answered with the handler's status.
Call(op, db, key, refs) ==
  /\ \E status \in HandlerStatuses :
       IF status = "SUCCESS"
         THEN Answer(op, db, key, refs)
         ELSE last' = Result(op, db, key, FALSE, status, NULL, NULL, NULL)
  /\ previous' = last
  /\ UNCHANGED doc

GetPwNam(name) == Call("byname", "passwd", name, NameMatches("passwd", doc, name))

GetPwUid(uid) == Call("byid", "passwd", uid, IdMatches("passwd", doc, uid))

GetGrNam(name) == Call("byname", "group", name, NameMatches("group", doc, name))

GetGrGid(gid) == Call("byid", "group", gid, IdMatches("group", doc, gid))

\* The cache has expired and was filled again.
Refresh ==
  /\ doc' \in Docs
  /\ last' = NoResult
  /\ previous' = NoResult

LookupNext ==
  \/ \E name \in Strings : GetPwNam(name) \/ GetGrNam(name)
  \/ \E id \in UIDS : GetPwUid(id) \/ GetGrGid(id)
  \/ Refresh

LookupSpec == LookupInit /\ [][LookupNext]_lookupVars

-----------------------------------------------------------------------------
(* Properties                                                              *)

ResultOK(r) ==
  /\ r.op \in {"none", "byname", "byid"}
  /\ r.db \in Databases \cup {NULL}
  /\ r.served \in BOOLEAN
  /\ r.status \in {"SUCCESS", "NOTFOUND", NULL}
  /\ r.pos \in DOMAIN doc.items \cup {NULL}
  /\ r.name \in Strings \cup {NULL}
  /\ r.id \in UIDS \cup {NULL}

LookupOK == doc \in Docs /\ ResultOK(last) /\ ResultOK(previous)

\* The records an enumeration lists under a name, and those it lists under
\* an id that the document gives as a number.
ListedByName(db, name) ==
  {i \in EnumerationMatches(db, doc) : GetStringByKey(doc.items[i], "name") = name}

ListedById(db, id) ==
  {i \in EnumerationMatches(db, doc) :
     /\ GetObjectItem(doc.items[i], IdKey(db)).type = "Number"
     /\ RecordId(db, doc.items[i]) = id}

Listed(r) == IF r.op = "byname" THEN ListedByName(r.db, r.key)
                                ELSE ListedById(r.db, r.key)

\* The groups that getgrnam finds under a name have a gid, for which its
\* search, unlike the enumeration, does not ask.
GroupsHaveIds(name) ==
  \A i \in NameMatches("group", doc, name) : KeyExists(doc.items[i], "gid")

\* A keyed call and an enumeration of the same document never disagree: the
\* call finds a record exactly when one, and only one, is listed under that
\* key.  Of getgrnam this holds where each group of that name has a gid.
FoundIffListedOnce ==
  /\ LookupOK
  /\ last.served /\ (last.op = "byname" /\ last.db = "group" => GroupsHaveIds(last.key))
     => IF last.status = "SUCCESS" THEN Listed(last) = {last.pos}
                                    ELSE \A i \in Listed(last) : Listed(last) # {i}

\* Looking a user up by name and then by the uid that was reported, or by
\* uid and then by the reported name, never leads to another user, provided
\* that the document gives the uid as a number.
RoundTrip ==
  LET asked == \/ previous.op = "byname" /\ last.op = "byid" /\ last.key = previous.id
               \/ previous.op = "byid" /\ last.op = "byname" /\ last.key = previous.name
      found == \A r \in {previous, last} : r.db = "passwd" /\ r.status = "SUCCESS"
  IN  asked /\ found /\ GetObjectItem(doc.items[previous.pos], "uid").type = "Number"
        => last.pos = previous.pos
=============================================================================
