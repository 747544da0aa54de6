---------------------------- MODULE Enumeration ----------------------------
(***************************************************************************)
(* What walking a database promises: a caller opens it, is handed every    *)
(* record of the backend's document that the README counts as a record of  *)
(* that database, once and in document order, is then told that there are  *)
(* no more, and closes it.  Nothing here has a cursor, a reference list or *)
(* memory to free; module NssEnum shows that the code keeps this promise   *)
(* to a caller who walks one database at a time.                           *)
(***************************************************************************)
EXTENDS NssMatch

VARIABLES
  walking,   \* the database that is open, NULL for none
  doc,       \* the document it is read from
  todo,      \* positions of the records that have not been handed out
  reply      \* what the last call told its caller

abstractVars == <<walking, doc, todo, reply>>

Reply(op, db, status, item, filled) ==
  [op |-> op, db |-> db, status |-> status, item |-> item, filled |-> filled]

NoReply == Reply("none", NULL, NULL, NULL, FALSE)

Init ==
  /\ walking = NULL
  /\ doc = NoDocument
  /\ todo = {}
  /\ reply = NoReply

Open(db) ==
  /\ walking = NULL
  /\ \E d \in Docs :
       /\ doc' = d
       /\ todo' = {i \in Candidates(d) : IsRecordOf(db, d.items[i])}
  /\ walking' = db
  /\ reply' = Reply("setent", db, "SUCCESS", NULL, FALSE)

Refuse(db) ==
  /\ walking = NULL
  /\ \E status \in {"NOTFOUND", "UNAVAIL"} :
       reply' = Reply("setent", db, status, NULL, FALSE)
  /\ UNCHANGED <<walking, doc, todo>>

\* The walk does not promise that the record is filled in: a SUCCESS may come
\* with one that did not fit the caller's buffer and is skipped for good,
\* since getpwent_r and getgrent_r drop the status of the conversion.
Deliver(db) ==
  /\ walking = db
  /\ \E i \in todo, filled \in BOOLEAN :
       /\ \A j \in todo : i <= j
       /\ todo' = todo \ {i}
       /\ reply' = Reply("getent", db, "SUCCESS", doc.items[i], filled)
  /\ UNCHANGED <<walking, doc>>

Exhausted(db) ==
  /\ walking = db
  /\ todo = {}
  /\ reply' = Reply("getent", db, "NOTFOUND", NULL, FALSE)
  /\ UNCHANGED <<walking, doc, todo>>

Close(db) ==
  /\ walking = db
  /\ walking' = NULL
  /\ doc' = NoDocument
  /\ todo' = {}
  /\ reply' = Reply("endent", db, "SUCCESS", NULL, FALSE)

Next ==
  \E db \in Databases :
    Open(db) \/ Refuse(db) \/ Deliver(db) \/ Exhausted(db) \/ Close(db)

Spec == Init /\ [][Next]_abstractVars
=============================================================================
