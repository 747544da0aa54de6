----------------------------- MODULE NssTransfer -----------------------------
(***************************************************************************)
(* How a document gets from the backend into memory, in nss-json-impl.c:   *)
(* performRequest, to which libcurl hands the document piece by piece, and *)
(* the superseded delegate_old, which reads the output of a script with    *)
(* fgets.  Both collect it in a buffer that grows.                         *)
(***************************************************************************)
EXTENDS Integers, Sequences, FiniteSetsExt

CONSTANTS
  NIL,          \* the null pointer
  Chars,        \* the characters of a document
  NEWLINE,      \* one of them
  NUL,          \* the byte 0, which a backend may send too
  JUNK,         \* a byte that has not been written
  BUFSIZE,      \* sizeof(buf) of read_data
  MaxLength,    \* bound on the bytes of a document
  MaxRequests   \* bound on the number of requests

Bytes == Chars \cup {NUL}

ASSUME TransferAssumption ==
  /\ NEWLINE \in Chars /\ {NUL, JUNK} \cap Chars = {} /\ NUL # JUNK
  /\ NIL \notin Seq(Bytes \cup {JUNK})
  /\ BUFSIZE \in Nat \ {0, 1}
  /\ MaxLength \in Nat /\ MaxRequests \in Nat

VARIABLES
  stage,      \* where the request is; "exited" and "crashed" end the process
  doc,        \* what the backend has sent for this request
  ptr,        \* the buffer: its bytes, or NIL
  len,        \* s.len of performRequest, i of read_data
  rendered,   \* requestJsonStr is allocated
  blocks,     \* how many blocks of memory are allocated
  response,   \* the text that was parsed to *responseJson, NIL without one
  status,     \* what the delegate returns
  whole,      \* history: the backend has sent all of the document
  refused,    \* history: an allocation of this request has failed
  requests,   \* history: how many requests there were,
  failures    \* and how many failed transfers

transferVars == <<stage, doc, ptr, len, rendered, blocks, response, status, whole,
                  refused, requests, failures>>
buffer == <<ptr, len>>
outcome == <<response, status>>
history == <<requests, failures>>

TransferInit ==
  /\ stage = "idle"
  /\ doc = <<>>
  /\ ptr = NIL /\ len = 0
  /\ rendered = FALSE
  /\ blocks = 0
  /\ response = NIL /\ status = NIL
  /\ whole = FALSE
  /\ refused = FALSE
  /\ requests = 0 /\ failures = 0

\* The string that begins at the start of the buffer.
Ends(s) == {i \in DOMAIN s : s[i] = NUL}
CString(s) == IF Ends(s) = {} THEN s ELSE SubSeq(s, 1, Min(Ends(s)) - 1)

\* A request begins; what the last one returned is the caller's.
Begins(next, first) ==
  /\ stage = "idle" /\ requests < MaxRequests
  /\ stage' = next
  /\ requests' = requests + 1
  /\ doc' = <<>> /\ whole' = FALSE
  /\ ptr' = first /\ len' = 0
  /\ response' = NIL /\ status' = NIL
  /\ UNCHANGED failures

-----------------------------------------------------------------------------
(* performRequest                                                          *)

\* The request is rendered, if the configuration says so.
Render ==
  /\ Begins("init", NIL)
  /\ \/ rendered' = TRUE /\ blocks' = blocks + 1 /\ refused' = FALSE
     \/ rendered' = FALSE /\ refused' \in BOOLEAN /\ UNCHANGED blocks

\* curl_easy_init, and init_string if that succeeds.
InitString ==
  /\ stage = "init"
  /\ \/ stage' = "curl" /\ ptr' = <<NUL>> /\ blocks' = blocks + 1 /\ UNCHANGED refused
     \/ stage' = "exited" /\ refused' = TRUE /\ UNCHANGED <<ptr, blocks>>
     \/ stage' = "cleanup" /\ UNCHANGED <<ptr, blocks, refused>>
  /\ UNCHANGED <<doc, len, rendered, outcome, whole, history>>

Pieces == UNION {[1 .. k -> Bytes] : k \in 1 .. MaxLength - Len(doc)}

\* What realloc and memcpy make of the buffer.
AppendedInFront(piece) == piece \o ptr
Appended(piece) == SubSeq(ptr, 1, len) \o piece \o <<NUL>>

\* writefunc: libcurl delivers a piece of the document.
WriteFunc ==
  /\ stage = "curl"
  /\ \E piece \in Pieces :
       /\ doc' = doc \o piece
       /\ \/ ptr' = Appended(piece) /\ len' = len + Len(piece) /\ UNCHANGED <<stage, refused>>
          \/ stage' = "exited" /\ refused' = TRUE /\ UNCHANGED buffer
  /\ UNCHANGED <<rendered, blocks, outcome, whole, history>>

\* cJSON_Parse may reject the text.
Parse == response' \in {NIL, CString(ptr)}

\* A variant of Transferred that parses what has arrived in any case.
TransferredInPart ==
  /\ stage = "curl"
  /\ stage' = "cleanup"
  /\ Parse
  /\ \/ whole' = TRUE /\ blocks' = blocks - 1 /\ UNCHANGED failures
     \/ failures' = failures + 1 /\ UNCHANGED <<whole, blocks>>
  /\ UNCHANGED <<doc, buffer, rendered, status, refused, requests>>

\* curl_easy_perform returns: the buffer of a failed transfer is not freed.
Transferred ==
  /\ stage = "curl"
  /\ stage' = "cleanup"
  /\ \/ whole' = TRUE /\ Parse /\ blocks' = blocks - 1 /\ UNCHANGED failures
     \/ failures' = failures + 1 /\ UNCHANGED <<whole, response, blocks>>
  /\ UNCHANGED <<doc, buffer, rendered, status, refused, requests>>

\* A variant of Cleanup that forgets the rendered request.
CleanupNothing ==
  /\ stage = "cleanup"
  /\ stage' = "idle" /\ status' = "SUCCESS" /\ rendered' = FALSE
  /\ UNCHANGED <<doc, buffer, blocks, response, whole, refused, history>>

\* The end of performRequest and of delegate, which takes the address of its
\* result for the result.
Cleanup ==
  /\ stage = "cleanup"
  /\ stage' = "idle" /\ status' = "SUCCESS" /\ rendered' = FALSE
  /\ blocks' = IF rendered THEN blocks - 1 ELSE blocks
  /\ UNCHANGED <<doc, buffer, response, whole, refused, history>>

-----------------------------------------------------------------------------
(* delegate_old, read_json_old and read_data                               *)

\* popen, and the malloc of read_data, of which the result is not looked at.
Popen ==
  /\ UNCHANGED rendered
  /\ \/ /\ Begins("fgets", [i \in 1 .. BUFSIZE |-> JUNK])
        /\ blocks' = blocks + 1 /\ refused' = FALSE
     \/ Begins("fgets", NIL) /\ refused' = TRUE /\ UNCHANGED blocks
     \/ Begins("closed", NIL) /\ refused' = FALSE /\ UNCHANGED blocks

\* What fgets returns: up to a newline, or as much as fits, or the rest.
Fgets == {l \in Pieces : Len(l) < BUFSIZE /\ \A i \in 1 .. Len(l) - 1 : l[i] # NEWLINE}
IsCut(line) == line[Len(line)] # NEWLINE /\ Len(line) < BUFSIZE - 1

\* A variant of NewLength that does not count the NUL.
NewLengthTight(n) == (1 + (n - 1) \div BUFSIZE) * BUFSIZE
NewLength(n) == (1 + ((n + 1) - 1) \div BUFSIZE) * BUFSIZE

\* The buffer with room for n bytes and a NUL.
Grown(n) ==
  IF n < Len(ptr) THEN ptr
  ELSE [i \in 1 .. NewLength(n) |-> IF i \in DOMAIN ptr THEN ptr[i] ELSE JUNK]

\* strncpy behind what is there.
Copied(s, d) == [i \in DOMAIN s |-> IF i - len \in DOMAIN d THEN d[i - len] ELSE s[i]]

\* A turn of the loop of read_data, with the string d of the line.
AppendLine(d, next) ==
  IF ptr = NIL
    THEN stage' = (IF d = <<>> THEN next ELSE "crashed") /\ UNCHANGED <<buffer, blocks, refused>>
    ELSE \/ /\ ptr' = Copied(Grown(len + Len(d)), d)
            /\ len' = len + Len(d)
            /\ stage' = IF len + Len(d) <= Len(Grown(len + Len(d))) THEN next ELSE "crashed"
            /\ UNCHANGED <<blocks, refused>>
         \/ /\ len + Len(d) >= Len(ptr)
            /\ ptr' = NIL /\ blocks' = blocks - 1 /\ refused' = TRUE
            /\ stage' = "read" /\ UNCHANGED len

ReadData ==
  /\ stage = "fgets"
  /\ \E line \in Fgets :
       /\ doc' = doc \o line
       /\ AppendLine(CString(line), IF IsCut(line) THEN "eof" ELSE "fgets")
  /\ UNCHANGED <<rendered, outcome, whole, history>>

\* fgets returns NULL at the end of the output, and also when reading fails:
\* the code does not ask which, and takes what it has for the whole document.
EndOfData ==
  /\ stage \in {"fgets", "eof"}
  /\ whole' = TRUE
  /\ IF ptr = NIL THEN stage' = "read" /\ UNCHANGED ptr
     ELSE /\ ptr' = [ptr EXCEPT ![len + 1] = NUL]
          /\ stage' = IF len < Len(ptr) THEN "read" ELSE "crashed"
  /\ UNCHANGED <<doc, len, rendered, blocks, outcome, refused, history>>

\* pclose, and the end of read_json_old, whatever the exit code is.
ParseData ==
  /\ stage = "read"
  /\ stage' = "closed"
  /\ IF ptr = NIL THEN response' = NIL /\ UNCHANGED blocks
                   ELSE Parse /\ blocks' = blocks - 1
  /\ UNCHANGED <<doc, buffer, rendered, status, whole, refused, history>>

\* The end of delegate_old, with the exit code of the script, or 1 without one.
Answer ==
  /\ stage = "closed"
  /\ stage' = "idle"
  /\ status' \in {"SUCCESS", "UNAVAIL"}
  /\ UNCHANGED <<doc, buffer, rendered, blocks, response, whole, refused, history>>

TransferNext ==
  \/ Render \/ InitString \/ WriteFunc \/ Transferred \/ Cleanup
  \/ Popen \/ ReadData \/ EndOfData \/ ParseData \/ Answer

TransferSpec == TransferInit /\ [][TransferNext]_transferVars

-----------------------------------------------------------------------------
(* Properties                                                              *)

ControlOK ==
  /\ stage \in {"idle", "init", "curl", "cleanup", "fgets", "eof", "read", "closed", "exited",
             "crashed"}
  /\ status \in {NIL, "SUCCESS", "UNAVAIL"}
  /\ rendered \in BOOLEAN /\ whole \in BOOLEAN /\ refused \in BOOLEAN

DataOK ==
  /\ doc \in Seq(Bytes) /\ Len(doc) <= MaxLength
  /\ ptr = NIL \/ ptr \in Seq(Bytes \cup {JUNK})
  /\ len \in 0 .. MaxLength
  /\ response = NIL \/ response \in Seq(Chars)

CountsOK ==
  /\ blocks \in Nat /\ failures \in Nat
  /\ requests \in 0 .. MaxRequests

TransferOK == ControlOK /\ DataOK /\ CountsOK

\* A document that is returned is all of what the backend has sent, byte for
\* byte, in whatever pieces or lines it arrived and however often the buffer
\* was moved; a transfer that broke off returns none.  (A byte 0 ends the
\* document, or the line.)
DocumentIsWhole ==
  response # NIL => whole /\ (NUL \notin {doc[i] : i \in DOMAIN doc} => response = doc)

\* Nothing is written outside of the buffers, with the terminating NUL in the
\* last byte of a full one, unless there was no memory for the first buffer.
StaysInside == TransferOK /\ (stage = "crashed" => refused)

\* Between requests no memory is held, but for one buffer of each transfer
\* that failed.
OnlyFailuresLoseTheBuffer == stage = "idle" => blocks = failures
=============================================================================
