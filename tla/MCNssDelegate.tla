---------------------------- MODULE MCNssDelegate ----------------------------
(***************************************************************************)
(* The two halves of delegate: NssConfig finds out where the document is,  *)
(* NssTransfer brings it into memory.  They have no memory in common, so   *)
(* that each behaviour is one of either, and the other half rests.         *)
(***************************************************************************)
EXTENDS MCNssConfig, NssTransfer

halves == <<vars, transferVars>>

ConfigRests == Init /\ file = NULL

\* Before the first request the process has exited.
TransferRests ==
  /\ stage = "exited"
  /\ doc = <<>> /\ ptr = NIL /\ len = 0 /\ rendered = FALSE /\ blocks = 0
  /\ response = NIL /\ status = NIL /\ whole = FALSE /\ refused = FALSE
  /\ requests = 0 /\ failures = 0

MCInit == \/ Init /\ TransferRests
          \/ TransferInit /\ ConfigRests

MCNext == \/ TransferRests /\ Next /\ UNCHANGED transferVars
          \/ TransferNext /\ UNCHANGED vars

MCSpec == MCInit /\ [][MCNext]_halves
=============================================================================
