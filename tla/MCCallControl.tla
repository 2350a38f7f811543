--------------------------- MODULE MCCallControl ---------------------------
(* Instances of CallControl for TLC: which requests the applications use. *)
EXTENDS CallControl, TLC

\* A called application answers with every request there is, a base station as
\* well as a handset; both send information in an active call.
Answering == ("FP" :> {"setup_ack", "call_proc", "alert", "info"} @@
              "PP" :> {"setup_ack", "call_proc", "alert", "info"})
=============================================================================
