----------------------------- MODULE MCAppDevice -----------------------------
(* Two renewals on their way, four secrets: enough for one to be retried. *)
EXTENDS AppDevice
==============================================================================
