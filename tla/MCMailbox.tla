----------------------------- MODULE MCMailbox -----------------------------
(* A worker's mailbox with three producing threads (the exchange thread,   *)
(* another worker, and the worker itself), two items each.                 *)
EXTENDS Mailbox
=============================================================================
