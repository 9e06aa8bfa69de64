------------------------------ MODULE MCOutbox ------------------------------
(* Two items with a retry each: enough for one item's answer to come while *)
(* another is under way, for a repeated upload and for a shared id.        *)
EXTENDS Outbox
=============================================================================
