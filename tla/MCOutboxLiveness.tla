-------------------------- MODULE MCOutboxLiveness --------------------------
(* Two topics, one of them throttled without end, and a worker for each.   *)
EXTENDS OutboxLiveness
=============================================================================
