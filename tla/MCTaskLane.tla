----------------------------- MODULE MCTaskLane -----------------------------
(* A small instance of TaskLane for TLC.                                    *)
EXTENDS TaskLane
=============================================================================
