---------------------------- MODULE MCReplyEdits ----------------------------
(* A small instance of ReplyEdits for TLC.                                  *)
EXTENDS ReplyEditsLiveness, TLC

Symmetric == Permutations(Workers) \cup Permutations(Buttons) \cup Permutations(Clicks)
=============================================================================
