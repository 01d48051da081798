----------------------------- MODULE MCSession -----------------------------
(* Session on small instances: requests of one kind are alike. *)
EXTENDS Session, TLC

Alike == Permutations(Logins) \cup Permutations(Refreshes)
=============================================================================
