---------------------------- MODULE MCDataIngest ----------------------------
(* DataIngest on small instances. *)
EXTENDS DataIngest, TLC

CONSTANTS m1, m2, s1

\* One reading is beyond its threshold.
OneAlarm == m1 :> s1
=============================================================================
