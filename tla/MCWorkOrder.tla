---------------------------- MODULE MCWorkOrder ----------------------------
(* WorkOrder on small instances.  The quantities bound every counter: an   *)
(* operation never takes more than its plan.                               *)
EXTENDS WorkOrder

\* Request bodies carry any integer: a negative one and zero are among them.
MCQuantities == -1 .. 3
=============================================================================
