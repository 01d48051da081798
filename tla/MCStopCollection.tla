-------------------------- MODULE MCStopCollection --------------------------
(* StopCollection on small instances. *)
EXTENDS StopCollection, TLC

CONSTANTS m1, m2, m3, d1, d2

\* Two orders: of a line with two devices, and of one with one; and a
\* message that names no order.
TwoAndOne == m1 :> {d1, d2} @@ m2 :> {d1} @@ m3 :> {}
=============================================================================
