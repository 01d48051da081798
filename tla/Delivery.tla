------------------------------ MODULE Delivery ------------------------------
(***************************************************************************)
(* What a transactional outbox promises the services that write to it      *)
(* (docs/MES_Architecture_Design.md:2136-2152): a posted                   *)
(* message is settled as sent only once the broker holds a copy of it,     *)
(* settling is final, and a message not sent is given up explicitly.       *)
(* Copies are not promised to be unique: consumers deduplicate.            *)
(***************************************************************************)
EXTENDS Naturals

CONSTANT Messages

VARIABLES
  fate,    \* fate[m]: "none", "pending", "sent" or "dead"
  copies   \* copies[m]: copies of m the broker has accepted

vars == <<fate, copies>>

Init ==
  /\ fate = [m \in Messages |-> "none"]
  /\ copies = [m \in Messages |-> 0]

\* A business transaction that wrote m commits.
Post(m) ==
  /\ fate[m] = "none"
  /\ fate' = [fate EXCEPT ![m] = "pending"]
  /\ UNCHANGED copies

\* The broker accepts one more copy of a posted message.
Copy(m) ==
  /\ fate[m] # "none"
  /\ copies' = [copies EXCEPT ![m] = @ + 1]
  /\ UNCHANGED fate

\* The messages of S are settled as sent and those of D as given up.
Settle(S, D) ==
  /\ \A m \in S : fate[m] = "pending" /\ copies[m] > 0
  /\ \A m \in D : fate[m] = "pending"
  /\ fate' = [m \in Messages |-> IF m \in S THEN "sent"
                                 ELSE IF m \in D THEN "dead" ELSE fate[m]]
  /\ UNCHANGED copies

Next ==
  \/ \E m \in Messages : Post(m) \/ Copy(m)
  \/ \E S, D \in SUBSET Messages : Settle(S, D)

Spec == Init /\ [][Next]_vars
=============================================================================
