--------------------------- MODULE CircuitBreaker ---------------------------
(***************************************************************************)
(* The breaker in front of an external system (utils/CircuitBreaker.hh):   *)
(* each method, run under its mutex, as a function of the breaker's state. *)
(* `cooled' says that openSeconds have passed since it was opened.         *)
(***************************************************************************)
EXTENDS Naturals

CONSTANT FailThreshold  \* failThreshold_: failures in a row that open it

Closed == [state |-> "CLOSED", failureCount |-> 0, cooled |-> FALSE]

Opened(b) == [b EXCEPT !.state = "OPEN", !.cooled = FALSE]

Refuses(b) == b.state = "OPEN" /\ ~b.cooled

\* The state after a request was let through: the first one after the window
\* probes, and everyone behind it as well.
allowRequest(b) ==
  IF b.state = "OPEN" THEN [b EXCEPT !.state = "HALF_OPEN"] ELSE b

recordSuccessMutant(b) == IF b.state = "HALF_OPEN" THEN Closed ELSE b

recordSuccess(b) ==
  [b EXCEPT !.failureCount = 0, !.state = IF @ = "HALF_OPEN" THEN "CLOSED" ELSE @]

recordFailure(b) ==
  LET counted == [b EXCEPT !.failureCount = IF @ < FailThreshold THEN @ + 1 ELSE @]
  IN IF b.state = "HALF_OPEN" THEN Opened(b)
     ELSE IF counted.failureCount >= FailThreshold THEN Opened(counted) ELSE counted
=============================================================================
