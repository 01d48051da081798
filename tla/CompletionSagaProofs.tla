------------------------ MODULE CompletionSagaProofs ------------------------
(***************************************************************************)
(* Theorems about WorkOrder (Spec) and about the saga beside it (SagaSpec) *)
(* for any sets of orders, steps and requests, any quantities and any      *)
(* number of attempts and failures.                                        *)
(*                                                                         *)
(* The saga's argument: T1 moves an order out of kInProgress, and nothing  *)
(* but the compensation of the same saga moves it back, so a saga past T1  *)
(* holds its order (HeldInv) although it has no lock.                      *)
(***************************************************************************)
EXTENDS CompletionSaga, FiniteSetTheorems, WellFoundedInduction, TLAPS

BeforeStart ==
  {Absent, kPendingSchedule, kScheduled, kReleased, kCancelled}

\* What one transaction of WorkOrderService does to the row of one order.
RowStep(w) ==
  LET o == order[w]
      n == order'[w]
  IN
  /\ o.status # Absent => n.status # Absent
  /\ o.status # Absent => n.completed >= o.completed
  /\ n.status \in BeforeStart => o.status \in BeforeStart
  /\ n.status \in BeforeStart /\ o.completed = 0 => n.completed = 0
  /\ o.status \in {kCompleted, kClosed} =>
       /\ n.status \in {kCompleted, kClosed}
       /\ n.completed = o.completed
       /\ n.plan = o.plan
  /\ n.status \in {kInProgress, kPaused} /\ n.completed > 0 =>
       \/ n.completed < n.plan
       \/ /\ n.completed = o.completed
          /\ n.plan = o.plan
          /\ o.status \in {kInProgress, kPaused, kReleased}
  /\ stopRows'[w] >= stopRows[w]
-----------------------------------------------------------------------------
LEMMA StatusValues ==
  /\ Absent = -1 /\ kPendingSchedule = 0 /\ kScheduled = 1 /\ kReleased = 2
  /\ kInProgress = 3 /\ kPaused = 4 /\ kCompleted = 5 /\ kClosed = 6
  /\ kCancelled = 7
  /\ Status = 0 .. 7
BY DEF Absent, kPendingSchedule, kScheduled, kReleased, kInProgress,
       kPaused, kCompleted, kClosed, kCancelled, Status

LEMMA CreateStep ==
  ASSUME TypeOK, NEW v \in WorkOrders, NEW qty \in Quantities, Create(v, qty)
  PROVE  TypeOK' /\ \A w \in WorkOrders : RowStep(w)
<1> USE StatusValues, ParametersAssumption
<1>1. TypeOK'
  BY DEF TypeOK, Create, OrderRow, OpRow, OpPending, OpActive, OpDone
<1>2. ASSUME NEW w \in WorkOrders PROVE RowStep(w)
  <2>1. CASE w = v
    BY <2>1 DEF TypeOK, Create, OrderRow, RowStep, BeforeStart
  <2>2. CASE w # v
    BY <2>2 DEF TypeOK, Create, OrderRow, RowStep, BeforeStart
  <2> QED BY <2>1, <2>2
<1> QED BY <1>1, <1>2

LEMMA UpdateStep ==
  ASSUME TypeOK, NEW v \in WorkOrders, NEW qty \in Quantities, Update(v, qty)
  PROVE  TypeOK' /\ \A w \in WorkOrders : RowStep(w)
<1> USE StatusValues, ParametersAssumption
<1>1. TypeOK'
  <2>1. order' \in [WorkOrders -> OrderRow]
    <3>1. order[v] \in OrderRow /\ order \in [WorkOrders -> OrderRow]
      BY DEF TypeOK
    <3>2. [order[v] EXCEPT !.plan = qty] \in OrderRow
      BY <3>1 DEF OrderRow
    <3>3. order' = [order EXCEPT ![v] = [order[v] EXCEPT !.plan = qty]]
      BY DEF Update
    <3> QED BY <3>1, <3>2, <3>3
  <2>2. op' \in [WorkOrders -> [Steps -> OpRow]]
    <3>1. \A s \in Steps : SyncedPlan(op[v][s], qty) \in OpRow
      BY DEF TypeOK, OpRow, SyncedPlan
    <3> QED BY <3>1 DEF TypeOK, Update
  <2> QED BY <2>1, <2>2 DEF TypeOK, Update
<1>2. ASSUME NEW w \in WorkOrders PROVE RowStep(w)
  <2>1. CASE w = v
    BY <2>1 DEF TypeOK, Update, OrderRow, RowStep, BeforeStart
  <2>2. CASE w # v
    BY <2>2 DEF TypeOK, Update, OrderRow, RowStep, BeforeStart
  <2> QED BY <2>1, <2>2
<1> QED BY <1>1, <1>2

LEMMA TransitStep ==
  ASSUME TypeOK, NEW v \in WorkOrders, NEW event \in Event, Transit(v, event)
  PROVE  TypeOK' /\ \A w \in WorkOrders : RowStep(w)
<1> USE StatusValues
<1> PICK to \in next(order[v].status, event) :
      /\ order' = [order EXCEPT ![v] =
           [status |-> to, plan |-> order[v].plan, completed |-> order[v].completed,
            times |-> order[v].times \cup Stamped(event, order[v].completed)]]
      /\ UNCHANGED <<op, inspected, stopRows>>
  BY DEF Transit
<1>1. <<order[v].status, event, to>> \in kTable /\ to \in 0 .. 7
  BY DEF next
<1>2. Stamped(event, order[v].completed) \subseteq TimeColumn
  <2>1. CASE event = "start" /\ order[v].completed = 0
    BY <2>1 DEF Stamped, TimeColumn
  <2>2. CASE event \in {"complete", "close"}
    BY <2>2 DEF Stamped, TimeColumn
  <2>3. CASE event \notin {"complete", "close"} /\ ~(event = "start" /\ order[v].completed = 0)
    BY <2>3 DEF Stamped, TimeColumn
  <2> QED BY <2>1, <2>2, <2>3
<1>3. order[v].completed \in Nat /\ order[v].plan \in Int /\ order[v].times \subseteq TimeColumn
  BY DEF TypeOK, OrderRow
<1>4. TypeOK'
  <2>1. order[v].times \cup Stamped(event, order[v].completed) \subseteq TimeColumn
    BY <1>2, <1>3
  <2> QED BY <1>1, <1>3, <2>1 DEF TypeOK, OrderRow
<1>5. /\ to \in {0, 1, 2, 7} => order[v].status \in {0, 1, 2}
      /\ to \in {3, 4} => order[v].status \in {2, 3, 4}
      /\ order[v].status = 5 => to = 6
      /\ order[v].status \notin {-1, 6, 7}
  BY <1>1 DEF kTable
<1>6. /\ order'[v].status = to
      /\ order'[v].completed = order[v].completed
      /\ order'[v].plan = order[v].plan
  BY DEF TypeOK
<1>7. ASSUME NEW w \in WorkOrders PROVE RowStep(w)
  <2>1. stopRows'[w] >= stopRows[w]
    BY DEF TypeOK
  <2>2. CASE w = v
    BY <1>1, <1>3, <1>5, <1>6, <2>1, <2>2 DEF RowStep, BeforeStart
  <2>3. CASE w # v
    BY <2>1, <2>3 DEF TypeOK, OrderRow, RowStep, BeforeStart
  <2> QED BY <2>2, <2>3
<1> QED BY <1>4, <1>7

LEMMA InspectStep ==
  ASSUME TypeOK, NEW v \in WorkOrders, NEW s \in Steps \cup {AnyStep}, Inspect(v, s)
  PROVE  TypeOK' /\ \A w \in WorkOrders : RowStep(w)
<1>1. TypeOK'
  BY DEF TypeOK, Inspect
<1> QED BY <1>1, StatusValues DEF TypeOK, Inspect, OrderRow, RowStep, BeforeStart

\* The operation's part of a report.
LEMMA OpUpdatedStep ==
  ASSUME TypeOK, NEW v \in WorkOrders, NEW s \in Steps, NEW delta \in Quantities,
         OpUpdated(v, s, delta)
  PROVE  delta \in Nat \ {0} /\ op' \in [WorkOrders -> [Steps -> OpRow]]
<1>1. delta \in Nat \ {0}
  BY SagaAssumption, ParametersAssumption DEF OpUpdated
<1>2. ReportedOp(op[v][s], delta) \in OpRow
  <2>1. op[v][s] \in OpRow
    BY DEF TypeOK
  <2> QED BY <1>1, <2>1 DEF ReportedOp, OpRow, OpDone, OpActive, OpPending
<1>3. op' = [op EXCEPT ![v] = [op[v] EXCEPT ![s] = ReportedOp(op[v][s], delta)]]
  BY DEF OpUpdated
<1> QED BY <1>1, <1>2, <1>3 DEF TypeOK

LEMMA ReportStep ==
  ASSUME TypeOK, NEW v \in WorkOrders, NEW s \in Steps, NEW delta \in Quantities,
         Report(v, s, delta)
  PROVE  TypeOK' /\ \A w \in WorkOrders : RowStep(w)
<1> USE StatusValues
<1>1. delta \in Nat \ {0} /\ op' \in [WorkOrders -> [Steps -> OpRow]]
  BY OpUpdatedStep DEF Report
<1>2. order[v] \in OrderRow /\ order[v].status = 3 /\ stopRows[v] \in Nat
  BY DEF TypeOK, Report, OrderTakes
<1>3. order' = [order EXCEPT ![v] = ReportedOrder(order[v], delta)]
  BY DEF Report
<1>4. /\ ReportedOrder(order[v], delta) \in OrderRow
      /\ ReportedOrder(order[v], delta).plan = order[v].plan
      /\ ReportedOrder(order[v], delta).completed = order[v].completed + delta
      /\ ReportedOrder(order[v], delta).status =
           IF order[v].completed + delta >= order[v].plan THEN 5 ELSE 3
  <2>1. CASE order[v].completed + delta >= order[v].plan
    BY <1>1, <1>2, <2>1 DEF ReportedOrder, Finished, OrderRow, TimeColumn
  <2>2. CASE ~(order[v].completed + delta >= order[v].plan)
    BY <1>1, <1>2, <2>2 DEF ReportedOrder, Finished, OrderRow, TimeColumn
  <2> QED BY <2>1, <2>2
<1>5. stopRows' = [stopRows EXCEPT ![v] =
        stopRows[v] + IF Finished(order[v], delta) THEN 1 ELSE 0]
  BY DEF Report
<1>6. stopRows' \in [WorkOrders -> Nat] /\ \A w \in WorkOrders : stopRows'[w] >= stopRows[w]
  <2>1. CASE Finished(order[v], delta)
    BY <1>2, <1>5, <2>1 DEF TypeOK
  <2>2. CASE ~Finished(order[v], delta)
    BY <1>2, <1>5, <2>2 DEF TypeOK
  <2> QED BY <2>1, <2>2
<1>7. TypeOK'
  BY <1>1, <1>3, <1>4, <1>6 DEF TypeOK, Report
<1>8. ASSUME NEW w \in WorkOrders PROVE RowStep(w)
  <2>1. CASE w = v
    <3>1. order'[w] = ReportedOrder(order[v], delta)
      BY <1>3, <2>1 DEF TypeOK
    <3>2. CASE order[v].completed + delta >= order[v].plan
      BY <1>1, <1>2, <1>4, <1>6, <2>1, <3>1, <3>2 DEF OrderRow, RowStep, BeforeStart
    <3>3. CASE ~(order[v].completed + delta >= order[v].plan)
      BY <1>1, <1>2, <1>4, <1>6, <2>1, <3>1, <3>3 DEF OrderRow, RowStep, BeforeStart
    <3> QED BY <3>2, <3>3
  <2>2. CASE w # v
    BY <1>3, <1>6, <2>2 DEF TypeOK, OrderRow, RowStep, BeforeStart
  <2> QED BY <2>1, <2>2
<1> QED BY <1>7, <1>8

LEMMA RejectedStep ==
  ASSUME TypeOK, NEW v \in WorkOrders, NEW s \in Steps, NEW delta \in Quantities,
         ReportRejectedAfterUpdate(v, s, delta)
  PROVE  TypeOK' /\ \A w \in WorkOrders : RowStep(w)
<1>1. op' \in [WorkOrders -> [Steps -> OpRow]] /\ UNCHANGED <<order, inspected, stopRows>>
  BY OpUpdatedStep DEF ReportRejectedAfterUpdate
<1>2. TypeOK'
  BY <1>1 DEF TypeOK
<1> QED BY <1>1, <1>2, StatusValues DEF TypeOK, OrderRow, RowStep, BeforeStart

\* A transaction of WorkOrderService, whichever.
LEMMA ServiceStep ==
  ASSUME TypeOK, Next
  PROVE  TypeOK' /\ \A w \in WorkOrders : RowStep(w)
BY CreateStep, UpdateStep, TransitStep, InspectStep, ReportStep, RejectedStep DEF Next
-----------------------------------------------------------------------------
(* Sums over the operations of a route *)

\* Induction over the natural numbers, for a set instead of a predicate: a
\* smallest number outside the set would have a predecessor in it.
LEMMA NatSetInduction ==
  ASSUME NEW T, 0 \in T, \A n \in Nat : n \in T => n + 1 \in T
  PROVE  Nat \subseteq T
<1> DEFINE Less == {p \in Nat \X Nat : p[1] < p[2]}
           Out == Nat \ T
<1>1. IsWellFoundedOn(Less, Nat)
  BY NatLessThanWellFounded DEF OpToRel
<1>2. SUFFICES ASSUME Out # {} PROVE FALSE
  OBVIOUS
<1>3. PICK n \in Out : \A k \in Out : <<k, n>> \notin Less
  <2>1. Out \subseteq Nat
    OBVIOUS
  <2> HIDE DEF Less, Out
  <2> QED BY <1>1, <1>2, <2>1, WFMin
<1>4. n \in Nat /\ n # 0
  OBVIOUS
<1>5. n - 1 \in Nat /\ (n - 1) + 1 = n /\ n - 1 < n
  BY <1>4
<1>6. n - 1 \notin Out
  BY <1>3, <1>4, <1>5
<1> QED BY <1>5, <1>6

\* pick names an element of every non-empty subset of S.
Picks(pick, S) == \A A \in SUBSET S : A # {} => pick[A] \in A

\* h is the fold over the subsets of S from base, G taking in the element picked.
IsFold(h, S, base, pick, G) ==
  \A A \in SUBSET S : h[A] = IF A = {} THEN base ELSE G[<<A, h[A \ {pick[A]}]>>]

\* A subset is in P once what is left of it without its element picked is.
IsInductive(P, S, pick) ==
  \A A \in SUBSET S : A = {} \/ A \ {pick[A]} \in P => A \in P

\* A fold over a finite set exists: it is built up by the size of the subsets.
LEMMA FoldExists ==
  ASSUME NEW S, IsFiniteSet(S), NEW V, NEW base \in V,
         NEW pick, Picks(pick, S), NEW G \in [(SUBSET S) \X V -> V]
  PROVE  \E h \in [SUBSET S -> V] : IsFold(h, S, base, pick, G)
<1> USE DEF Picks
<1> DEFINE Small(n) == {A \in SUBSET S : Cardinality(A) <= n}
           Value(h, A) == IF A = {} THEN base ELSE G[<<A, h[A \ {pick[A]}]>>]
           T == {n \in Nat : \E h \in [Small(n) -> V] :
                               \A A \in Small(n) : h[A] = Value(h, A)}
<1>1. \A A \in SUBSET S : /\ IsFiniteSet(A)
                          /\ Cardinality(A) \in Nat
                          /\ A # {} => Cardinality(A) # 0 /\ Cardinality(A \ {pick[A]}) = Cardinality(A) - 1
  <2> TAKE A \in SUBSET S
  <2>1. IsFiniteSet(A)
    BY FS_Subset
  <2>2. A # {} => pick[A] \in A
    OBVIOUS
  <2> QED BY <2>1, <2>2, FS_CardinalityType, FS_EmptySet, FS_RemoveElement
<1>2. 0 \in T
  <2>1. ASSUME NEW A \in SUBSET S PROVE Cardinality(A) <= 0 <=> A = {}
    <3>1. A = {} => Cardinality(A) = 0
      BY FS_EmptySet
    <3>2. Cardinality(A) \in Nat /\ (A # {} => Cardinality(A) # 0)
      BY <1>1
    <3> QED BY <3>1, <3>2
  <2>2. \A A \in Small(0) : [B \in Small(0) |-> base][A] = Value([B \in Small(0) |-> base], A)
    BY <2>1
  <2>3. [B \in Small(0) |-> base] \in [Small(0) -> V]
    OBVIOUS
  <2> QED BY <2>2, <2>3
<1>3. ASSUME NEW n \in Nat, n \in T
      PROVE  n + 1 \in T
  <2>1. PICK g \in [Small(n) -> V] : \A A \in Small(n) : g[A] = Value(g, A)
    BY <1>3
  <2> DEFINE h == [A \in Small(n + 1) |-> Value(g, A)]
  <2>2. ASSUME NEW A \in Small(n + 1), A # {}
        PROVE  A \ {pick[A]} \in Small(n) /\ A \ {pick[A]} \in Small(n + 1)
    <3>1. A \ {pick[A]} \in SUBSET S
      OBVIOUS
    <3>2. Cardinality(A) \in Nat /\ Cardinality(A) <= n + 1
      BY <1>1
    <3>3. Cardinality(A \ {pick[A]}) = Cardinality(A) - 1
      BY <1>1, <2>2
    <3>4. Cardinality(A \ {pick[A]}) <= n /\ Cardinality(A \ {pick[A]}) <= n + 1
      BY <3>2, <3>3
    <3> QED BY <3>1, <3>4
  <2>3. \A A \in Small(n + 1) : Value(g, A) \in V
    BY <2>2
  <2>4. h \in [Small(n + 1) -> V]
    BY <2>3
  <2>5. ASSUME NEW A \in Small(n)
        PROVE  A \in Small(n + 1) /\ h[A] = g[A]
    <3>1. Cardinality(A) \in Nat /\ Cardinality(A) <= n
      BY <1>1
    <3>2. Cardinality(A) <= n + 1
      BY <3>1
    <3>3. A \in Small(n + 1)
      BY <3>2
    <3> QED BY <2>1, <3>3
  <2>6. \A A \in Small(n + 1) : h[A] = Value(h, A)
    <3> TAKE A \in Small(n + 1)
    <3>1. h[A] = Value(g, A)
      OBVIOUS
    <3>2. A # {} => h[A \ {pick[A]}] = g[A \ {pick[A]}]
      BY <2>2, <2>5
    <3> HIDE DEF h
    <3> QED BY <3>1, <3>2
  <2>7. \E f \in [Small(n + 1) -> V] : \A A \in Small(n + 1) : f[A] = Value(f, A)
    <3> HIDE DEF h, Small, Value
    <3> QED BY <2>4, <2>6
  <2>8. n + 1 \in Nat
    OBVIOUS
  <2> HIDE DEF h, Small, Value
  <2> QED BY <2>7, <2>8
<1>4. Cardinality(S) \in T
  <2> HIDE DEF T
  <2> QED BY <1>1, <1>2, <1>3, NatSetInduction
<1>5. Small(Cardinality(S)) = SUBSET S
  BY <1>1, FS_Subset
<1> QED BY <1>4, <1>5 DEF IsFold

\* What a fold's recursion carries from each subset to the next, all have.
LEMMA SubsetInduction ==
  ASSUME NEW S, IsFiniteSet(S), NEW P,
         NEW pick, Picks(pick, S), IsInductive(P, S, pick)
  PROVE  \A A \in SUBSET S : A \in P
<1> USE DEF Picks, IsInductive
<1> DEFINE Out == (SUBSET S) \ P
<1>1. SUFFICES ASSUME Out # {} PROVE FALSE
  OBVIOUS
<1>2. IsWellFoundedOn(StrictSubsetOrdering(S), SUBSET S)
  BY FS_StrictSubsetOrderingWellFounded, FS_FiniteSubsetsOfFinite
<1>3. PICK A \in Out : \A B \in Out : <<B, A>> \notin StrictSubsetOrdering(S)
  <2>1. Out \subseteq SUBSET S
    OBVIOUS
  <2> HIDE DEF Out
  <2> QED BY <1>1, <1>2, <2>1, WFMin
<1>4. A # {} /\ A \ {pick[A]} \notin P /\ A \in SUBSET S
  OBVIOUS
<1>5. A \ {pick[A]} \in Out
  BY <1>4
<1>6. <<A \ {pick[A]}, A>> \in StrictSubsetOrdering(S)
  BY <1>4 DEF StrictSubsetOrdering
<1> QED BY <1>3, <1>5, <1>6

\* The choice of SumFunction (Functions.tla).
Pick(S) == [A \in SUBSET S |-> CHOOSE x \in A : TRUE]

LEMMA PickFact ==
  ASSUME NEW S
  PROVE  Picks(Pick(S), S)
BY DEF Pick, Picks

\* h has the sums of f over the subsets of S.
HasSums(h, f, S) ==
  \A A \in SUBSET S :
    h[A] = IF A = {} THEN 0 ELSE f[Pick(S)[A]] + h[A \ {Pick(S)[A]}]

\* The sum of a function is such a fold, so that the CHOOSE of its definition
\* names a function.
LEMMA SumIsAFold ==
  ASSUME NEW S, IsFiniteSet(S), NEW f \in [S -> Nat]
  PROVE  \E h \in [SUBSET S -> Nat] : SumFunction(f) = h[S] /\ HasSums(h, f, S)
<1> DEFINE V == Nat
           pick == Pick(S)
           G == [p \in (SUBSET S) \X V |-> IF p[1] = {} THEN 0 ELSE f[pick[p[1]]] + p[2]]
           iter == CHOOSE g : g = [A \in SUBSET S |-> IF A = {} THEN 0
                       ELSE f[CHOOSE x \in A : TRUE] + g[A \ {CHOOSE x \in A : TRUE}]]
<1>1. Picks(pick, S)
  BY PickFact
<1>2. G \in [(SUBSET S) \X V -> V]
  BY <1>1 DEF Picks
<1>3. PICK h \in [SUBSET S -> V] : IsFold(h, S, 0, pick, G)
  <2>1. 0 \in V
    OBVIOUS
  <2> HIDE DEF pick, G, V
  <2> QED BY <1>1, <1>2, <2>1, FoldExists
<1>4. ASSUME NEW A \in SUBSET S
      PROVE  h[A] = IF A = {} THEN 0 ELSE f[pick[A]] + h[A \ {pick[A]}]
  <2>1. h[A \ {pick[A]}] \in V
    OBVIOUS
  <2>2. A # {} => G[<<A, h[A \ {pick[A]}]>>] = f[pick[A]] + h[A \ {pick[A]}]
    BY <2>1
  <2> QED BY <1>3, <2>2 DEF IsFold
<1>5. h = [A \in SUBSET S |-> IF A = {} THEN 0
               ELSE f[CHOOSE x \in A : TRUE] + h[A \ {CHOOSE x \in A : TRUE}]]
  <2>1. h = [A \in SUBSET S |-> IF A = {} THEN 0 ELSE f[pick[A]] + h[A \ {pick[A]}]]
    <3> HIDE DEF pick
    <3> QED BY <1>4
  <2>2. \A A \in SUBSET S : pick[A] = CHOOSE x \in A : TRUE
    BY DEF Pick
  <2> QED BY <2>1, <2>2
<1>6. iter = [A \in SUBSET S |-> IF A = {} THEN 0
               ELSE f[CHOOSE x \in A : TRUE] + iter[A \ {CHOOSE x \in A : TRUE}]]
  BY <1>5
<1>7. \A A \in SUBSET S : iter[A] = IF A = {} THEN 0 ELSE f[pick[A]] + iter[A \ {pick[A]}]
  <2> HIDE DEF iter
  <2> QED BY <1>6 DEF Pick
<1>8. iter[S] = h[S]
  <2> DEFINE P == {A \in SUBSET S : iter[A] = h[A]}
  <2>1. IsInductive(P, S, pick)
    <3> HIDE DEF iter, pick
    <3> QED BY <1>4, <1>7 DEF IsInductive
  <2> HIDE DEF P, pick
  <2>2. \A A \in SUBSET S : A \in P
    BY <1>1, <2>1, SubsetInduction
  <2> QED BY <2>2 DEF P
<1>9. SumFunction(f) = iter[S]
  BY DEF SumFunction, SumFunctionOnSet, FoldFunctionOnSet, MapThenFoldSet
<1> HIDE DEF iter
<1> QED BY <1>4, <1>8, <1>9 DEF HasSums

LEMMA SumType ==
  ASSUME NEW S, IsFiniteSet(S), NEW f \in [S -> Nat]
  PROVE  SumFunction(f) \in Nat
<1>1. PICK h \in [SUBSET S -> Nat] : SumFunction(f) = h[S] /\ HasSums(h, f, S)
  BY SumIsAFold
<1>2. S \in SUBSET S
  OBVIOUS
<1> QED BY <1>1, <1>2

\* One value that grows makes the sum grow by as much, whatever the order in
\* which the values are added.
LEMMA SumOfOneMore ==
  ASSUME NEW S, IsFiniteSet(S), NEW f \in [S -> Nat], NEW g \in [S -> Nat],
         NEW s \in S, NEW d \in Nat,
         \A t \in S : g[t] = IF t = s THEN f[t] + d ELSE f[t]
  PROVE  SumFunction(g) = SumFunction(f) + d
<1> DEFINE pick == Pick(S)
<1>1. PICK hf \in [SUBSET S -> Nat] : SumFunction(f) = hf[S] /\ HasSums(hf, f, S)
  BY SumIsAFold
<1>2. PICK hg \in [SUBSET S -> Nat] : SumFunction(g) = hg[S] /\ HasSums(hg, g, S)
  BY SumIsAFold
<1> DEFINE P == {A \in SUBSET S : hg[A] = hf[A] + IF s \in A THEN d ELSE 0}
<1>3. Picks(pick, S)
  BY PickFact
<1>4. ASSUME NEW A \in SUBSET S, A = {} \/ A \ {pick[A]} \in P
      PROVE  A \in P
  <2>1. CASE A = {}
    <3>1. hf[A] = 0
      BY <1>1, <2>1 DEF HasSums
    <3>2. hg[A] = 0
      BY <1>2, <2>1 DEF HasSums
    <3> QED BY <2>1, <3>1, <3>2
  <2>2. CASE A # {}
    <3>1. PICK x \in A : x = pick[A]
      BY <2>2, <1>3 DEF Picks
    <3>2. hf[A] = f[x] + hf[A \ {x}] /\ hg[A] = g[x] + hg[A \ {x}]
      <4>1. hf[A] = f[x] + hf[A \ {x}]
        BY <1>1, <2>2, <3>1 DEF HasSums
      <4>2. hg[A] = g[x] + hg[A \ {x}]
        BY <1>2, <2>2, <3>1 DEF HasSums
      <4> QED BY <4>1, <4>2
    <3>3. hg[A \ {x}] = hf[A \ {x}] + IF s \in A \ {x} THEN d ELSE 0
      BY <1>4, <2>2, <3>1
    <3>4. hf[A \ {x}] \in Nat /\ f[x] \in Nat /\ hf[A] \in Nat
      OBVIOUS
    <3>5. CASE x = s
      <4>1. g[x] = f[x] + d
        BY <3>5
      <4> QED BY <3>2, <3>3, <3>4, <3>5, <4>1
    <3>6. CASE x # s
      <4>1. g[x] = f[x]
        BY <3>6
      <4> QED BY <3>2, <3>3, <3>4, <3>6, <4>1
    <3> QED BY <3>5, <3>6
  <2> QED BY <2>1, <2>2
<1>5. S \in P
  <2>1. IsInductive(P, S, pick)
    BY <1>4 DEF IsInductive
  <2> HIDE DEF P, pick
  <2>2. \A A \in SUBSET S : A \in P
    BY <1>3, <2>1, SubsetInduction
  <2> QED BY <2>2
<1> QED BY <1>1, <1>2, <1>5
-----------------------------------------------------------------------------
(* WorkOrderService alone *)

\* Nothing is reported on an order that has not been started.
EmptyUntilStarted ==
  \A w \in WorkOrders : order[w].status \in BeforeStart => order[w].completed = 0

\* A start finds no full order, and an order in progress is not yet full.
LEMMA StaysFinished ==
  ASSUME TypeOK, EmptyUntilStarted, FullOrderIsFinished, Next
  PROVE  TypeOK' /\ EmptyUntilStarted' /\ FullOrderIsFinished'
<1> USE StatusValues
<1>1. TypeOK' /\ \A w \in WorkOrders : RowStep(w)
  BY ServiceStep
<1>2. \A w \in WorkOrders : /\ order[w].completed \in Nat /\ order[w].plan \in Int
                            /\ order'[w].completed \in Nat /\ order'[w].plan \in Int
  BY <1>1 DEF TypeOK, OrderRow
<1>3. EmptyUntilStarted'
  BY <1>1 DEF EmptyUntilStarted, RowStep
<1>4. FullOrderIsFinished'
  <2> SUFFICES ASSUME NEW w \in WorkOrders,
                      order'[w].status \in {3, 4}, order'[w].completed > 0
               PROVE  order'[w].completed < order'[w].plan
    BY DEF FullOrderIsFinished
  <2> QED BY <1>1, <1>2 DEF FullOrderIsFinished, EmptyUntilStarted, BeforeStart, RowStep
<1> QED BY <1>1, <1>3, <1>4

\* FullOrderIsFinished and StopEnqueuedOnce are not inductive alone: that an
\* order is empty until it has been started keeps a start from finding a full
\* order, and that an order in progress is not yet full keeps a report from
\* enqueueing a second stop.
OrderInv ==
  /\ TypeOK
  /\ EmptyUntilStarted
  /\ FullOrderIsFinished
  /\ OpNeverOverPlan
  /\ StopEnqueuedOnce
  /\ TimesFollowStatus

\* What a transaction owes beside StaysFinished and PlanKept.
Kept ==
  /\ StopEnqueuedOnce
  /\ TimesFollowStatus

\* What one report does to one operation row.
LEMMA ReportedOpFacts ==
  ASSUME NEW o \in OpRow, NEW delta \in Int, delta > 0, OpTakes(o, delta)
  PROVE  /\ ReportedOp(o, delta).completed > 0
         /\ ReportedOp(o, delta).completed <= ReportedOp(o, delta).plan
         /\ ReportedOp(o, delta).status # OpPending
         /\ ReportedOp(o, delta).status = OpDone
              => ReportedOp(o, delta).completed = ReportedOp(o, delta).plan
<1>1. /\ o.completed \in Nat /\ o.plan \in Int
      /\ o.completed + delta <= o.plan
  BY DEF OpRow, OpTakes
<1> QED BY <1>1 DEF ReportedOp, OpRow, OpPending, OpActive, OpDone

\* The table leads to a status, and the event tells which.
LEMMA NextFacts ==
  ASSUME NEW from, NEW event \in Event, NEW to \in next(from, event)
  PROVE  /\ to \in 0 .. 7
         /\ canTransition(from, to)
         /\ event = "start" <=> to = 3
         /\ event = "complete" <=> to = 5
         /\ event = "close" <=> to = 6
         /\ to = 3 => from \in {2, 4}
         /\ to = 4 => from = 3
         /\ to = 5 => from = 3
         /\ to = 6 => from = 5
         /\ to \in {1, 2, 7} => from \in {0, 1, 2}
         /\ to # 0
BY StatusValues DEF next, kTable, Event, canTransition

\* Which time column a transition sets.
LEMMA StampedFacts ==
  ASSUME NEW event \in Event, NEW completed \in Nat
  PROVE  /\ "actual_start_at" \in Stamped(event, completed)
              <=> event = "start" /\ completed = 0
         /\ "actual_end_at" \in Stamped(event, completed)
              <=> event \in {"complete", "close"}
<1>1. CASE event = "start" /\ completed = 0
  BY <1>1 DEF Stamped
<1>2. CASE event \in {"complete", "close"}
  BY <1>2 DEF Stamped
<1>3. CASE event \notin {"complete", "close"} /\ ~(event = "start" /\ completed = 0)
  BY <1>3 DEF Stamped
<1> QED BY <1>1, <1>2, <1>3

LEMMA OrderInit == Init => OrderInv
<1> USE StatusValues
<1>1. Init => TypeOK
  BY DEF Init, TypeOK, NoOrder, NoOp, OrderRow, OpRow, OpPending,
         OpActive, OpDone
<1>2. Init => EmptyUntilStarted /\ FullOrderIsFinished
  BY DEF Init, NoOrder, EmptyUntilStarted, FullOrderIsFinished
<1>3. Init => OpNeverOverPlan /\ Kept
  BY DEF Init, NoOrder, NoOp, Kept, OpNeverOverPlan, StopEnqueuedOnce,
         TimesFollowStatus, OpPending, OpDone
<1> QED BY <1>1, <1>2, <1>3 DEF OrderInv, Kept

\* Shared by the two outcomes of report: the operation rows stay in order.
LEMMA OpUpdatedFacts ==
  ASSUME TypeOK, OpNeverOverPlan, NEW w \in WorkOrders, NEW s \in Steps, NEW delta \in Quantities,
         OpUpdated(w, s, delta)
  PROVE  OpNeverOverPlan'
<1>1. op[w][s] \in OpRow /\ delta \in Nat \ {0} /\ op' \in [WorkOrders -> [Steps -> OpRow]]
  BY OpUpdatedStep DEF TypeOK
<1>2. op' = [op EXCEPT ![w][s] = ReportedOp(op[w][s], delta)]
  BY DEF OpUpdated
<1> SUFFICES ASSUME NEW v \in WorkOrders, NEW t \in Steps
             PROVE  LET o == op'[v][t] IN
                      /\ o.status = OpPending <=> o.completed = 0
                      /\ o.completed > 0 => o.completed <= o.plan
                      /\ o.status = OpDone => o.completed = o.plan
  BY DEF OpNeverOverPlan
<1>3. CASE v = w /\ t = s
  <2>1. op'[v][t] = ReportedOp(op[w][s], delta)
    BY <1>2, <1>3 DEF TypeOK
  <2>2. op'[v][t].completed \in Nat
    BY <1>1 DEF OpRow
  <2> QED BY <1>1, <2>1, <2>2, ReportedOpFacts DEF OpUpdated
<1>4. CASE ~(v = w /\ t = s)
  <2>1. op'[v][t] = op[v][t]
    BY <1>2, <1>4 DEF TypeOK
  <2> QED BY <2>1 DEF OpNeverOverPlan
<1> QED BY <1>3, <1>4

\* No transaction of the service takes an operation over its plan: a plan is
\* synchronised only while nothing was reported on the operation.
LEMMA PlanKept ==
  ASSUME TypeOK, OpNeverOverPlan, Next
  PROVE  OpNeverOverPlan'
<1>1. ASSUME NEW w \in WorkOrders, NEW qty \in Quantities, Create(w, qty)
      PROVE  OpNeverOverPlan'
  BY <1>1 DEF Create, TypeOK, OpNeverOverPlan, NoOp, OpPending, OpDone
<1>2. ASSUME NEW w \in WorkOrders, NEW qty \in Quantities, Update(w, qty)
      PROVE  OpNeverOverPlan'
  BY <1>2 DEF Update, TypeOK, OpRow, OpNeverOverPlan, SyncedPlan, OpPending, OpDone
<1>3. ASSUME NEW w \in WorkOrders, NEW s \in Steps, NEW delta \in Quantities,
             Report(w, s, delta) \/ ReportRejectedAfterUpdate(w, s, delta)
      PROVE  OpNeverOverPlan'
  BY <1>3, OpUpdatedFacts DEF Report, ReportRejectedAfterUpdate
<1>4. ASSUME op' = op PROVE OpNeverOverPlan'
  BY <1>4 DEF OpNeverOverPlan
<1> QED BY <1>1, <1>2, <1>3, <1>4 DEF Next, Transit, Inspect

\* No transaction of the service counts on an order what no operation recorded:
\* report adds to an operation row what it adds to the order, and nothing takes
\* a quantity off an operation.
LEMMA BackedKept ==
  ASSUME TypeOK, SummaryBackedByOps, Next
  PROVE  SummaryBackedByOps'
<1> DEFINE Done(v) == [s \in Steps |-> op[v][s].completed]
           Less(v) == order'[v].completed <= OpTotal(v)'
<1> SUFFICES ASSUME NEW v \in WorkOrders PROVE Less(v)
  BY DEF SummaryBackedByOps
<1> USE ParametersAssumption
<1>1. Done(v) \in [Steps -> Nat] /\ order[v].completed \in Nat
  BY DEF TypeOK, OpRow, OrderRow
<1>2. SumFunction(Done(v)) \in Nat /\ order[v].completed <= SumFunction(Done(v))
  BY <1>1, SumType DEF SummaryBackedByOps, OpTotal
<1>3. ASSUME order'[v].completed = order[v].completed, Done(v)' = Done(v)
      PROVE  Less(v)
  BY <1>2, <1>3 DEF OpTotal
<1>4. ASSUME NEW w \in WorkOrders, NEW qty \in Quantities, Create(w, qty)
      PROVE  Less(v)
  <2>1. CASE v = w
    <3>1. Done(v)' \in [Steps -> Nat] /\ order'[v].completed = 0
      BY <1>4, <2>1 DEF Create, TypeOK
    <3>2. OpTotal(v)' \in Nat
      BY <3>1, SumType DEF OpTotal
    <3> QED BY <3>1, <3>2
  <2>2. CASE v # w
    BY <1>3, <1>4, <2>2 DEF Create, TypeOK
  <2> QED BY <2>1, <2>2
<1>5. ASSUME NEW w \in WorkOrders, NEW qty \in Quantities, Update(w, qty)
      PROVE  Less(v)
  BY <1>3, <1>5 DEF Update, SyncedPlan, TypeOK, OrderRow
<1>6. ASSUME NEW w \in WorkOrders, NEW event \in Event, Transit(w, event)
      PROVE  Less(v)
  BY <1>3, <1>6 DEF Transit, TypeOK, OrderRow
<1>7. ASSUME NEW w \in WorkOrders, NEW s \in Steps \cup {AnyStep}, Inspect(w, s)
      PROVE  Less(v)
  BY <1>3, <1>7 DEF Inspect
<1>8. ASSUME NEW w \in WorkOrders, NEW s \in Steps, NEW delta \in Quantities,
             OpUpdated(w, s, delta),
             \/ order'[v].completed = order[v].completed
             \/ v = w /\ order'[v].completed = order[v].completed + delta
      PROVE  Less(v)
  <2>1. CASE v # w
    BY <1>3, <1>8, <2>1 DEF OpUpdated, TypeOK
  <2>2. CASE v = w
    <3>1. delta \in Nat
      BY <1>8, OpUpdatedStep
    <3>2. ASSUME NEW t \in Steps
          PROVE  op'[v][t].completed =
                   IF t = s THEN op[v][t].completed + delta ELSE op[v][t].completed
      <4>1. op'[v][t] = IF t = s THEN ReportedOp(op[v][s], delta) ELSE op[v][t]
        BY <1>8, <2>2 DEF OpUpdated, TypeOK
      <4>2. op[v][t].completed \in Nat
        BY DEF TypeOK, OpRow
      <4> QED BY <4>1, <4>2 DEF ReportedOp
    <3>3. /\ Done(v)' \in [Steps -> Nat]
          /\ \A t \in Steps : Done(v)'[t] = IF t = s THEN Done(v)[t] + delta ELSE Done(v)[t]
      BY <1>1, <3>1, <3>2
    <3>4. OpTotal(v)' = SumFunction(Done(v)) + delta
      <4>1. OpTotal(v)' = SumFunction(Done(v)')
        BY DEF OpTotal
      <4> HIDE DEF Done
      <4> QED BY <1>1, <3>1, <3>3, <4>1, SumOfOneMore
    <3>5. order'[v].completed \in {order[v].completed, order[v].completed + delta}
      BY <1>8, <2>2
    <3> QED BY <1>1, <1>2, <3>1, <3>4, <3>5
  <2> QED BY <2>1, <2>2
<1>9. ASSUME NEW w \in WorkOrders, NEW s \in Steps, NEW delta \in Quantities, Report(w, s, delta)
      PROVE  Less(v)
  <2>1. order' = [order EXCEPT ![w] = ReportedOrder(order[w], delta)] /\ OpUpdated(w, s, delta)
    BY <1>9 DEF Report
  <2>2. order'[v].completed = IF v = w THEN order[v].completed + delta ELSE order[v].completed
    BY <2>1 DEF TypeOK, ReportedOrder
  <2> QED BY <1>8, <2>1, <2>2
<1>10. ASSUME NEW w \in WorkOrders, NEW s \in Steps, NEW delta \in Quantities,
              ReportRejectedAfterUpdate(w, s, delta)
       PROVE  Less(v)
  <2>1. OpUpdated(w, s, delta) /\ order' = order
    BY <1>10 DEF ReportRejectedAfterUpdate
  <2> HIDE DEF Less
  <2> QED BY <1>8, <2>1
<1> QED BY <1>4, <1>5, <1>6, <1>7, <1>9, <1>10 DEF Next

LEMMA BackedInit == Init => SummaryBackedByOps
<1> SUFFICES ASSUME Init, NEW v \in WorkOrders PROVE order[v].completed <= OpTotal(v)
  BY DEF SummaryBackedByOps
<1>1. [s \in Steps |-> op[v][s].completed] \in [Steps -> Nat] /\ order[v].completed = 0
  BY DEF Init, NoOp, NoOrder
<1>2. OpTotal(v) \in Nat
  BY <1>1, SumType, ParametersAssumption DEF OpTotal
<1> QED BY <1>1, <1>2

LEMMA OrderCreate ==
  ASSUME OrderInv, NEW w \in WorkOrders, NEW qty \in Quantities, Create(w, qty)
  PROVE  Kept'
<1> USE StatusValues, ParametersAssumption DEF OrderInv, Create
<1>2. order'[w].status = 0 /\ order'[w].completed = 0 /\ order'[w].times = {}
  BY DEF TypeOK, OrderRow, NoOrder
<1>3. \A v \in WorkOrders \ {w} : order'[v] = order[v]
  BY DEF TypeOK
<1>4. stopRows' = stopRows /\ order[w].completed = 0
  BY DEF EmptyUntilStarted, BeforeStart
<1>5. StopEnqueuedOnce'
  BY <1>2, <1>3, <1>4 DEF StopEnqueuedOnce
<1>6. TimesFollowStatus'
  BY <1>2, <1>3 DEF TimesFollowStatus
<1> QED BY <1>5, <1>6 DEF Kept

LEMMA OrderUpdate ==
  ASSUME OrderInv, NEW w \in WorkOrders, NEW qty \in Quantities, Update(w, qty)
  PROVE  Kept'
<1> USE StatusValues, ParametersAssumption DEF OrderInv, Update
<1>2. \A v \in WorkOrders : /\ order'[v].status = order[v].status
                            /\ order'[v].completed = order[v].completed
                            /\ order'[v].times = order[v].times
  BY DEF TypeOK, OrderRow
<1>3. order[w].completed = 0
  BY DEF EmptyUntilStarted, BeforeStart
<1>4. \A v \in WorkOrders \ {w} : order'[v] = order[v]
  BY DEF TypeOK
<1>5. StopEnqueuedOnce'
  BY <1>2, <1>3, <1>4 DEF StopEnqueuedOnce
<1>6. TimesFollowStatus'
  BY <1>2 DEF TimesFollowStatus
<1> QED BY <1>5, <1>6 DEF Kept

LEMMA OrderTransit ==
  ASSUME OrderInv, NEW w \in WorkOrders, NEW event \in Event, Transit(w, event)
  PROVE  Kept'
<1> USE StatusValues DEF OrderInv
<1> PICK to \in next(order[w].status, event) :
      /\ order' = [order EXCEPT ![w] =
           [status |-> to, plan |-> order[w].plan, completed |-> order[w].completed,
            times |-> order[w].times \cup Stamped(event, order[w].completed)]]
      /\ UNCHANGED <<op, inspected, stopRows>>
  BY DEF Transit
<1>2. \A v \in WorkOrders : /\ order'[v].plan = order[v].plan
                            /\ order'[v].completed = order[v].completed
  BY DEF TypeOK, OrderRow
<1>3. \A v \in WorkOrders \ {w} : order'[v] = order[v]
  BY DEF TypeOK
<1>4. /\ order'[w].status = to
      /\ order'[w].times = order[w].times \cup Stamped(event, order[w].completed)
  BY DEF TypeOK, OrderRow
<1>5. StopEnqueuedOnce'
  BY <1>2 DEF StopEnqueuedOnce
<1>6. TimesFollowStatus'
  <2>1. order[w].completed \in Nat
    BY DEF TypeOK, OrderRow
  <2>2. "actual_start_at" \in order'[w].times <=> to \in {3, 4, 5, 6}
    <3>1. "actual_start_at" \in order'[w].times
            <=> "actual_start_at" \in order[w].times \/ (event = "start" /\ order[w].completed = 0)
      BY <1>4, <2>1, StampedFacts
    <3>2. to = 3 => order[w].completed = 0 \/ "actual_start_at" \in order[w].times
      BY NextFacts DEF EmptyUntilStarted, BeforeStart, TimesFollowStatus
    <3> QED BY <3>1, <3>2, NextFacts DEF TimesFollowStatus
  <2>3. "actual_end_at" \in order'[w].times <=> to \in {5, 6}
    <3>1. "actual_end_at" \in order'[w].times
            <=> "actual_end_at" \in order[w].times \/ event \in {"complete", "close"}
      BY <1>4, <2>1, StampedFacts
    <3> QED BY <3>1, NextFacts DEF TimesFollowStatus
  <2> QED BY <1>3, <1>4, <2>2, <2>3 DEF TimesFollowStatus
<1> QED BY <1>5, <1>6 DEF Kept

LEMMA OrderReport ==
  ASSUME OrderInv, NEW w \in WorkOrders, NEW s \in Steps, NEW delta \in Quantities,
         Report(w, s, delta)
  PROVE  Kept'
<1> USE StatusValues DEF OrderInv
<1>1. /\ OpUpdated(w, s, delta)
      /\ order[w].status = 3
      /\ order' = [order EXCEPT ![w] = ReportedOrder(order[w], delta)]
      /\ stopRows' = [stopRows EXCEPT
           ![w] = stopRows[w] + IF Finished(order[w], delta) THEN 1 ELSE 0]
  BY DEF Report, OrderTakes
<1>3. order[w] \in OrderRow /\ delta \in Nat \ {0}
  BY <1>1, OpUpdatedStep DEF TypeOK
<1>4. \A v \in WorkOrders \ {w} : order'[v] = order[v] /\ stopRows'[v] = stopRows[v]
  BY <1>1 DEF TypeOK
<1>5. order'[w] = ReportedOrder(order[w], delta)
  BY <1>1 DEF TypeOK
<1>6. /\ order'[w].completed = order[w].completed + delta
      /\ order'[w].plan = order[w].plan
      /\ order'[w].status = IF Finished(order[w], delta) THEN 5 ELSE 3
      /\ order'[w].times = IF Finished(order[w], delta)
                           THEN order[w].times \cup {"actual_end_at"} ELSE order[w].times
  <2>1. CASE Finished(order[w], delta)
    BY <1>1, <1>5, <2>1 DEF ReportedOrder
  <2>2. CASE ~Finished(order[w], delta)
    BY <1>1, <1>5, <2>2 DEF ReportedOrder
  <2> QED BY <2>1, <2>2
<1>7. stopRows[w] = 0
  BY <1>1, <1>3 DEF StopEnqueuedOnce, FullOrderIsFinished, OrderRow
<1>8. StopEnqueuedOnce'
  <2>1. stopRows'[w] = IF Finished(order[w], delta) THEN 1 ELSE 0
    BY <1>1, <1>7 DEF TypeOK
  <2>2. order'[w].completed > 0 /\ (order'[w].completed >= order'[w].plan
                                      <=> Finished(order[w], delta))
    BY <1>3, <1>6 DEF OrderRow, Finished
  <2> QED BY <1>4, <2>1, <2>2 DEF StopEnqueuedOnce
<1>9. TimesFollowStatus'
  BY <1>1, <1>4, <1>6 DEF TimesFollowStatus
<1> QED BY <1>8, <1>9 DEF Kept

LEMMA OrderRejected ==
  ASSUME OrderInv, NEW w \in WorkOrders, NEW s \in Steps, NEW delta \in Quantities,
         ReportRejectedAfterUpdate(w, s, delta)
  PROVE  Kept'
BY DEF ReportRejectedAfterUpdate, OrderInv, Kept, StopEnqueuedOnce, TimesFollowStatus

LEMMA OrderInspect ==
  ASSUME OrderInv, NEW w \in WorkOrders, NEW s \in Steps \cup {AnyStep}, Inspect(w, s)
  PROVE  Kept'
BY DEF Inspect, OrderInv, Kept, StopEnqueuedOnce, TimesFollowStatus

LEMMA OrderNext == OrderInv /\ [Next]_vars => OrderInv'
<1> SUFFICES ASSUME OrderInv, [Next]_vars PROVE OrderInv'
  OBVIOUS
<1>1. CASE UNCHANGED vars
  BY <1>1 DEF vars, OrderInv, TypeOK, OpNeverOverPlan, EmptyUntilStarted,
              FullOrderIsFinished, StopEnqueuedOnce, TimesFollowStatus
<1>2. CASE Next
  <2>1. TypeOK' /\ EmptyUntilStarted' /\ FullOrderIsFinished'
    BY <1>2, StaysFinished DEF OrderInv
  <2>2. OpNeverOverPlan'
    BY <1>2, PlanKept DEF OrderInv
  <2>3. Kept'
    BY <1>2, OrderCreate, OrderUpdate, OrderTransit, OrderInspect, OrderReport, OrderRejected
    DEF Next
  <2> QED BY <2>1, <2>2, <2>3 DEF OrderInv, Kept
<1> QED BY <1>1, <1>2

\* The inductive invariant of the work orders holds throughout.
THEOREM OrderInvariance == Spec => []OrderInv
BY OrderInit, OrderNext, PTL DEF Spec

\* The columns keep their types and quantities stay natural numbers.
THEOREM OrderTypes == Spec => []TypeOK
<1>1. OrderInv => TypeOK
  BY DEF OrderInv
<1> QED BY <1>1, OrderInvariance, PTL

\* No operation ever holds more than its plan: the guard in report's CTE and
\* the condition in update's second statement suffice together.
THEOREM NoOverReport == Spec => []OpNeverOverPlan
<1>1. OrderInv => OpNeverOverPlan
  BY DEF OrderInv
<1> QED BY <1>1, OrderInvariance, PTL

\* A full order is never left in progress or paused.
THEOREM FullIsFinished == Spec => []FullOrderIsFinished
<1>1. OrderInv => FullOrderIsFinished
  BY DEF OrderInv
<1> QED BY <1>1, OrderInvariance, PTL

\* Exactly one stop command is enqueued for an order that reports filled, and
\* none for any other.
THEOREM StopOnce == Spec => []StopEnqueuedOnce
<1>1. OrderInv => StopEnqueuedOnce
  BY DEF OrderInv
<1> QED BY <1>1, OrderInvariance, PTL

\* The time columns agree with the status.
THEOREM Times == Spec => []TimesFollowStatus
<1>1. OrderInv => TimesFollowStatus
  BY DEF OrderInv
<1> QED BY <1>1, OrderInvariance, PTL

\* What an order counts was recorded on its operations: the CTE and the main
\* UPDATE of report count together, whatever else happens to either row.
THEOREM SummaryBacked == Spec => []SummaryBackedByOps
<1>1. TypeOK /\ SummaryBackedByOps /\ [Next]_vars => SummaryBackedByOps'
  <2>1. TypeOK /\ SummaryBackedByOps /\ Next => SummaryBackedByOps'
    BY BackedKept
  <2>2. SummaryBackedByOps /\ UNCHANGED vars => SummaryBackedByOps'
    BY DEF vars, SummaryBackedByOps, OpTotal
  <2> QED BY <2>1, <2>2
<1> QED BY <1>1, BackedInit, OrderTypes, PTL DEF Spec

\* Every status change is in the table, the one in report's SQL included.
THEOREM TableOnly == Spec => StatusByTable
<1>1. OrderInv /\ [Next]_vars =>
        [\A w \in WorkOrders :
           order[w].status # Absent => canTransition(order[w].status, order'[w].status)]_vars
  <2> SUFFICES ASSUME OrderInv, Next, NEW v \in WorkOrders, order[v].status # Absent
               PROVE  canTransition(order[v].status, order'[v].status)
    OBVIOUS
  <2> USE DEF OrderInv, canTransition
  <2>1. ASSUME NEW w \in WorkOrders, NEW qty \in Quantities, Create(w, qty) \/ Update(w, qty)
        PROVE  order'[v].status = order[v].status
    BY <2>1 DEF Create, Update, TypeOK, OrderRow
  <2>2. ASSUME NEW w \in WorkOrders, NEW event \in Event, Transit(w, event)
        PROVE  canTransition(order[v].status, order'[v].status)
    <3>1. PICK to \in next(order[w].status, event) :
            order' = [order EXCEPT ![w] =
              [status |-> to, plan |-> order[w].plan, completed |-> order[w].completed,
               times |-> order[w].times \cup Stamped(event, order[w].completed)]]
      BY <2>2 DEF Transit
    <3>2. order'[v].status = IF v = w THEN to ELSE order[v].status
      BY <3>1 DEF TypeOK, OrderRow
    <3> QED BY <3>2, NextFacts
  <2>3. ASSUME NEW w \in WorkOrders, NEW s \in Steps, NEW delta \in Quantities, Report(w, s, delta)
        PROVE  canTransition(order[v].status, order'[v].status)
    <3>1. order[w].status = kInProgress
          /\ order'[v].status \in {order[v].status} \cup (IF v = w THEN {kCompleted} ELSE {})
      BY <2>3 DEF Report, ReportedOrder, OrderTakes, TypeOK, OrderRow
    <3>2. <<kInProgress, "complete", kCompleted>> \in kTable /\ "complete" \in Event
      BY DEF kTable, Event
    <3> QED BY <3>1, <3>2
  <2>4. ASSUME NEW w \in WorkOrders, NEW s \in Steps \cup {AnyStep}, Inspect(w, s)
        PROVE  order' = order
    BY <2>4 DEF Inspect
  <2>5. ASSUME NEW w \in WorkOrders, NEW s \in Steps, NEW delta \in Quantities,
               ReportRejectedAfterUpdate(w, s, delta)
        PROVE  order' = order
    BY <2>5 DEF ReportRejectedAfterUpdate
  <2> QED BY <2>1, <2>2, <2>3, <2>4, <2>5 DEF Next
<1> QED BY <1>1, OrderInvariance, PTL DEF Spec, StatusByTable
-----------------------------------------------------------------------------
(* The inductive invariant of the saga *)

\* What a saga has read is still backed by its order.
ReadInv ==
  \A p \in Sagas : saga[p].pc # "idle" =>
    /\ saga[p].w \in WorkOrders
    /\ order[saga[p].w].status # Absent
    /\ saga[p].qty <= order[saga[p].w].completed

\* So is what the ERP was told.
ToldInv ==
  \A w \in WorkOrders : erp[w] # NotReported =>
    /\ order[w].status # Absent
    /\ erp[w] <= order[w].completed

\* A saga that is past T1 and not compensated.
Holds(p) == InFlight(p) \/ saga[p].result = "done"

\* The result is given when the saga is over.
ResultInv == \A p \in Sagas : saga[p].result # "none" => saga[p].pc = "over"

\* A saga's order stays finished while it is held; if it was put back to work
\* it would still lack quantity.
HeldInv ==
  commitsLost = 0 =>
    \A p \in Sagas : Holds(p) =>
      LET o == order[saga[p].w] IN
        /\ o.status \in {kCompleted, kClosed}
        /\ o.completed > 0 => o.completed < o.plan
        /\ stopRows[saga[p].w] > 0

\* It is held by one saga.
OneHolder ==
  commitsLost = 0 =>
    \A p, q \in Sagas : Holds(p) /\ Holds(q) /\ saga[p].w = saga[q].w => p = q

\* What the ERP and the WMS have of the saga that holds an order.
ReportedInv ==
  commitsLost = 0 =>
    \A p \in Sagas :
      /\ saga[p].pc \in {"wms", "record"} \/ saga[p].result = "done"
           => erp[saga[p].w] = saga[p].qty
      /\ saga[p].pc = "record" \/ saga[p].result = "done" => stockIns[saga[p].w] > 0

IInv ==
  /\ SagaTypeOK
  /\ EmptyUntilStarted
  /\ ReadInv
  /\ ToldInv
  /\ ResultInv
  /\ HeldInv
  /\ OneHolder
  /\ ReportedInv
  /\ RestoredOrderIsOpen

LEMMA InitIInv == SagaInit => IInv
<1> SUFFICES ASSUME SagaInit PROVE IInv
  OBVIOUS
<1> USE StatusValues DEF SagaInit, Init, NoOrder, NoOp, Start
<1>1. TypeOK
  BY DEF TypeOK, OrderRow, OpRow, OpPending, OpActive, OpDone
<1>2. SagaTypeOK
  BY <1>1, SagaAssumption, ParametersAssumption DEF SagaTypeOK, SagaRow
<1>3. EmptyUntilStarted /\ ReadInv /\ ToldInv /\ ResultInv
  BY DEF EmptyUntilStarted, ReadInv, ToldInv, ResultInv
<1>4. HeldInv /\ OneHolder /\ ReportedInv
  BY DEF HeldInv, OneHolder, ReportedInv, Holds, InFlight
<1>5. RestoredOrderIsOpen
  BY DEF RestoredOrderIsOpen, FullOrderIsFinished
<1> QED BY <1>2, <1>3, <1>4, <1>5 DEF IInv

\* What a move of one saga does to the sagas.
LEMMA GotoFacts ==
  ASSUME SagaTypeOK, NEW p \in Sagas, NEW pc, Goto(p, pc),
         pc \in {"idle", "t1", "erp", "wms", "cancel", "rollback", "record", "over"}
  PROVE  /\ saga' \in [Sagas -> SagaRow]
         /\ saga'[p].pc = pc
         /\ saga'[p].w = saga[p].w
         /\ saga'[p].qty = saga[p].qty
         /\ saga'[p].result = saga[p].result
         /\ \A q \in Sagas \ {p} : saga'[q] = saga[q]
BY DEF SagaTypeOK, Goto, SagaRow

LEMMA ReturnFacts ==
  ASSUME SagaTypeOK, NEW p \in Sagas, NEW result, Return(p, result),
         result \in {"none", "conflict", "failed", "lost", "done"}
  PROVE  /\ saga' \in [Sagas -> SagaRow]
         /\ saga'[p].pc = "over"
         /\ saga'[p].w = saga[p].w
         /\ saga'[p].qty = saga[p].qty
         /\ saga'[p].result = result
         /\ \A q \in Sagas \ {p} : saga'[q] = saga[q]
BY DEF SagaTypeOK, Return, SagaRow

\* A transaction of the service keeps what the sagas rely on.
LEMMA ServiceIInv ==
  ASSUME IInv, Service
  PROVE  IInv'
<1>1. TypeOK' /\ \A w \in WorkOrders : RowStep(w)
  BY ServiceStep DEF IInv, SagaTypeOK, Service
<1>2. UNCHANGED <<saga, erp, stockIns, dbFailures, commitsLost>>
  BY DEF Service, external, faults
<1>3. SagaTypeOK'
  BY <1>1, <1>2 DEF IInv, SagaTypeOK
<1> USE StatusValues
<1>4. /\ \A w \in WorkOrders : /\ order[w].completed \in Nat /\ order[w].plan \in Int
                               /\ order'[w].completed \in Nat /\ order'[w].plan \in Int
                               /\ stopRows[w] \in Nat /\ stopRows'[w] \in Nat
                               /\ erp[w] \in Int
      /\ \A p \in Sagas : saga[p].qty \in Nat
  BY <1>1 DEF IInv, SagaTypeOK, SagaRow, TypeOK, OrderRow, NotReported
<1>5. EmptyUntilStarted'
  BY <1>1 DEF IInv, EmptyUntilStarted, RowStep
<1>6. ReadInv'
  BY <1>1, <1>2, <1>4 DEF IInv, ReadInv, RowStep
<1>7. ToldInv'
  BY <1>1, <1>2, <1>4 DEF IInv, ToldInv, RowStep
<1>8. ResultInv' /\ OneHolder' /\ ReportedInv'
  BY <1>2 DEF IInv, ResultInv, OneHolder, ReportedInv, Holds, InFlight
<1>9. HeldInv'
  <2> SUFFICES ASSUME commitsLost = 0, NEW p \in Sagas, Holds(p)
               PROVE  LET o == order'[saga[p].w] IN
                        /\ o.status \in {kCompleted, kClosed}
                        /\ o.completed > 0 => o.completed < o.plan
                        /\ stopRows'[saga[p].w] > 0
    BY <1>2 DEF HeldInv, Holds, InFlight
  <2>1. saga[p].w \in WorkOrders
    BY DEF IInv, ReadInv, ResultInv, Holds, InFlight
  <2> QED BY <1>1, <1>4, <2>1 DEF IInv, HeldInv, RowStep
<1>10. RestoredOrderIsOpen'
  <2> SUFFICES ASSUME commitsLost = 0, NEW w \in WorkOrders,
                      order'[w].status \in {3, 4}, order'[w].completed > 0
               PROVE  order'[w].completed < order'[w].plan
    BY <1>2 DEF RestoredOrderIsOpen, FullOrderIsFinished
  <2> QED BY <1>1, <1>4 DEF IInv, RestoredOrderIsOpen, FullOrderIsFinished,
             EmptyUntilStarted, BeforeStart, RowStep
<1> QED BY <1>3, <1>5, <1>6, <1>7, <1>8, <1>9, <1>10 DEF IInv

\* A saga that stops where it is.
LEMMA GiveUpIInv ==
  ASSUME IInv, NEW p \in Sagas, NEW result \in {"conflict", "failed", "lost"},
         Return(p, result), saga[p].pc # "idle",
         UNCHANGED <<rows, external, commitsLost>>,
         dbFailures' \in 0 .. MaxDbFailures
  PROVE  IInv'
<1>1. /\ saga' \in [Sagas -> SagaRow]
      /\ saga'[p].pc = "over"
      /\ saga'[p].w = saga[p].w
      /\ saga'[p].qty = saga[p].qty
      /\ saga'[p].result = result
      /\ \A q \in Sagas \ {p} : saga'[q] = saga[q]
  BY ReturnFacts DEF IInv
<1>2. /\ UNCHANGED <<order, op, inspected, stopRows, erp, stockIns, commitsLost>>
      /\ TypeOK'
  BY DEF rows, external, IInv, SagaTypeOK, TypeOK
<1>3. SagaTypeOK'
  BY <1>1, <1>2 DEF IInv, SagaTypeOK
<1>4. \A q \in Sagas : Holds(q)' => q # p /\ Holds(q)
  BY <1>1 DEF Holds, InFlight
<1>5. EmptyUntilStarted' /\ ToldInv' /\ RestoredOrderIsOpen'
  BY <1>2 DEF IInv, EmptyUntilStarted, ToldInv, RestoredOrderIsOpen, FullOrderIsFinished
<1>6. ReadInv' /\ ResultInv'
  BY <1>1, <1>2 DEF IInv, ReadInv, ResultInv
<1>7. HeldInv' /\ OneHolder'
  BY <1>1, <1>2, <1>4 DEF IInv, HeldInv, OneHolder
<1>8. ReportedInv'
  BY <1>1, <1>2 DEF IInv, ReportedInv
<1> QED BY <1>3, <1>5, <1>6, <1>7, <1>8 DEF IInv

LEMMA BeginIInv ==
  ASSUME IInv, NEW p \in Sagas, NEW w \in WorkOrders, Begin(p, w)
  PROVE  IInv'
<1>1. /\ order[w].status = kInProgress /\ order[w].completed \in Nat
      /\ saga[p].pc = "idle" /\ saga[p].result = "none"
  BY DEF Begin, At, IInv, SagaTypeOK, TypeOK, OrderRow, ResultInv
<1>2. /\ UNCHANGED <<order, op, inspected, stopRows, erp, stockIns, dbFailures, commitsLost>>
      /\ TypeOK'
  BY DEF Begin, rows, external, faults, IInv, SagaTypeOK, TypeOK
<1>3. /\ saga' \in [Sagas -> SagaRow]
      /\ saga'[p] = [pc |-> "t1", w |-> w, qty |-> order[w].completed, result |-> "none"]
      /\ \A q \in Sagas \ {p} : saga'[q] = saga[q]
  BY <1>1 DEF Begin, IInv, SagaTypeOK, SagaRow
<1>4. SagaTypeOK'
  BY <1>2, <1>3 DEF IInv, SagaTypeOK
<1>5. \A q \in Sagas : Holds(q)' => q # p /\ Holds(q)
  BY <1>3 DEF Holds, InFlight
<1>6. EmptyUntilStarted' /\ ToldInv' /\ RestoredOrderIsOpen'
  BY <1>2 DEF IInv, EmptyUntilStarted, ToldInv, RestoredOrderIsOpen, FullOrderIsFinished
<1>7. ReadInv' /\ ResultInv'
  BY <1>1, <1>2, <1>3, StatusValues DEF IInv, ReadInv, ResultInv
<1>8. HeldInv' /\ OneHolder'
  BY <1>2, <1>3, <1>5 DEF IInv, HeldInv, OneHolder
<1>9. ReportedInv'
  BY <1>2, <1>3 DEF IInv, ReportedInv
<1> QED BY <1>4, <1>6, <1>7, <1>8, <1>9 DEF IInv

\* T1: the order was in progress, so nobody holds it.
LEMMA CompleteIInv ==
  ASSUME IInv, NEW p \in Sagas, Complete(p)
  PROVE  IInv'
<1> DEFINE w == saga[p].w
<1> USE StatusValues
<1>1. /\ saga[p].pc = "t1" /\ saga[p].result = "none"
      /\ w \in WorkOrders /\ order[w].status = kInProgress
      /\ order[w] \in OrderRow /\ stopRows[w] \in Nat
  BY DEF Complete, At, T1Hits, IInv, SagaTypeOK, TypeOK, ResultInv, ReadInv
<1>2. /\ saga' \in [Sagas -> SagaRow]
      /\ saga'[p].pc = "erp"
      /\ saga'[p].w = w
      /\ saga'[p].qty = saga[p].qty
      /\ saga'[p].result = "none"
      /\ \A q \in Sagas \ {p} : saga'[q] = saga[q]
  BY <1>1, GotoFacts DEF Complete, IInv
<1>3. /\ UNCHANGED <<op, inspected, erp, stockIns, dbFailures, commitsLost>>
      /\ order'[w] = [status |-> kCompleted, plan |-> order[w].plan,
                      completed |-> order[w].completed,
                      times |-> order[w].times \cup {"actual_end_at"}]
      /\ \A v \in WorkOrders \ {w} : order'[v] = order[v]
      /\ stopRows'[w] = stopRows[w] + 1
      /\ \A v \in WorkOrders \ {w} : stopRows'[v] = stopRows[v]
  BY <1>1 DEF Complete, external, faults, IInv, SagaTypeOK, TypeOK
<1>4. order'[w] \in OrderRow
  BY <1>1, <1>3 DEF OrderRow, TimeColumn
<1>5. SagaTypeOK'
  <2>1. order' \in [WorkOrders -> OrderRow] /\ stopRows' \in [WorkOrders -> Nat]
    BY <1>1, <1>3, <1>4 DEF Complete, IInv, SagaTypeOK, TypeOK
  <2> QED BY <1>2, <1>3, <2>1 DEF IInv, SagaTypeOK, TypeOK
<1>6. EmptyUntilStarted' /\ ToldInv'
  BY <1>1, <1>3 DEF IInv, EmptyUntilStarted, ToldInv, BeforeStart
<1>7. ReadInv' /\ ResultInv'
  BY <1>1, <1>2, <1>3 DEF IInv, ReadInv, ResultInv
<1>8. ASSUME commitsLost = 0, NEW q \in Sagas, Holds(q)
      PROVE  saga[q].w # w /\ saga[q].w \in WorkOrders /\ q # p
  BY <1>1, <1>8 DEF IInv, HeldInv, ReadInv, ResultInv, Holds, InFlight
<1>9. \A q \in Sagas : Holds(q)' => q = p \/ Holds(q)
  BY <1>2 DEF Holds, InFlight
<1>10. HeldInv'
  <2>1. commitsLost = 0 /\ order[w].completed > 0 => order[w].completed < order[w].plan
    BY <1>1 DEF IInv, RestoredOrderIsOpen, FullOrderIsFinished
  <2> SUFFICES ASSUME commitsLost = 0, NEW q \in Sagas, Holds(q)'
               PROVE  LET o == order'[saga'[q].w] IN
                        /\ o.status \in {kCompleted, kClosed}
                        /\ o.completed > 0 => o.completed < o.plan
                        /\ stopRows'[saga'[q].w] > 0
    BY <1>3 DEF HeldInv
  <2>2. CASE q = p
    BY <1>1, <1>2, <1>3, <2>1, <2>2
  <2>3. CASE q # p
    BY <1>2, <1>3, <1>8, <1>9, <2>3 DEF IInv, HeldInv
  <2> QED BY <2>2, <2>3
<1>11. OneHolder'
  BY <1>2, <1>3, <1>8, <1>9 DEF IInv, OneHolder
<1>12. ReportedInv'
  BY <1>2, <1>3 DEF IInv, ReportedInv
<1>13. RestoredOrderIsOpen'
  BY <1>3 DEF IInv, RestoredOrderIsOpen, FullOrderIsFinished
<1> QED BY <1>5, <1>6, <1>7, <1>10, <1>11, <1>12, <1>13 DEF IInv

\* From a lost COMMIT on, only the unconditional parts are left to keep.
LEMMA CompleteNotCommittedIInv ==
  ASSUME IInv, NEW p \in Sagas, CompleteNotCommitted(p)
  PROVE  IInv'
<1>1. saga[p].pc = "t1" /\ saga[p].result = "none"
  BY DEF CompleteNotCommitted, At, IInv, ResultInv
<1>2. /\ saga' \in [Sagas -> SagaRow]
      /\ saga'[p].pc = "erp"
      /\ saga'[p].w = saga[p].w
      /\ saga'[p].qty = saga[p].qty
      /\ saga'[p].result = "none"
      /\ \A q \in Sagas \ {p} : saga'[q] = saga[q]
  BY <1>1, GotoFacts DEF CompleteNotCommitted, IInv
<1>3. UNCHANGED <<order, op, inspected, stopRows, erp, stockIns, dbFailures>>
  BY DEF CompleteNotCommitted, rows, external
<1>4. commitsLost' \in 0 .. MaxCommitsLost /\ commitsLost' # 0
  BY SagaAssumption, ParametersAssumption DEF CompleteNotCommitted, IInv, SagaTypeOK
<1>5. SagaTypeOK'
  BY <1>2, <1>3, <1>4 DEF IInv, SagaTypeOK, TypeOK
<1>6. EmptyUntilStarted' /\ ToldInv'
  BY <1>3 DEF IInv, EmptyUntilStarted, ToldInv
<1>7. ReadInv' /\ ResultInv'
  BY <1>1, <1>2, <1>3 DEF IInv, ReadInv, ResultInv
<1> QED BY <1>4, <1>5, <1>6, <1>7
        DEF IInv, HeldInv, OneHolder, ReportedInv, RestoredOrderIsOpen

\* A saga that holds its order and goes on, whatever it does to the ERP and
\* the WMS.
LEMMA GoOnFacts ==
  ASSUME IInv, NEW p \in Sagas, InFlight(p), UNCHANGED <<rows, faults>>,
         NEW pc \in {"wms", "cancel", "rollback", "record"}, Goto(p, pc)
  PROVE  /\ TypeOK' /\ saga' \in [Sagas -> SagaRow]
         /\ dbFailures' \in 0 .. MaxDbFailures /\ commitsLost' \in 0 .. MaxCommitsLost
         /\ EmptyUntilStarted' /\ ReadInv' /\ ResultInv' /\ HeldInv' /\ OneHolder'
         /\ RestoredOrderIsOpen'
         /\ UNCHANGED <<order, commitsLost>>
         /\ saga[p].w \in WorkOrders /\ saga[p].qty \in Nat
         /\ order[saga[p].w].status # Absent
         /\ saga[p].qty <= order[saga[p].w].completed
         /\ saga'[p].pc = pc /\ saga'[p].w = saga[p].w /\ saga'[p].qty = saga[p].qty
         /\ saga'[p].result = "none"
         /\ \A q \in Sagas \ {p} : saga'[q] = saga[q]
         /\ commitsLost = 0 =>
              \A q \in Sagas \ {p} : Holds(q) => saga[q].w # saga[p].w
<1>1. saga[p].pc \notin {"idle", "over"} /\ saga[p].result = "none"
  BY DEF InFlight, IInv, ResultInv
<1>2. /\ saga' \in [Sagas -> SagaRow]
      /\ saga'[p].pc = pc
      /\ saga'[p].w = saga[p].w
      /\ saga'[p].qty = saga[p].qty
      /\ saga'[p].result = "none"
      /\ \A q \in Sagas \ {p} : saga'[q] = saga[q]
  BY <1>1, GotoFacts DEF IInv
<1>3. UNCHANGED <<order, op, inspected, stopRows, dbFailures, commitsLost>>
  BY DEF rows, faults
<1>4. /\ TypeOK'
      /\ dbFailures' \in 0 .. MaxDbFailures /\ commitsLost' \in 0 .. MaxCommitsLost
  BY <1>3 DEF IInv, SagaTypeOK, TypeOK
<1>5. EmptyUntilStarted' /\ RestoredOrderIsOpen'
  BY <1>3 DEF IInv, EmptyUntilStarted, RestoredOrderIsOpen, FullOrderIsFinished
<1>6. ReadInv' /\ ResultInv'
  BY <1>1, <1>2, <1>3 DEF IInv, ReadInv, ResultInv
<1>7. \A q \in Sagas : (Holds(q)' => Holds(q)) /\ saga'[q].w = saga[q].w
  BY <1>2 DEF Holds, InFlight
<1>8. HeldInv' /\ OneHolder'
  BY <1>3, <1>7 DEF IInv, HeldInv, OneHolder
<1>9. saga[p].w \in WorkOrders /\ saga[p].qty \in Nat
      /\ order[saga[p].w].status # Absent
      /\ saga[p].qty <= order[saga[p].w].completed
  BY <1>1 DEF IInv, ReadInv, SagaTypeOK, SagaRow
<1>10. commitsLost = 0 => \A q \in Sagas \ {p} : Holds(q) => saga[q].w # saga[p].w
  BY DEF IInv, OneHolder, Holds
<1> QED BY <1>2, <1>3, <1>4, <1>5, <1>6, <1>8, <1>9, <1>10

LEMMA ReportToErpIInv ==
  ASSUME IInv, NEW p \in Sagas, ReportToErp(p)
  PROVE  IInv'
<1> DEFINE w == saga[p].w
<1> PICK outcome \in CallOutcomes :
      /\ erp' = [erp EXCEPT ![w] = IF outcome[1] > 0 THEN saga[p].qty ELSE @]
      /\ Goto(p, IF outcome[2] THEN "wms" ELSE "rollback")
  BY DEF ReportToErp
<1>1. saga[p].pc = "erp" /\ InFlight(p) /\ UNCHANGED <<rows, faults>> /\ UNCHANGED stockIns
  BY DEF ReportToErp, At, InFlight
<1>2. outcome[2] => outcome[1] > 0
  BY DEF CallOutcomes
<1>3. PICK pc \in {"wms", "rollback"} : Goto(p, pc) /\ (pc = "wms" => outcome[1] > 0)
  <2>1. CASE outcome[2]
    BY <1>2, <2>1
  <2>2. CASE ~outcome[2]
    BY <2>2
  <2> QED BY <2>1, <2>2
<1>4. w \in WorkOrders /\ saga[p].qty \in Nat /\ order[w].status # Absent
      /\ saga[p].qty <= order[w].completed
  BY <1>1, <1>3, GoOnFacts
<1>5. /\ erp' \in [WorkOrders -> Nat \cup {NotReported}]
      /\ outcome[1] > 0 => erp'[w] = saga[p].qty
      /\ erp'[w] \in {erp[w], saga[p].qty}
      /\ \A v \in WorkOrders \ {w} : erp'[v] = erp[v]
  <2>1. CASE outcome[1] > 0
    BY <1>4, <2>1 DEF IInv, SagaTypeOK
  <2>2. CASE ~(outcome[1] > 0)
    BY <1>4, <2>2 DEF IInv, SagaTypeOK
  <2> QED BY <2>1, <2>2
<1>6. SagaTypeOK'
  BY <1>1, <1>3, <1>5, GoOnFacts DEF IInv, SagaTypeOK
<1>7. ToldInv'
  <2>1. UNCHANGED order
    BY <1>1 DEF rows
  <2> QED BY <1>4, <1>5, <2>1 DEF IInv, ToldInv
<1>8. ReportedInv'
  <2> SUFFICES ASSUME commitsLost' = 0, NEW q \in Sagas
               PROVE  /\ saga'[q].pc \in {"wms", "record"} \/ saga'[q].result = "done"
                           => erp'[saga'[q].w] = saga'[q].qty
                      /\ saga'[q].pc = "record" \/ saga'[q].result = "done"
                           => stockIns'[saga'[q].w] > 0
    BY DEF ReportedInv
  <2>1. commitsLost = 0
    BY <1>1 DEF faults
  <2>2. CASE q = p
    BY <1>1, <1>3, <1>5, <2>2, GoOnFacts
  <2>3. CASE q # p
    <3>1. saga'[q] = saga[q] /\ (Holds(q) => saga[q].w # w)
      BY <1>1, <1>3, <2>1, <2>3, GoOnFacts
    <3>2. saga[q].pc \in {"wms", "record"} \/ saga[q].result = "done"
            => Holds(q) /\ saga[q].w \in WorkOrders
      BY DEF Holds, InFlight, IInv, ReadInv, ResultInv
    <3> QED BY <1>1, <1>5, <2>1, <3>1, <3>2 DEF IInv, ReportedInv
  <2> QED BY <2>2, <2>3
<1> QED BY <1>1, <1>3, <1>6, <1>7, <1>8, GoOnFacts DEF IInv

LEMMA StockInIInv ==
  ASSUME IInv, NEW p \in Sagas, StockIn(p)
  PROVE  IInv'
<1> DEFINE w == saga[p].w
<1> PICK outcome \in CallOutcomes :
      /\ stockIns' = [stockIns EXCEPT ![w] = @ + outcome[1]]
      /\ Goto(p, IF outcome[2] THEN "record" ELSE "cancel")
  BY DEF StockIn
<1>1. saga[p].pc = "wms" /\ InFlight(p) /\ UNCHANGED <<rows, faults>> /\ UNCHANGED erp
  BY DEF StockIn, At, InFlight
<1>2. outcome[1] \in Nat /\ (outcome[2] => outcome[1] > 0)
  BY SagaAssumption, ParametersAssumption DEF CallOutcomes
<1>3. PICK pc \in {"record", "cancel"} : Goto(p, pc) /\ (pc = "record" => outcome[1] > 0)
  <2>1. CASE outcome[2]
    BY <1>2, <2>1
  <2>2. CASE ~outcome[2]
    BY <2>2
  <2> QED BY <2>1, <2>2
<1>4. w \in WorkOrders /\ stockIns[w] \in Nat
  BY <1>1, <1>3, GoOnFacts DEF IInv, SagaTypeOK
<1>5. /\ stockIns' \in [WorkOrders -> Nat]
      /\ outcome[1] > 0 => stockIns'[w] > 0
      /\ stockIns'[w] >= stockIns[w]
      /\ \A v \in WorkOrders \ {w} : stockIns'[v] = stockIns[v]
  BY <1>2, <1>4 DEF IInv, SagaTypeOK
<1>6. SagaTypeOK'
  BY <1>1, <1>3, <1>5, GoOnFacts DEF IInv, SagaTypeOK
<1>7. ToldInv'
  BY <1>1 DEF IInv, ToldInv, rows
<1>8. ReportedInv'
  <2> SUFFICES ASSUME commitsLost' = 0, NEW q \in Sagas
               PROVE  /\ saga'[q].pc \in {"wms", "record"} \/ saga'[q].result = "done"
                           => erp'[saga'[q].w] = saga'[q].qty
                      /\ saga'[q].pc = "record" \/ saga'[q].result = "done"
                           => stockIns'[saga'[q].w] > 0
    BY DEF ReportedInv
  <2>1. commitsLost = 0
    BY <1>1 DEF faults
  <2>2. CASE q = p
    BY <1>1, <1>3, <1>5, <2>1, <2>2, GoOnFacts DEF IInv, ReportedInv
  <2>3. CASE q # p
    <3>1. saga'[q] = saga[q] /\ (Holds(q) => saga[q].w # w)
      BY <1>1, <1>3, <2>1, <2>3, GoOnFacts
    <3>2. saga[q].pc \in {"wms", "record"} \/ saga[q].result = "done"
            => Holds(q) /\ saga[q].w \in WorkOrders
      BY DEF Holds, InFlight, IInv, ReadInv, ResultInv
    <3> QED BY <1>1, <1>5, <2>1, <3>1, <3>2 DEF IInv, ReportedInv
  <2> QED BY <2>2, <2>3
<1> QED BY <1>1, <1>3, <1>6, <1>7, <1>8, GoOnFacts DEF IInv

LEMMA CancelReportIInv ==
  ASSUME IInv, NEW p \in Sagas, CancelReport(p)
  PROVE  IInv'
<1> DEFINE w == saga[p].w
<1> PICK outcome \in CallOutcomes :
      erp' = [erp EXCEPT ![w] = IF outcome[1] > 0 THEN NotReported ELSE @]
  BY DEF CancelReport
<1>1. /\ saga[p].pc = "cancel" /\ InFlight(p) /\ Goto(p, "rollback")
      /\ UNCHANGED <<rows, faults>> /\ UNCHANGED stockIns
  BY DEF CancelReport, At, InFlight
<1>2. w \in WorkOrders
  BY <1>1, GoOnFacts
<1>3. /\ erp' \in [WorkOrders -> Nat \cup {NotReported}]
      /\ erp'[w] \in {erp[w], NotReported}
      /\ \A v \in WorkOrders \ {w} : erp'[v] = erp[v]
  <2>1. CASE outcome[1] > 0
    BY <1>2, <2>1 DEF IInv, SagaTypeOK
  <2>2. CASE ~(outcome[1] > 0)
    BY <1>2, <2>2 DEF IInv, SagaTypeOK
  <2> QED BY <2>1, <2>2
<1>4. SagaTypeOK'
  BY <1>1, <1>3, GoOnFacts DEF IInv, SagaTypeOK
<1>5. ToldInv'
  <2>1. UNCHANGED order
    BY <1>1 DEF rows
  <2> QED BY <1>2, <1>3, <2>1 DEF IInv, ToldInv
<1>6. ReportedInv'
  <2> SUFFICES ASSUME commitsLost' = 0, NEW q \in Sagas
               PROVE  /\ saga'[q].pc \in {"wms", "record"} \/ saga'[q].result = "done"
                           => erp'[saga'[q].w] = saga'[q].qty
                      /\ saga'[q].pc = "record" \/ saga'[q].result = "done"
                           => stockIns'[saga'[q].w] > 0
    BY DEF ReportedInv
  <2>1. commitsLost = 0
    BY <1>1 DEF faults
  <2>2. CASE q = p
    BY <1>1, <2>2, GoOnFacts
  <2>3. CASE q # p
    <3>1. saga'[q] = saga[q] /\ (Holds(q) => saga[q].w # w)
      BY <1>1, <2>1, <2>3, GoOnFacts
    <3>2. saga[q].pc \in {"wms", "record"} \/ saga[q].result = "done"
            => Holds(q) /\ saga[q].w \in WorkOrders
      BY DEF Holds, InFlight, IInv, ReadInv, ResultInv
    <3> QED BY <1>1, <1>3, <2>1, <3>1, <3>2 DEF IInv, ReportedInv
  <2> QED BY <2>2, <2>3
<1> QED BY <1>1, <1>4, <1>5, <1>6, GoOnFacts DEF IInv

\* The compensation of T1: the order still lacks quantity, and no other saga
\* loses it.
LEMMA RollbackT1IInv ==
  ASSUME IInv, NEW p \in Sagas, RollbackT1(p)
  PROVE  IInv'
<1> DEFINE w == saga[p].w
<1> USE StatusValues
<1>1. /\ saga[p].pc = "rollback" /\ Holds(p) /\ Return(p, "failed")
      /\ UNCHANGED <<op, inspected, stopRows, erp, stockIns, dbFailures, commitsLost>>
  BY DEF RollbackT1, At, Holds, InFlight, external, faults
<1>2. /\ saga' \in [Sagas -> SagaRow]
      /\ saga'[p].pc = "over"
      /\ saga'[p].w = w
      /\ saga'[p].qty = saga[p].qty
      /\ saga'[p].result = "failed"
      /\ \A q \in Sagas \ {p} : saga'[q] = saga[q]
  BY <1>1, ReturnFacts DEF IInv
<1>3. w \in WorkOrders /\ order[w] \in OrderRow
  BY <1>1 DEF IInv, SagaTypeOK, TypeOK, ReadInv
<1>4. order' = [order EXCEPT ![w] = [order[w] EXCEPT !.status = kInProgress]]
  BY DEF RollbackT1
<1>5. /\ order'[w].status = kInProgress
      /\ order'[w].completed = order[w].completed
      /\ order'[w].plan = order[w].plan
      /\ order'[w] \in OrderRow
      /\ \A v \in WorkOrders \ {w} : order'[v] = order[v]
  <2> DEFINE row == [order[w] EXCEPT !.status = kInProgress]
  <2>1. /\ row.status = kInProgress /\ row.completed = order[w].completed
        /\ row.plan = order[w].plan /\ row \in OrderRow
    BY <1>3 DEF OrderRow
  <2>2. order'[w] = row /\ \A v \in WorkOrders \ {w} : order'[v] = order[v]
    BY <1>3, <1>4 DEF IInv, SagaTypeOK, TypeOK
  <2> QED BY <2>1, <2>2
<1>6. SagaTypeOK'
  <2>1. order' \in [WorkOrders -> OrderRow]
    BY <1>4, <1>5 DEF IInv, SagaTypeOK, TypeOK
  <2> QED BY <1>1, <1>2, <2>1 DEF IInv, SagaTypeOK, TypeOK
<1>7. EmptyUntilStarted' /\ ToldInv'
  BY <1>1, <1>5 DEF IInv, EmptyUntilStarted, ToldInv, BeforeStart
<1>8. ReadInv' /\ ResultInv'
  BY <1>1, <1>2, <1>5 DEF IInv, ReadInv, ResultInv
<1>9. \A q \in Sagas : Holds(q)' => q # p /\ Holds(q) /\ saga'[q] = saga[q]
  BY <1>2 DEF Holds, InFlight
<1>10. commitsLost = 0 => \A q \in Sagas \ {p} : Holds(q) => saga[q].w # w
  BY <1>1 DEF IInv, OneHolder
<1>11. HeldInv' /\ OneHolder'
  <2>1. \A q \in Sagas : Holds(q) => saga[q].w \in WorkOrders
    BY DEF IInv, ReadInv, ResultInv, Holds, InFlight
  <2> QED BY <1>1, <1>5, <1>9, <1>10, <2>1 DEF IInv, HeldInv, OneHolder
<1>12. ReportedInv'
  BY <1>1, <1>2 DEF IInv, ReportedInv
<1>13. RestoredOrderIsOpen'
  <2>1. commitsLost = 0 /\ order[w].completed > 0 => order[w].completed < order[w].plan
    BY <1>1 DEF IInv, HeldInv
  <2> QED BY <1>1, <1>5, <2>1 DEF IInv, RestoredOrderIsOpen, FullOrderIsFinished
<1> QED BY <1>6, <1>7, <1>8, <1>11, <1>12, <1>13 DEF IInv

LEMMA RecordIInv ==
  ASSUME IInv, NEW p \in Sagas, Record(p)
  PROVE  IInv'
<1>1. /\ saga[p].pc = "record" /\ Return(p, "done")
      /\ UNCHANGED <<order, op, inspected, stopRows, erp, stockIns, dbFailures, commitsLost>>
  BY DEF Record, At, rows, external, faults
<1>2. /\ saga' \in [Sagas -> SagaRow]
      /\ saga'[p].pc = "over"
      /\ saga'[p].w = saga[p].w
      /\ saga'[p].qty = saga[p].qty
      /\ saga'[p].result = "done"
      /\ \A q \in Sagas \ {p} : saga'[q] = saga[q]
  BY <1>1, ReturnFacts DEF IInv
<1>3. SagaTypeOK'
  BY <1>1, <1>2 DEF IInv, SagaTypeOK, TypeOK
<1>4. \A q \in Sagas : (Holds(q)' => Holds(q)) /\ saga'[q].w = saga[q].w
  BY <1>1, <1>2 DEF Holds, InFlight
<1>5. EmptyUntilStarted' /\ ToldInv' /\ RestoredOrderIsOpen'
  BY <1>1 DEF IInv, EmptyUntilStarted, ToldInv, RestoredOrderIsOpen, FullOrderIsFinished
<1>6. ReadInv' /\ ResultInv'
  BY <1>1, <1>2 DEF IInv, ReadInv, ResultInv
<1>7. HeldInv' /\ OneHolder'
  BY <1>1, <1>4 DEF IInv, HeldInv, OneHolder
<1>8. ReportedInv'
  BY <1>1, <1>2 DEF IInv, ReportedInv
<1> QED BY <1>3, <1>5, <1>6, <1>7, <1>8 DEF IInv

LEMMA NextIInv == IInv /\ [SagaNext]_sagaVars => IInv'
<1> SUFFICES ASSUME IInv, [SagaNext]_sagaVars PROVE IInv'
  OBVIOUS
<1>1. CASE Service
  BY <1>1, ServiceIInv
<1>2. ASSUME NEW p \in Sagas, NEW w \in WorkOrders, Begin(p, w) PROVE IInv'
  BY <1>2, BeginIInv
<1>3. ASSUME NEW p \in Sagas, Complete(p) \/ CompleteNotCommitted(p) PROVE IInv'
  BY <1>3, CompleteIInv, CompleteNotCommittedIInv
<1>4. ASSUME NEW p \in Sagas, ReportToErp(p) \/ StockIn(p) \/ CancelReport(p) PROVE IInv'
  BY <1>4, ReportToErpIInv, StockInIInv, CancelReportIInv
<1>5. ASSUME NEW p \in Sagas, RollbackT1(p) \/ Record(p) PROVE IInv'
  BY <1>5, RollbackT1IInv, RecordIInv
<1>6. ASSUME NEW p \in Sagas,
             StatusChanged(p) \/ NotConfigured(p) \/ StatementFails(p) \/ Crash(p)
      PROVE  IInv'
  <2>1. /\ saga[p].pc # "idle"
        /\ UNCHANGED <<rows, external, commitsLost>>
        /\ Return(p, "conflict") \/ Return(p, "failed") \/ Return(p, "lost")
    BY <1>6 DEF StatusChanged, NotConfigured, StatementFails, Crash, At, InFlight, faults
  <2>2. dbFailures' \in 0 .. MaxDbFailures
    BY <1>6, SagaAssumption, ParametersAssumption
    DEF StatusChanged, NotConfigured, StatementFails, Crash, faults, IInv, SagaTypeOK
  <2> QED BY <2>1, <2>2, GiveUpIInv
<1>7. CASE UNCHANGED sagaVars
  <2>1. UNCHANGED <<order, op, inspected, stopRows, saga, erp, stockIns, dbFailures, commitsLost>>
    BY <1>7 DEF sagaVars, rows, external, faults
  <2>2. SagaTypeOK'
    BY <2>1 DEF IInv, SagaTypeOK, TypeOK
  <2> QED BY <2>1, <2>2 DEF IInv, EmptyUntilStarted, ReadInv, ToldInv, ResultInv, HeldInv,
             OneHolder, ReportedInv, RestoredOrderIsOpen, FullOrderIsFinished, Holds, InFlight
<1> QED BY <1>1, <1>2, <1>3, <1>4, <1>5, <1>6, <1>7 DEF SagaNext, Saga
-----------------------------------------------------------------------------
\* The parts above hold in every reachable state.
THEOREM Invariance == SagaSpec => []IInv
BY InitIInv, NextIInv, PTL DEF SagaSpec

\* SagaTypeOK: rows, sagas and the external quantities keep their types (the code
\* reads and writes them unchecked, IntegrationService.cc:279-378).
THEOREM TypeCorrect == SagaSpec => []SagaTypeOK
<1>1. IInv => SagaTypeOK
  BY DEF IInv
<1> QED BY <1>1, Invariance, PTL

\* OneSagaPerOrder: the WHERE of T1 (IntegrationService.cc:301) admits one saga
\* per order, for any number of requests, if no COMMIT of T1 is lost.
THEOREM Exclusion == SagaSpec => []OneSagaPerOrder
<1>1. IInv => OneSagaPerOrder
  BY DEF IInv, OneHolder, OneSagaPerOrder, Holds
<1> QED BY <1>1, Invariance, PTL

\* DoneIsLasting: nothing done later takes back what a successful saga has
\* reported, booked and finished.
THEOREM DoneLasts == SagaSpec => []DoneIsLasting
<1>1. IInv => DoneIsLasting
  BY DEF IInv, HeldInv, ReportedInv, DoneIsLasting, Holds
<1> QED BY <1>1, Invariance, PTL

\* RestoredOrderIsOpen: the compensation (IntegrationService.cc:319) puts back
\* to work only orders that can be reported on.
THEOREM RestoredOpen == SagaSpec => []RestoredOrderIsOpen
<1>1. IInv => RestoredOrderIsOpen
  BY DEF IInv
<1> QED BY <1>1, Invariance, PTL

\* ErpBacked: the quantity read before T1 (IntegrationService.cc:292) never
\* exceeds what was reported on the order, lost COMMITs included.
THEOREM Backed == SagaSpec => []ErpBacked
<1>1. IInv => ErpBacked
  BY DEF IInv, ToldInv, ErpBacked
<1> QED BY <1>1, Invariance, PTL

\* OpNeverOverPlan holds beside the saga too: it completes and restores orders
\* (IntegrationService.cc:296-328) but writes no operation row.
THEOREM NoOverReportBesideSaga == SagaSpec => []OpNeverOverPlan
<1>1. SagaInit => TypeOK /\ OpNeverOverPlan
  BY OrderInit DEF SagaInit, OrderInv
<1>2. SagaTypeOK /\ OpNeverOverPlan /\ [SagaNext]_sagaVars => OpNeverOverPlan'
  <2> SUFFICES ASSUME SagaTypeOK, OpNeverOverPlan, [SagaNext]_sagaVars PROVE OpNeverOverPlan'
    OBVIOUS
  <2>1. CASE Next
    BY <2>1, PlanKept DEF SagaTypeOK
  <2>2. CASE op' = op
    BY <2>2 DEF OpNeverOverPlan
  <2>3. Next \/ op' = op
    BY DEF SagaNext, Service, Saga, sagaVars, rows, Begin, Complete, CompleteNotCommitted,
           StatusChanged, ReportToErp, StockIn, Record, CancelReport, RollbackT1,
           NotConfigured, StatementFails, Crash
  <2> QED BY <2>1, <2>2, <2>3
<1> QED BY <1>1, <1>2, TypeCorrect, PTL DEF SagaSpec

\* SummaryBackedByOps holds beside the saga too: it completes orders that lack
\* quantity, but changes no quantity of an order or an operation.
THEOREM SummaryBackedBesideSaga == SagaSpec => []SummaryBackedByOps
<1>1. SagaInit => SummaryBackedByOps
  BY BackedInit DEF SagaInit
<1>2. SagaTypeOK /\ SummaryBackedByOps /\ [SagaNext]_sagaVars => SummaryBackedByOps'
  <2> SUFFICES ASSUME SagaTypeOK, SummaryBackedByOps, [SagaNext]_sagaVars
               PROVE  SummaryBackedByOps'
    OBVIOUS
  <2>1. CASE Next
    BY <2>1, BackedKept DEF SagaTypeOK
  <2>2. CASE /\ op' = op
             /\ \A w \in WorkOrders : order'[w].completed = order[w].completed
    BY <2>2 DEF SummaryBackedByOps, OpTotal
  <2>3. ASSUME NEW p \in Sagas, Complete(p) \/ RollbackT1(p)
        PROVE  op' = op /\ \A w \in WorkOrders : order'[w].completed = order[w].completed
    <3>1. CASE Complete(p)
      BY <3>1 DEF Complete, SagaTypeOK, TypeOK
    <3>2. CASE RollbackT1(p)
      BY <3>2 DEF RollbackT1, SagaTypeOK, TypeOK, OrderRow
    <3> QED BY <2>3, <3>1, <3>2
  <2>4. Next \/ (op' = op /\ order' = order) \/ \E p \in Sagas : Complete(p) \/ RollbackT1(p)
    BY DEF SagaNext, Service, Saga, sagaVars, rows, Begin, CompleteNotCommitted,
           StatusChanged, ReportToErp, StockIn, Record, CancelReport,
           NotConfigured, StatementFails, Crash
  <2> QED BY <2>1, <2>2, <2>3, <2>4
<1> QED BY <1>1, <1>2, TypeCorrect, PTL DEF SagaSpec
=============================================================================
