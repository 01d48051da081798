---------------------------- MODULE SessionProofs ----------------------------
(***************************************************************************)
(* Theorems about Session, for any sessions, passwords and requests under  *)
(* way, any limit of failures and any lifetimes; those about tokens assume *)
(* that the blacklist key outlives them (Covered).                         *)
(*                                                                         *)
(* That an ended session stays useless holds because its age and the life  *)
(* its key has left add up to the life of its tokens at least (EndedInv).  *)
(* That a token makes one successor rests on it: a second refresh that     *)
(* begins after the first has rotated finds the key (KidInv).  That a      *)
(* logout ends its whole login rests on both: of the sessions of a login   *)
(* at most one is alive (OneAliveInv), and what is refreshed or logged out *)
(* is that one (AliveInv, LeavingInv).                                     *)
(*                                                                         *)
(* And, about the other state a client sees, theorems about LivePush, for  *)
(* any instances, connections, limit and numbers of frames, losses and     *)
(* crashes.                                                                *)
(***************************************************************************)
EXTENDS Session, LivePush, FiniteSetTheorems, TLAPS

TokenTypes ==
  /\ age \in [Sessions -> Int] /\ \A s \in Sessions : age[s] >= -1
  /\ black \in [Sessions -> Nat]
  /\ parent \in [Sessions -> Sessions \cup {0}] /\ root \in [Sessions -> Sessions \cup {0}]

\* What was handed out, logged out or raced for was issued, and so was the first
\* session of every login.
IssuedInv ==
  /\ out \subseteq Sessions /\ leaving \cup loggedOut \cup Raced \subseteq out
  /\ \A s \in out : age[s] >= 0
  /\ \A s \in Sessions : root[s] # 0 => age[s] >= 0 /\ age[root[s]] >= 0

RefreshTypes ==
  refresh \in [Refreshes -> [stage : {"idle", "select", "issue", "rotate"},
                             s : Sessions \cup {0}, next : Sessions \cup {0}]]

\* A refresh under way is of a session that was handed out, and what it has issued
\* is a successor of that one.
RefreshInv ==
  \A k \in Refreshes :
    IF refresh[k].stage = "idle" THEN refresh[k].s = 0
    ELSE /\ refresh[k].s \in out
         /\ refresh[k].stage = "rotate" =>
              /\ refresh[k].next \in Sessions /\ age[refresh[k].next] >= 0
              /\ parent[refresh[k].next] = refresh[k].s
              /\ root[refresh[k].next] = root[refresh[k].s]

Excused(s) == s \in overlapped \cup unrotated

\* A session that was logged out, or whose successor was handed out.
Ended(s) == s \in loggedOut \/ \E t \in out : parent[t] = s

EndedInv ==
  \A s \in Sessions : (Ended(s) /\ ~Excused(s)) => age[s] >= 0 /\ age[s] + black[s] >= Lifetime

HasKid(s) == \E t \in Sessions : parent[t] = s

\* Refreshes of one session at once have overlapped.
PairInv ==
  \A j, k \in Refreshes :
    (j # k /\ refresh[k].stage # "idle" /\ refresh[j].s = refresh[k].s)
      => refresh[k].s \in overlapped

\* Whoever may still make a successor is the first to do so.
FirstInv ==
  \A k \in Refreshes :
    (refresh[k].stage \in {"select", "issue"} /\ HasKid(refresh[k].s)) => Excused(refresh[k].s)

\* A session with a successor has ended or is about to.
KidInv ==
  \A s \in Sessions : HasKid(s) =>
    Excused(s) \/ Ended(s) \/ \E k \in Refreshes : refresh[k].stage = "rotate" /\ refresh[k].s = s

OneKidInv ==
  \A t, u \in Sessions : (t # u /\ parent[t] = parent[u] /\ parent[t] # 0) => Excused(parent[t])

TokenInv ==
  /\ TokenTypes /\ IssuedInv /\ RefreshTypes /\ RefreshInv /\ EndedInv
  /\ PairInv /\ FirstInv /\ KidInv /\ OneKidInv

\* No session of the login r was raced for.
Clean(r) == \A u \in Raced : root[u] # r

\* At most one session of a login is alive.
OneAliveInv ==
  \A s, t \in out : (s # t /\ root[s] = root[t] /\ Clean(root[s])) => Ended(s) \/ Ended(t)

\* What is being refreshed is the one alive, and is not being logged out.
AliveInv ==
  \A k \in Refreshes : refresh[k].stage # "idle" =>
    /\ Clean(root[refresh[k].s]) => ~Ended(refresh[k].s)
    /\ refresh[k].s \in leaving => refresh[k].s \in overtaken

\* What is being logged out is the one alive.
LeavingInv == \A s \in leaving : Clean(root[s]) => ~Ended(s)

LogoutInv ==
  \A s \in loggedOut, t \in out : (root[t] = root[s] /\ Clean(root[s])) => Ended(t)

ChainInv == OneAliveInv /\ AliveInv /\ LeavingInv /\ LogoutInv

LoginTypes ==
  login \in [Logins -> [stage : {"idle", "verify", "ok"}, tried : Passwords, hash : Passwords]]

\* A cached verification was a successful one.
LoginInv ==
  /\ LoginTypes
  /\ row.hash \in Passwords
  /\ \A k \in Changes : change[k].new \in Passwords
  /\ \A p, h \in Passwords : <<p, h>> \in verified => p = h
  /\ AdmittedWithPassword

RowTypes ==
  /\ DOMAIN row = {"status", "fails", "deleted", "hash"}
  /\ row.status \in 0 .. 2 /\ row.fails \in Nat /\ row.hash \in Passwords
-----------------------------------------------------------------------------
(* Tokens *)

LEMMA Lifetimes ==
  /\ {AccessTtl, RefreshTtl, BlacklistTtl, Lifetime} \subseteq Nat
  /\ AccessTtl <= Lifetime /\ RefreshTtl <= Lifetime
  /\ Covered => Lifetime <= BlacklistTtl
BY ParametersAssumption DEF Lifetime, Covered

LEMMA TokenInit == Init => TokenInv /\ ChainInv
<1> SUFFICES ASSUME Init PROVE TokenInv /\ ChainInv
  OBVIOUS
<1>1. TokenTypes /\ IssuedInv /\ RefreshTypes /\ RefreshInv
  BY DEF Init, NoRefresh, TokenTypes, IssuedInv, Raced, RefreshTypes, RefreshInv
<1>2. \A s \in Sessions : ~HasKid(s) /\ ~Ended(s)
  BY ParametersAssumption DEF Init, HasKid, Ended
<1>3. PairInv /\ FirstInv
  BY DEF Init, NoRefresh, PairInv, FirstInv
<1>4. EndedInv /\ KidInv /\ OneKidInv
  BY <1>2 DEF Init, EndedInv, KidInv, OneKidInv
<1>5. ChainInv
  BY DEF Init, NoRefresh, ChainInv, OneAliveInv, AliveInv, LeavingInv, LogoutInv
<1> QED BY <1>1, <1>3, <1>4, <1>5 DEF TokenInv

LEMMA TokenStutter == ASSUME TokenInv, UNCHANGED sessions PROVE TokenInv'
BY DEF TokenInv, sessions, tokens, TokenTypes, IssuedInv, Raced, RefreshTypes, RefreshInv,
       EndedInv, Ended, PairInv, FirstInv, KidInv, OneKidInv, HasKid, Excused

LEMMA EndedIsOut ==
  ASSUME TokenInv, NEW s \in Sessions, Ended(s), ~Excused(s)
  PROVE  Useless(s)
<1>1. age[s] \in Int /\ black[s] \in Nat /\ age[s] >= 0 /\ age[s] + black[s] >= Lifetime
  BY DEF TokenInv, TokenTypes, EndedInv
<1>2. black[s] = 0 => age[s] >= AccessTtl /\ age[s] >= RefreshTtl
  BY <1>1, Lifetimes
<1> QED BY <1>1, <1>2, Lifetimes DEF Useless, jwtCheck, verifyRefreshToken, Issued

LEMMA TickStep == ASSUME TokenInv, Tick PROVE TokenInv'
<1> USE DEF TokenInv
<1>1. /\ age' = [s \in Sessions |-> IF age[s] \in 0 .. Lifetime - 1 THEN age[s] + 1 ELSE age[s]]
      /\ black' = [s \in Sessions |-> IF black[s] > 0 THEN black[s] - 1 ELSE 0]
      /\ UNCHANGED <<parent, root, out, refresh, leaving, loggedOut, overlapped, unrotated, overtaken>>
  BY DEF Tick
<1>2. ASSUME NEW s \in Sessions
      PROVE  /\ age'[s] \in Int /\ age'[s] >= -1 /\ black'[s] \in Nat
             /\ age[s] >= 0 => age'[s] >= 0
             /\ (age[s] >= 0 /\ age[s] + black[s] >= Lifetime) => age'[s] + black'[s] >= Lifetime
  <2> Lifetime \in Nat /\ age[s] \in Int /\ age[s] >= -1 /\ black[s] \in Nat
    BY Lifetimes DEF TokenTypes
  <2>1. age'[s] = IF age[s] \in 0 .. Lifetime - 1 THEN age[s] + 1 ELSE age[s]
    BY <1>1
  <2>2. black'[s] = IF black[s] > 0 THEN black[s] - 1 ELSE 0
    BY <1>1
  <2>3. CASE age[s] \in 0 .. Lifetime - 1 BY <2>1, <2>2, <2>3
  <2>4. CASE age[s] \notin 0 .. Lifetime - 1 BY <2>1, <2>2, <2>4
  <2> QED BY <2>3, <2>4
<1>3. TokenTypes'
  BY <1>1, <1>2 DEF TokenTypes
<1>4. IssuedInv'
  <2>1. \A s \in Sessions : root[s] # 0 => root[s] \in Sessions
    BY DEF TokenTypes
  <2> QED BY <1>1, <1>2, <2>1 DEF IssuedInv, Raced
<1>5. RefreshTypes' /\ RefreshInv'
  BY <1>1, <1>2 DEF RefreshTypes, RefreshInv
<1>6. EndedInv'
  BY <1>1, <1>2 DEF TokenTypes, EndedInv, Ended, Excused
<1>7. PairInv' /\ FirstInv' /\ KidInv' /\ OneKidInv'
  BY <1>1 DEF PairInv, FirstInv, KidInv, OneKidInv, HasKid, Ended, Excused
<1> QED BY <1>3, <1>4, <1>5, <1>6, <1>7

\* A new session, by a login (p = 0), which hands it out, or by a refresh of p.
LEMMA IssueTypes ==
  ASSUME TokenInv, NEW s \in Sessions, NEW p \in Sessions \cup {0}, issueTokens(s, p),
         p = 0 \/ p \in out, out' = (IF p = 0 THEN out \cup {s} ELSE out),
         UNCHANGED <<black, leaving, loggedOut, overlapped, unrotated, overtaken>>
  PROVE  /\ TokenTypes' /\ IssuedInv' /\ EndedInv'
         /\ s \notin out /\ age[s] = -1
         /\ \A t \in Sessions : age[t] >= 0 =>
              t # s /\ age'[t] >= 0 /\ parent'[t] = parent[t] /\ root'[t] = root[t]
         /\ age'[s] = 0 /\ parent'[s] = p /\ root'[s] = IF p = 0 THEN s ELSE root[p]
         /\ \A t \in Sessions : t # s => parent'[t] = parent[t]
         /\ \A q \in Sessions : Ended(q)' <=> Ended(q)
<1> USE DEF TokenInv
<1>1. /\ age' = [age EXCEPT ![s] = 0] /\ parent' = [parent EXCEPT ![s] = p]
      /\ root' = [root EXCEPT ![s] = IF p = 0 THEN s ELSE root[p]]
      /\ age[s] = -1
  BY DEF issueTokens, Issued, TokenTypes
<1>2. /\ age'[s] = 0 /\ parent'[s] = p /\ root'[s] = IF p = 0 THEN s ELSE root[p]
      /\ \A t \in Sessions : t # s =>
           age'[t] = age[t] /\ parent'[t] = parent[t] /\ root'[t] = root[t]
  BY <1>1 DEF TokenTypes
<1>3. TokenTypes'
  <2>1. p # 0 => root[p] \in Sessions \cup {0}
    BY DEF TokenTypes
  <2> QED BY <1>1, <2>1 DEF TokenTypes
<1>4. s \notin out /\ \A t \in Sessions : age[t] >= 0 => t # s
  BY <1>1 DEF IssuedInv
<1>5. IssuedInv'
  <2>1. \A t \in out' : t \in Sessions /\ age'[t] >= 0
    BY <1>2, <1>4 DEF IssuedInv
  <2>2. ASSUME NEW t \in Sessions, root'[t] # 0 PROVE age'[t] >= 0 /\ age'[root'[t]] >= 0
    <3>1. \A u \in Sessions : age[u] >= 0 => age'[u] >= 0
      BY <1>2, <1>4
    <3>2. CASE t # s
      <4>1. root'[t] = root[t] /\ root[t] \in Sessions /\ age[t] >= 0 /\ age[root[t]] >= 0
        BY <1>2, <2>2, <3>2 DEF TokenTypes, IssuedInv
      <4> QED BY <3>1, <4>1
    <3>3. CASE t = s /\ p = 0
      BY <1>2, <3>3
    <3>4. CASE t = s /\ p # 0
      <4>1. root'[t] = root[p] /\ root[p] \in Sessions /\ age[root[p]] >= 0
        BY <1>2, <2>2, <3>4 DEF TokenTypes, IssuedInv
      <4> QED BY <1>2, <3>1, <3>4, <4>1
    <3> QED BY <3>2, <3>3, <3>4
  <2>3. out' \subseteq Sessions /\ leaving' \cup loggedOut' \cup Raced' \subseteq out'
    BY <2>1 DEF IssuedInv, Raced
  <2> QED BY <2>1, <2>2, <2>3 DEF IssuedInv
<1>6. ASSUME NEW q \in Sessions PROVE Ended(q)' <=> Ended(q)
  <2>1. \A t \in out : t \in Sessions /\ t # s /\ parent'[t] = parent[t]
    BY <1>2, <1>4 DEF IssuedInv
  <2>2. p = 0 => parent'[s] # q
    BY <1>2, ParametersAssumption
  <2> QED BY <2>1, <2>2 DEF Ended
<1>7. EndedInv'
  <2> SUFFICES ASSUME NEW q \in Sessions, Ended(q)', ~Excused(q)'
               PROVE  age'[q] >= 0 /\ age'[q] + black'[q] >= Lifetime
    BY DEF EndedInv
  <2>1. age[q] >= 0 /\ age[q] + black[q] >= Lifetime
    BY <1>6 DEF EndedInv, Excused
  <2> QED BY <1>2, <1>4, <2>1
<1> QED BY <1>1, <1>2, <1>3, <1>4, <1>5, <1>6, <1>7

LEMMA LoginIssuesStep ==
  ASSUME TokenInv, NEW k \in Logins, NEW s \in Sessions, LoginIssues(k, s)
  PROVE  TokenInv'
<1> USE DEF TokenInv
<1>1. /\ issueTokens(s, 0) /\ out' = out \cup {s}
      /\ UNCHANGED <<black, refresh, leaving, loggedOut, overlapped, unrotated, overtaken>>
  BY DEF LoginIssues
<1>2. /\ TokenTypes' /\ IssuedInv' /\ EndedInv' /\ parent'[s] = 0
      /\ \A t \in Sessions : age[t] >= 0 =>
           t # s /\ age'[t] >= 0 /\ parent'[t] = parent[t] /\ root'[t] = root[t]
      /\ \A t \in Sessions : t # s => parent'[t] = parent[t]
      /\ \A q \in Sessions : Ended(q)' <=> Ended(q)
  BY <1>1, IssueTypes
<1>3. RefreshTypes' /\ RefreshInv'
  BY <1>1, <1>2 DEF RefreshTypes, RefreshInv, IssuedInv
<1>4. \A t \in Sessions : parent'[t] # 0 => parent'[t] = parent[t]
  BY <1>2
<1>5. \A q \in Sessions : HasKid(q)' => HasKid(q)
  BY <1>4, ParametersAssumption DEF HasKid
<1>6. PairInv'
  BY <1>1 DEF PairInv
<1>7. FirstInv'
  BY <1>1, <1>5 DEF FirstInv, RefreshInv, IssuedInv, Excused
<1>8. KidInv'
  BY <1>1, <1>2, <1>5 DEF KidInv, Excused
<1>9. OneKidInv'
  BY <1>1, <1>4 DEF OneKidInv, Excused
<1> QED BY <1>2, <1>3, <1>6, <1>7, <1>8, <1>9

LEMMA RefreshStep ==
  ASSUME TokenInv, NEW k \in Refreshes, NEW s \in Sessions, Refresh(k, s)
  PROVE  TokenInv'
<1> USE DEF TokenInv
<1> DEFINE new == [stage |-> "select", s |-> s, next |-> 0]
<1>1. /\ refresh[k] = NoRefresh /\ s \in out /\ verifyRefreshToken(s) /\ black[s] = 0
      /\ refresh' = [refresh EXCEPT ![k] = new]
      /\ UNCHANGED <<age, parent, root, out, black, leaving, loggedOut, unrotated>>
  BY DEF Refresh, tokens
<1>2. /\ overlapped \subseteq overlapped' /\ overlapped' \subseteq overlapped \cup {s}
      /\ overtaken' \subseteq overtaken \cup {s}
      /\ ((\E j \in Refreshes : refresh[j].s = s) => s \in overlapped')
  BY DEF Refresh, Under
<1>3. refresh'[k] = new /\ \A j \in Refreshes : j # k => refresh'[j] = refresh[j]
  BY <1>1 DEF RefreshTypes
<1>4. TokenTypes' /\ EndedInv' /\ OneKidInv'
  BY <1>1, <1>2 DEF TokenTypes, EndedInv, Ended, OneKidInv, Excused
<1>5. IssuedInv'
  BY <1>1, <1>2 DEF IssuedInv, Raced
<1>6. RefreshTypes'
  BY <1>1 DEF RefreshTypes
<1>7. RefreshInv'
  BY <1>1, <1>3 DEF RefreshInv
<1>8. PairInv'
  BY <1>1, <1>2, <1>3 DEF PairInv
<1>9. HasKid(s) => Excused(s)'
  <2>1. Ended(s) => Excused(s)
    BY <1>1, EndedIsOut DEF Useless
  <2>2. \A j \in Refreshes : refresh[j].s = s => Excused(s)'
    BY <1>2 DEF Excused
  <2> QED BY <1>1, <1>2, <2>1, <2>2 DEF KidInv, Excused
<1>10. FirstInv'
  BY <1>1, <1>2, <1>3, <1>9 DEF FirstInv, HasKid, Excused
<1>11. KidInv'
  <2>1. \A j \in Refreshes : refresh[j].stage = "rotate" => refresh'[j] = refresh[j]
    BY <1>1, <1>3 DEF NoRefresh
  <2> QED BY <1>1, <1>2, <2>1 DEF KidInv, HasKid, Ended, Excused
<1> QED BY <1>4, <1>5, <1>6, <1>7, <1>8, <1>10, <1>11

\* A refresh is done, one way or another.
LEMMA Released ==
  ASSUME TokenInv, NEW k \in Refreshes, refresh[k].stage # "idle",
         refresh' = [refresh EXCEPT ![k] = NoRefresh],
         UNCHANGED <<tokens, overlapped>>, out \subseteq out',
         unrotated \subseteq unrotated'
  PROVE  /\ RefreshTypes' /\ RefreshInv' /\ PairInv' /\ FirstInv' /\ OneKidInv'
         /\ refresh'[k] = NoRefresh /\ \A j \in Refreshes : j # k => refresh'[j] = refresh[j]
         /\ \A q \in Sessions : HasKid(q)' <=> HasKid(q)
<1> USE DEF TokenInv
<1>1. refresh'[k] = NoRefresh /\ \A j \in Refreshes : j # k => refresh'[j] = refresh[j]
  BY DEF RefreshTypes
<1>2. RefreshTypes' /\ RefreshInv'
  BY <1>1 DEF RefreshTypes, RefreshInv, NoRefresh, tokens
<1>3. PairInv'
  <2>1. 0 \notin out
    BY ParametersAssumption DEF IssuedInv
  <2>2. \A j \in Refreshes : refresh'[j].stage # "idle" =>
          refresh[j].stage # "idle" /\ refresh'[j] = refresh[j] /\ refresh[j].s # 0
    BY <1>1, <2>1 DEF RefreshInv, NoRefresh
  <2>3. \A j \in Refreshes : refresh'[j].s \in {0, refresh[j].s}
    BY <1>1 DEF NoRefresh
  <2> QED BY <2>2, <2>3 DEF PairInv
<1>4. FirstInv'
  BY <1>1 DEF FirstInv, HasKid, Excused, NoRefresh, tokens
<1>5. OneKidInv' /\ \A q \in Sessions : HasKid(q)' <=> HasKid(q)
  BY DEF OneKidInv, HasKid, Excused, tokens
<1> QED BY <1>1, <1>2, <1>3, <1>4, <1>5

LEMMA RefreshFailsStep == ASSUME TokenInv, NEW k \in Refreshes, RefreshFails(k) PROVE TokenInv'
<1> USE DEF TokenInv
<1>1. /\ refresh[k].stage # "idle" /\ refresh' = [refresh EXCEPT ![k] = NoRefresh]
      /\ UNCHANGED <<tokens, out, black, leaving, loggedOut, overlapped, overtaken>>
      /\ unrotated \subseteq unrotated' /\ unrotated' \subseteq unrotated \cup {refresh[k].s}
      /\ refresh[k].stage = "rotate" => refresh[k].s \in unrotated'
  BY DEF RefreshFails
<1>2. /\ RefreshTypes' /\ RefreshInv' /\ PairInv' /\ FirstInv' /\ OneKidInv'
      /\ refresh'[k] = NoRefresh /\ \A j \in Refreshes : j # k => refresh'[j] = refresh[j]
  BY <1>1, Released
<1>3. refresh[k].s \in out
  BY <1>1 DEF RefreshInv
<1>4. TokenTypes' /\ IssuedInv' /\ EndedInv'
  BY <1>1, <1>3 DEF TokenTypes, IssuedInv, Raced, EndedInv, Ended, Excused, tokens
<1>5. KidInv'
  BY <1>1, <1>2 DEF KidInv, HasKid, Ended, Excused, tokens
<1> QED BY <1>2, <1>4, <1>5

LEMMA RefreshSelectStep ==
  ASSUME TokenInv, NEW k \in Refreshes, RefreshSelect(k)
  PROVE  TokenInv'
<1> USE DEF TokenInv
<1>1. /\ refresh[k].stage = "select"
      /\ UNCHANGED <<tokens, out, black, leaving, loggedOut, overlapped, unrotated, overtaken>>
      /\ \/ refresh' = [refresh EXCEPT ![k] = NoRefresh]
         \/ refresh' = [refresh EXCEPT ![k].stage = "issue"]
  BY DEF RefreshSelect
<1>2. TokenTypes' /\ IssuedInv' /\ EndedInv' /\ OneKidInv'
  BY <1>1 DEF TokenTypes, IssuedInv, Raced, EndedInv, Ended, OneKidInv, Excused, tokens
<1>3. CASE refresh' = [refresh EXCEPT ![k] = NoRefresh]
  <2>1. /\ RefreshTypes' /\ RefreshInv' /\ PairInv' /\ FirstInv'
        /\ \A j \in Refreshes : j # k => refresh'[j] = refresh[j]
    BY <1>1, <1>3, Released
  <2>2. KidInv'
    BY <1>1, <2>1 DEF KidInv, HasKid, Ended, Excused, tokens
  <2> QED BY <1>2, <2>1, <2>2
<1>4. CASE refresh' = [refresh EXCEPT ![k].stage = "issue"]
  <2>1. /\ RefreshTypes' /\ refresh'[k].stage = "issue" /\ refresh'[k].s = refresh[k].s
        /\ \A j \in Refreshes : j # k => refresh'[j] = refresh[j]
    BY <1>4 DEF RefreshTypes
  <2>2. RefreshInv' /\ PairInv' /\ FirstInv'
    BY <1>1, <2>1 DEF RefreshInv, PairInv, FirstInv, HasKid, Excused, tokens
  <2>3. KidInv'
    BY <1>1, <2>1 DEF KidInv, HasKid, Ended, Excused, tokens
  <2> QED BY <1>2, <2>1, <2>2, <2>3
<1> QED BY <1>1, <1>3, <1>4

LEMMA RefreshIssuesStep ==
  ASSUME TokenInv, NEW k \in Refreshes, NEW t \in Sessions, RefreshIssues(k, t)
  PROVE  TokenInv'
<1> USE DEF TokenInv
<1> DEFINE p == refresh[k].s
<1>1. /\ refresh[k].stage = "issue" /\ issueTokens(t, p)
      /\ refresh' = [refresh EXCEPT ![k].stage = "rotate", ![k].next = t]
      /\ UNCHANGED <<out, black, leaving, loggedOut, overlapped, unrotated, overtaken>>
  BY DEF RefreshIssues
<1>2. p \in Sessions /\ p \in out /\ p # 0
  BY <1>1, ParametersAssumption DEF RefreshInv, IssuedInv
<1> HIDE DEF p
<1>3. /\ TokenTypes' /\ IssuedInv' /\ EndedInv'
      /\ \A u \in Sessions : age[u] >= 0 =>
           u # t /\ age'[u] >= 0 /\ parent'[u] = parent[u] /\ root'[u] = root[u]
      /\ age'[t] = 0 /\ parent'[t] = p /\ root'[t] = root[p]
      /\ \A u \in Sessions : u # t => parent'[u] = parent[u]
      /\ \A q \in Sessions : Ended(q)' <=> Ended(q)
  BY <1>1, <1>2, IssueTypes
<1>4. /\ refresh'[k].stage = "rotate" /\ refresh'[k].s = p /\ refresh'[k].next = t
      /\ \A j \in Refreshes : j # k => refresh'[j] = refresh[j]
      /\ RefreshTypes'
      /\ \A j \in Refreshes : refresh'[j].s = refresh[j].s
      /\ p = refresh[k].s /\ overlapped' = overlapped
  BY <1>1 DEF RefreshTypes, p
<1>5. \A q \in Sessions : HasKid(q)' => HasKid(q) \/ q = p
  BY <1>3 DEF HasKid
<1>6. RefreshInv'
  <2> SUFFICES ASSUME NEW j \in Refreshes, refresh'[j].stage # "idle"
               PROVE  /\ refresh'[j].s \in out'
                      /\ refresh'[j].stage = "rotate" =>
                           /\ refresh'[j].next \in Sessions /\ age'[refresh'[j].next] >= 0
                           /\ parent'[refresh'[j].next] = refresh'[j].s
                           /\ root'[refresh'[j].next] = root'[refresh'[j].s]
    BY <1>1, <1>4 DEF RefreshInv
  <2>0. j # k => refresh[j].stage # "idle"
    BY <1>4
  <2>1. \A q \in out : q \in Sessions /\ age[q] >= 0
    BY DEF IssuedInv
  <2>2. CASE j = k
    BY <1>1, <1>2, <1>3, <1>4, <2>1, <2>2
  <2>3. CASE j # k
    <3>1. /\ refresh'[j] = refresh[j] /\ refresh[j].s \in out /\ out' = out
          /\ refresh[j].stage = "rotate" =>
               /\ refresh[j].next \in Sessions /\ age[refresh[j].next] >= 0
               /\ parent[refresh[j].next] = refresh[j].s
               /\ root[refresh[j].next] = root[refresh[j].s]
      BY <1>1, <1>4, <2>0, <2>3 DEF RefreshInv
    <3> PICK q, n : q = refresh[j].s /\ n = refresh[j].next
      OBVIOUS
    <3>2. q \in Sessions /\ age[q] >= 0 /\ refresh'[j].s = q /\ refresh'[j].next = n
      BY <2>1, <3>1
    <3>3. refresh[j].stage = "rotate" =>
            n \in Sessions /\ age'[n] >= 0 /\ parent'[n] = q /\ root'[n] = root'[q]
      BY <1>3, <3>1, <3>2
    <3> QED BY <3>1, <3>2, <3>3
  <2> QED BY <2>2, <2>3
<1>7. PairInv'
  <2>1. \A j \in Refreshes : refresh'[j].stage # "idle" => refresh[j].stage # "idle"
    BY <1>1, <1>4
  <2> SUFFICES ASSUME NEW i \in Refreshes, NEW j \in Refreshes, i # j,
                      refresh'[j].stage # "idle", refresh'[i].s = refresh'[j].s
               PROVE  refresh'[j].s \in overlapped'
    BY DEF PairInv
  <2>2. refresh[j].stage # "idle" /\ refresh[i].s = refresh[j].s
    BY <1>4, <2>1
  <2> QED BY <1>4, <2>2 DEF PairInv
<1>8. FirstInv'
  <2> SUFFICES ASSUME NEW j \in Refreshes, refresh'[j].stage \in {"select", "issue"},
                      HasKid(refresh[j].s)'
               PROVE  Excused(refresh[j].s)'
    BY DEF FirstInv
  <2>1. j # k /\ refresh'[j] = refresh[j] /\ refresh[j].s \in Sessions
    BY <1>4 DEF RefreshInv, IssuedInv
  <2> PICK q : q = refresh[j].s
    OBVIOUS
  <2>2. CASE q = p
    <3>1. q \in overlapped
      BY <1>1, <1>4, <2>1, <2>2 DEF PairInv
    <3> QED BY <1>1, <2>1, <3>1 DEF Excused
  <2>3. CASE q # p
    <3>1. HasKid(q)
      BY <1>5, <2>1, <2>3
    <3> QED BY <1>1, <2>1, <3>1 DEF FirstInv, Excused
  <2> QED BY <2>2, <2>3
<1>9. KidInv'
  <2>1. \A j \in Refreshes : refresh[j].stage = "rotate" => refresh'[j] = refresh[j]
    BY <1>1, <1>4
  <2>2. ASSUME NEW q \in Sessions, HasKid(q)'
        PROVE  \/ Excused(q)' \/ Ended(q)'
               \/ \E j \in Refreshes : refresh'[j].stage = "rotate" /\ refresh'[j].s = q
    <3>1. CASE q = p
      BY <1>4, <3>1
    <3>2. CASE q # p
      <4>1. HasKid(q)
        BY <1>5, <2>2, <3>2
      <4>2. \/ Excused(q) \/ Ended(q)
            \/ \E j \in Refreshes : refresh[j].stage = "rotate" /\ refresh[j].s = q
        BY <4>1 DEF KidInv
      <4> QED BY <1>1, <1>3, <2>1, <4>2 DEF Excused
    <3> QED BY <3>1, <3>2
  <2> QED BY <2>2 DEF KidInv
<1>10. OneKidInv'
  <2> SUFFICES ASSUME NEW u \in Sessions, NEW v \in Sessions, u # v,
                      parent'[u] = parent'[v], parent'[u] # 0
               PROVE  Excused(parent'[u])
    BY <1>1 DEF OneKidInv, Excused
  <2>1. CASE u # t /\ v # t
    BY <1>3, <2>1 DEF OneKidInv
  <2>2. CASE u = t \/ v = t
    <3>1. parent'[u] = p /\ HasKid(p)
      BY <1>3, <2>2 DEF HasKid
    <3> QED BY <1>1, <3>1 DEF FirstInv, p
  <2> QED BY <2>1, <2>2
<1> QED BY <1>3, <1>4, <1>6, <1>7, <1>8, <1>9, <1>10

\* The key of s is set, which ends s and nothing else.
LEMMA KeySet ==
  ASSUME Covered, TokenInv, NEW s \in out, black' = [black EXCEPT ![s] = BlacklistTtl],
         UNCHANGED <<tokens, overlapped, unrotated>>,
         \A q \in Sessions : Ended(q)' => Ended(q) \/ q = s
  PROVE  TokenTypes' /\ EndedInv'
<1> USE Lifetimes DEF TokenInv
<1>1. TokenTypes'
  BY DEF TokenTypes, tokens
<1>2. ASSUME NEW q \in Sessions, Ended(q)', ~Excused(q)'
      PROVE  age'[q] >= 0 /\ age'[q] + black'[q] >= Lifetime
  <2>1. age' = age /\ s \in Sessions /\ age[s] \in Int /\ age[s] >= 0
    BY DEF TokenTypes, IssuedInv, tokens
  <2>2. CASE q = s
    <3>1. black'[q] = BlacklistTtl BY <2>1, <2>2 DEF TokenTypes
    <3> QED BY <2>1, <2>2, <3>1
  <2>3. CASE q # s
    <3>1. Ended(q) /\ ~Excused(q) /\ black'[q] = black[q]
      BY <1>2, <2>3 DEF TokenTypes, Excused
    <3> QED BY <2>1, <3>1 DEF EndedInv
  <2> QED BY <2>2, <2>3
<1> QED BY <1>1, <1>2 DEF EndedInv

LEMMA LogoutCheckStep == ASSUME TokenInv, NEW s \in Sessions, LogoutCheck(s) PROVE TokenInv'
<1> USE DEF TokenInv
<1>1. /\ s \in out /\ leaving' = leaving \cup {s} /\ overtaken' \subseteq overtaken \cup {s}
      /\ UNCHANGED <<tokens, out, black, refresh, loggedOut, overlapped, unrotated>>
  BY DEF LogoutCheck
<1>2. TokenTypes' /\ IssuedInv' /\ EndedInv' /\ OneKidInv'
  BY <1>1 DEF TokenTypes, IssuedInv, Raced, EndedInv, Ended, OneKidInv, Excused, tokens
<1>3. RefreshTypes' /\ RefreshInv' /\ PairInv'
  BY <1>1 DEF RefreshTypes, RefreshInv, PairInv, tokens
<1>4. FirstInv' /\ KidInv'
  BY <1>1 DEF FirstInv, KidInv, HasKid, Ended, Excused, tokens
<1> QED BY <1>2, <1>3, <1>4

LEMMA LogoutFailsStep == ASSUME TokenInv, NEW s \in Sessions, LogoutFails(s) PROVE TokenInv'
<1> USE DEF TokenInv
<1>1. /\ leaving' \subseteq leaving
      /\ UNCHANGED <<tokens, out, black, refresh, loggedOut, overlapped, unrotated, overtaken>>
  BY DEF LogoutFails
<1>2. TokenTypes' /\ IssuedInv' /\ EndedInv' /\ OneKidInv'
  BY <1>1 DEF TokenTypes, IssuedInv, Raced, EndedInv, Ended, OneKidInv, Excused, tokens
<1>3. RefreshTypes' /\ RefreshInv' /\ PairInv'
  BY <1>1 DEF RefreshTypes, RefreshInv, PairInv, tokens
<1>4. FirstInv' /\ KidInv'
  BY <1>1 DEF FirstInv, KidInv, HasKid, Ended, Excused, tokens
<1> QED BY <1>2, <1>3, <1>4

LEMMA LogoutStep == ASSUME Covered, TokenInv, NEW s \in Sessions, Logout(s) PROVE TokenInv'
<1> USE DEF TokenInv
<1>1. /\ s \in leaving /\ leaving' \subseteq leaving
      /\ black' = [black EXCEPT ![s] = BlacklistTtl] /\ loggedOut' = loggedOut \cup {s}
      /\ UNCHANGED <<tokens, out, refresh, overlapped, unrotated, overtaken>>
  BY DEF Logout
<1>2. s \in out /\ IssuedInv'
  BY <1>1 DEF IssuedInv, Raced, tokens
<1>3. \A q \in Sessions : (Ended(q)' => Ended(q) \/ q = s) /\ (Ended(q) => Ended(q)')
  BY <1>1 DEF Ended, tokens
<1>4. TokenTypes' /\ EndedInv'
  BY <1>1, <1>2, <1>3, KeySet
<1>5. RefreshTypes' /\ RefreshInv' /\ PairInv' /\ OneKidInv'
  BY <1>1 DEF RefreshTypes, RefreshInv, PairInv, OneKidInv, Excused, tokens
<1>6. FirstInv' /\ KidInv'
  BY <1>1, <1>3 DEF FirstInv, KidInv, HasKid, Excused, tokens
<1> QED BY <1>2, <1>4, <1>5, <1>6

\* A refresh hands out what it has issued.
LEMMA HandedOut ==
  ASSUME TokenInv, NEW k \in Refreshes, refresh[k].stage = "rotate",
         UNCHANGED <<tokens, leaving, loggedOut, overtaken>>,
         out' = out \cup {refresh[k].next}, Raced' \subseteq Raced \cup {refresh[k].s}
  PROVE  /\ IssuedInv' /\ refresh[k].s \in out /\ refresh[k].s \in Sessions
         /\ refresh[k].next \in Sessions /\ root[refresh[k].next] = root[refresh[k].s]
         /\ \A q \in Sessions : Ended(q)' <=> Ended(q) \/ q = refresh[k].s
<1> USE DEF TokenInv
<1>1. /\ refresh[k].s \in out /\ refresh[k].next \in Sessions /\ age[refresh[k].next] >= 0
      /\ parent[refresh[k].next] = refresh[k].s /\ root[refresh[k].next] = root[refresh[k].s]
  BY DEF RefreshInv
<1>2. IssuedInv'
  BY <1>1 DEF IssuedInv, tokens
<1>3. \A q : Ended(q)' <=> Ended(q) \/ q = refresh[k].s
  BY <1>1 DEF Ended, tokens
<1>4. refresh[k].s \in Sessions
  BY <1>1 DEF IssuedInv
<1> QED BY <1>1, <1>2, <1>3, <1>4

LEMMA RotateStep == ASSUME Covered, TokenInv, NEW k \in Refreshes, Rotate(k) PROVE TokenInv'
<1> USE DEF TokenInv
<1> DEFINE s == refresh[k].s
<1>1. /\ refresh[k].stage = "rotate" /\ out' = out \cup {refresh[k].next}
      /\ black' = [black EXCEPT ![s] = BlacklistTtl]
      /\ refresh' = [refresh EXCEPT ![k] = NoRefresh]
      /\ UNCHANGED <<tokens, leaving, loggedOut, overlapped, unrotated, overtaken>>
  BY DEF Rotate
<1>2. /\ IssuedInv' /\ s \in out /\ \A q \in Sessions : Ended(q)' <=> Ended(q) \/ q = s
  <2>1. Raced' = Raced
    BY <1>1 DEF Raced
  <2> QED BY <1>1, <2>1, HandedOut
<1>3. /\ RefreshTypes' /\ RefreshInv' /\ PairInv' /\ FirstInv' /\ OneKidInv'
      /\ \A j \in Refreshes : j # k => refresh'[j] = refresh[j]
      /\ \A q \in Sessions : HasKid(q)' <=> HasKid(q)
  BY <1>1, Released
<1>4. TokenTypes' /\ EndedInv'
  BY <1>1, <1>2, KeySet
<1>5. KidInv'
  BY <1>1, <1>2, <1>3 DEF KidInv, Excused
<1> QED BY <1>2, <1>3, <1>4, <1>5

LEMMA RotateFailsStep == ASSUME TokenInv, NEW k \in Refreshes, RotateFails(k) PROVE TokenInv'
<1> USE DEF TokenInv
<1> DEFINE s == refresh[k].s
<1>1. /\ refresh[k].stage = "rotate" /\ out' = out \cup {refresh[k].next}
      /\ unrotated' = unrotated \cup {s} /\ refresh' = [refresh EXCEPT ![k] = NoRefresh]
      /\ UNCHANGED <<tokens, black, leaving, loggedOut, overlapped, overtaken>>
  BY DEF RotateFails
<1>2. /\ IssuedInv' /\ s \in out /\ \A q \in Sessions : Ended(q)' <=> Ended(q) \/ q = s
  <2>1. Raced' \subseteq Raced \cup {s}
    BY <1>1 DEF Raced
  <2> QED BY <1>1, <2>1, HandedOut
<1>3. /\ RefreshTypes' /\ RefreshInv' /\ PairInv' /\ FirstInv' /\ OneKidInv'
      /\ \A j \in Refreshes : j # k => refresh'[j] = refresh[j]
      /\ \A q \in Sessions : HasKid(q)' <=> HasKid(q)
  BY <1>1, Released
<1> HIDE DEF s
<1>4. TokenTypes' /\ EndedInv'
  BY <1>1, <1>2 DEF TokenTypes, EndedInv, Excused, tokens
<1>5. KidInv'
  BY <1>1, <1>2, <1>3 DEF KidInv, Excused, s
<1> QED BY <1>2, <1>3, <1>4, <1>5

\* The steps of the account leave the sessions alone.
LEMMA SessionSteps ==
  ASSUME [Next]_vars
  PROVE  \/ UNCHANGED sessions \/ Tick
         \/ \E k \in Logins, s \in Sessions : LoginIssues(k, s)
         \/ \E k \in Refreshes, s \in Sessions : Refresh(k, s) \/ RefreshIssues(k, s)
         \/ \E k \in Refreshes : RefreshSelect(k) \/ Rotate(k) \/ RotateFails(k) \/ RefreshFails(k)
         \/ \E s \in Sessions : LogoutCheck(s) \/ Logout(s) \/ LogoutFails(s)
<1>1. ASSUME NEW k \in Logins,
             (\E p \in Passwords : Login(k, p)) \/ Verify(k) \/ CountUpdate(k)
      PROVE  UNCHANGED sessions
  BY <1>1 DEF Login, Verify, CountUpdate
<1>2. ASSUME NEW c \in verified, VerifyExpires(c) PROVE UNCHANGED sessions
  BY <1>2 DEF VerifyExpires
<1>3. ASSUME \/ \E k \in Changes : PasswordUpdate(k) \/ \E p, q \in Passwords : ChangePassword(k, p, q)
             \/ \E p \in Passwords : resetPassword(p)
             \/ \E st \in {0, 1} : setUserStatus(st)
             \/ deleteUser
      PROVE  UNCHANGED sessions
  BY <1>3 DEF PasswordUpdate, ChangePassword, resetPassword, setUserStatus, deleteUser
<1>4. UNCHANGED vars => UNCHANGED sessions
  BY DEF vars
<1> QED BY <1>1, <1>2, <1>3, <1>4 DEF Next

LEMMA TokenNext == ASSUME Covered, TokenInv, [Next]_vars PROVE TokenInv'
BY SessionSteps, TokenStutter, LoginIssuesStep, RefreshStep, RefreshSelectStep, RefreshIssuesStep,
   RotateStep, RotateFailsStep, RefreshFailsStep, LogoutCheckStep, LogoutStep, LogoutFailsStep, TickStep
-----------------------------------------------------------------------------
(* Logins *)

LEMMA OutIsSession == ASSUME TokenInv PROVE \A s \in out : s \in Sessions /\ age[s] >= 0
BY DEF TokenInv, IssuedInv

\* Races are not forgotten.
LEMMA CleanKept ==
  ASSUME TokenInv, Raced \subseteq Raced', \A q \in out : root'[q] = root[q]
  PROVE  \A r : Clean(r)' => Clean(r)
BY DEF TokenInv, IssuedInv, Clean

LEMMA ExcusedIsRaced == ASSUME NEW s, Excused(s) PROVE s \in Raced /\ ~Clean(root[s])
BY DEF Excused, Raced, Clean

\* Steps that hand out nothing and end nothing.
LEMMA ChainKept ==
  ASSUME TokenInv, ChainInv, UNCHANGED <<out, loggedOut>>, leaving' \subseteq leaving,
         \A q \in out : root'[q] = root[q], \A q \in Sessions : Ended(q)' <=> Ended(q),
         Raced \subseteq Raced', overtaken \subseteq overtaken',
         \A k \in Refreshes : refresh'[k].stage # "idle" =>
           refresh[k].stage # "idle" /\ refresh'[k].s = refresh[k].s
  PROVE  ChainInv'
<1>1. \A r : Clean(r)' => Clean(r)
  BY CleanKept
<1>2. \A q \in out : q \in Sessions
  BY OutIsSession
<1>3. leaving \subseteq out /\ loggedOut \subseteq out
  BY DEF TokenInv, IssuedInv
<1>4. \A k \in Refreshes : refresh[k].stage # "idle" => refresh[k].s \in out
  BY DEF TokenInv, RefreshInv
<1>5. OneAliveInv'
  BY <1>1, <1>2 DEF ChainInv, OneAliveInv
<1>6. AliveInv'
  BY <1>1, <1>2, <1>4 DEF ChainInv, AliveInv
<1>7. LeavingInv' /\ LogoutInv'
  BY <1>1, <1>2, <1>3 DEF ChainInv, LeavingInv, LogoutInv
<1> QED BY <1>5, <1>6, <1>7 DEF ChainInv

LEMMA ChainLoginIssues ==
  ASSUME TokenInv, ChainInv, NEW k \in Logins, NEW s \in Sessions, LoginIssues(k, s)
  PROVE  ChainInv'
<1>1. /\ issueTokens(s, 0) /\ out' = out \cup {s}
      /\ UNCHANGED <<black, refresh, leaving, loggedOut, overlapped, unrotated, overtaken>>
  BY DEF LoginIssues
<1>2. /\ s \notin out /\ age[s] = -1 /\ root'[s] = s
      /\ \A t \in Sessions : age[t] >= 0 => t # s /\ root'[t] = root[t]
      /\ \A q \in Sessions : Ended(q)' <=> Ended(q)
  BY <1>1, IssueTypes
<1>3. \A q \in out : q \in Sessions /\ q # s /\ root'[q] = root[q] /\ root[q] # s
  <2>1. \A q \in out : q \in Sessions /\ age[q] >= 0
    BY OutIsSession
  <2>2. \A q \in Sessions : root[q] # s
    BY <1>2, ParametersAssumption DEF TokenInv, IssuedInv
  <2> QED BY <1>2, <2>1, <2>2
<1>4. \A r : Clean(r)' => Clean(r)
  BY <1>1, <1>3, CleanKept DEF Raced
<1>5. leaving \subseteq out /\ loggedOut \subseteq out
  BY DEF TokenInv, IssuedInv
<1>6. OneAliveInv'
  BY <1>1, <1>2, <1>3, <1>4 DEF ChainInv, OneAliveInv
<1>7. AliveInv'
  BY <1>1, <1>2, <1>3, <1>4 DEF ChainInv, AliveInv, TokenInv, RefreshInv
<1>8. LeavingInv' /\ LogoutInv'
  BY <1>1, <1>2, <1>3, <1>4, <1>5 DEF ChainInv, LeavingInv, LogoutInv
<1> QED BY <1>6, <1>7, <1>8 DEF ChainInv

LEMMA ChainRefresh ==
  ASSUME TokenInv, ChainInv, NEW k \in Refreshes, NEW s \in Sessions, Refresh(k, s)
  PROVE  ChainInv'
<1> DEFINE new == [stage |-> "select", s |-> s, next |-> 0]
<1>1. /\ s \in out /\ verifyRefreshToken(s) /\ black[s] = 0
      /\ refresh' = [refresh EXCEPT ![k] = new]
      /\ UNCHANGED <<parent, root, out, leaving, loggedOut, unrotated>>
      /\ overlapped \subseteq overlapped' /\ overtaken \subseteq overtaken'
      /\ s \in leaving => s \in overtaken'
  BY DEF Refresh, tokens
<1>2. refresh'[k] = new /\ \A j \in Refreshes : j # k => refresh'[j] = refresh[j]
  BY <1>1 DEF TokenInv, RefreshTypes
<1>3. \A r : Clean(r)' => Clean(r)
  BY <1>1, CleanKept DEF Raced
<1>4. \A q : Ended(q)' <=> Ended(q)
  BY <1>1 DEF Ended
<1>5. Clean(root[s]) => ~Ended(s)
  BY <1>1, EndedIsOut, ExcusedIsRaced DEF Useless
<1>6. AliveInv'
  BY <1>1, <1>2, <1>3, <1>4, <1>5 DEF ChainInv, AliveInv
<1>7. OneAliveInv' /\ LeavingInv' /\ LogoutInv'
  BY <1>1, <1>3, <1>4 DEF ChainInv, OneAliveInv, LeavingInv, LogoutInv
<1> QED BY <1>6, <1>7 DEF ChainInv

\* A refresh hands out what it has issued; s ends, or was raced for.
LEMMA ChainHandedOut ==
  ASSUME TokenInv, ChainInv, NEW k \in Refreshes, refresh[k].stage = "rotate",
         NEW s, s = refresh[k].s, NEW n, n = refresh[k].next,
         UNCHANGED <<tokens, leaving, loggedOut, overlapped, overtaken>>,
         out' = out \cup {n}, refresh' = [refresh EXCEPT ![k] = NoRefresh],
         unrotated \subseteq unrotated', unrotated' \subseteq unrotated \cup {s}
  PROVE  ChainInv'
<1>1. /\ s \in out /\ s \in Sessions /\ n \in Sessions /\ root[n] = root[s]
      /\ \A q \in Sessions : Ended(q)' <=> Ended(q) \/ q = s
  BY HandedOut DEF Raced
<1>2. /\ Clean(root[s]) => ~Ended(s)
      /\ s \in leaving => s \in overtaken
  BY DEF ChainInv, AliveInv
<1>3. out' = out \cup {n} /\ root' = root /\ leaving' = leaving /\ loggedOut' = loggedOut
  BY DEF tokens
<1>4. refresh'[k] = NoRefresh /\ \A j \in Refreshes : j # k => refresh'[j] = refresh[j]
  BY DEF TokenInv, RefreshTypes
<1>5. \A j \in Refreshes : (j # k /\ refresh[j].s = s) => s \in overlapped
  BY DEF TokenInv, PairInv
<1>6. \A r : Clean(r)' => Clean(r)
  BY <1>3, CleanKept DEF Raced
<1>7. s \in overlapped \cup overtaken => ~Clean(root[s])
  BY DEF Clean, Raced
<1>8. \A q \in out : q \in Sessions
  BY OutIsSession
<1>9. leaving \subseteq out /\ loggedOut \subseteq out
  BY DEF TokenInv, IssuedInv
<1>10. ASSUME NEW u \in out, u # s, root[u] = root[s], Clean(root[s]) PROVE Ended(u)
  BY <1>1, <1>2, <1>10 DEF ChainInv, OneAliveInv
<1>11. OneAliveInv'
  <2> SUFFICES ASSUME NEW u \in out', NEW v \in out', u # v, root[u] = root[v], Clean(root[u])'
               PROVE  Ended(u)' \/ Ended(v)'
    BY <1>3 DEF OneAliveInv
  <2>1. Clean(root[u])
    BY <1>3, <1>6
  <2>2. CASE u \in out /\ v \in out
    BY <1>1, <1>8, <2>1, <2>2 DEF ChainInv, OneAliveInv
  <2>3. CASE u = n
    <3>1. v \in out /\ root[v] = root[s] /\ Clean(root[s])
      BY <1>1, <1>3, <2>1, <2>3
    <3> QED BY <1>1, <1>8, <1>10, <3>1
  <2>4. CASE v = n
    <3>1. u \in out /\ root[u] = root[s] /\ Clean(root[s])
      BY <1>1, <1>3, <2>1, <2>4
    <3> QED BY <1>1, <1>8, <1>10, <3>1
  <2> QED BY <1>3, <2>2, <2>3, <2>4
<1>12. AliveInv'
  <2> SUFFICES ASSUME NEW j \in Refreshes, refresh'[j].stage # "idle",
                      NEW q, q = refresh'[j].s
               PROVE  /\ Clean(root[q])' => ~Ended(q)'
                      /\ q \in leaving => q \in overtaken
    BY <1>3 DEF AliveInv
  <2>1. j # k /\ refresh'[j] = refresh[j] /\ refresh[j].s \in out
    BY <1>4 DEF NoRefresh, TokenInv, RefreshInv
  <2>2. refresh[j].s = s => ~Clean(root[refresh[j].s])
    BY <1>5, <1>7, <2>1
  <2>3. /\ q \in Sessions /\ (q = s => ~Clean(root[q]))
        /\ Clean(root[q]) => ~Ended(q)
        /\ q \in leaving => q \in overtaken
    BY <1>8, <2>1, <2>2 DEF ChainInv, AliveInv
  <2> QED BY <1>1, <1>3, <1>6, <2>3
<1>13. LeavingInv'
  <2> SUFFICES ASSUME NEW q \in leaving, Clean(root[q])' PROVE ~Ended(q)'
    BY <1>3 DEF LeavingInv
  <2>1. Clean(root[q]) /\ ~Ended(q)
    BY <1>3, <1>6 DEF ChainInv, LeavingInv
  <2>2. q # s
    BY <1>2, <1>7, <2>1
  <2> QED BY <1>1, <1>8, <1>9, <2>1, <2>2
<1>14. LogoutInv'
  <2> SUFFICES ASSUME NEW q \in loggedOut, NEW t \in out', root[t] = root[q], Clean(root[q])'
               PROVE  Ended(t)'
    BY <1>3 DEF LogoutInv
  <2>1. Clean(root[q])
    BY <1>3, <1>6
  <2>2. CASE t \in out
    BY <1>1, <1>8, <2>1, <2>2 DEF ChainInv, LogoutInv
  <2>3. CASE t = n
    BY <1>1, <1>2, <2>1, <2>3 DEF ChainInv, LogoutInv
  <2> QED BY <1>3, <2>2, <2>3
<1> QED BY <1>11, <1>12, <1>13, <1>14 DEF ChainInv

LEMMA ChainLogoutCheck ==
  ASSUME TokenInv, ChainInv, NEW s \in Sessions, LogoutCheck(s)
  PROVE  ChainInv'
<1>1. /\ s \in out /\ jwtCheck(s) /\ leaving' = leaving \cup {s} /\ overtaken \subseteq overtaken'
      /\ Under(s) => s \in overtaken'
      /\ UNCHANGED <<parent, root, out, refresh, loggedOut, overlapped, unrotated>>
  BY DEF LogoutCheck, tokens
<1>2. \A r : Clean(r)' => Clean(r)
  BY <1>1, CleanKept DEF Raced
<1>3. \A q : Ended(q)' <=> Ended(q)
  BY <1>1 DEF Ended
<1>4. Clean(root[s]) => ~Ended(s)
  BY <1>1, EndedIsOut, ExcusedIsRaced DEF Useless
<1>5. OneAliveInv' /\ LeavingInv' /\ LogoutInv'
  BY <1>1, <1>2, <1>3, <1>4 DEF ChainInv, OneAliveInv, LeavingInv, LogoutInv
<1>6. AliveInv'
  BY <1>1, <1>2, <1>3 DEF ChainInv, AliveInv, Under
<1> QED BY <1>5, <1>6 DEF ChainInv

LEMMA ChainLogout ==
  ASSUME TokenInv, ChainInv, NEW s \in Sessions, Logout(s)
  PROVE  ChainInv'
<1>1. /\ s \in leaving /\ leaving' = leaving \ {s} /\ loggedOut' = loggedOut \cup {s}
      /\ UNCHANGED <<parent, root, out, refresh, overlapped, unrotated, overtaken>>
  BY DEF Logout, tokens
<1>2. \A r : Clean(r)' <=> Clean(r)
  BY <1>1 DEF Clean, Raced
<1>3. \A q : Ended(q)' <=> Ended(q) \/ q = s
  BY <1>1 DEF Ended
<1>4. s \in out /\ Clean(root[s]) => ~Ended(s)
  BY <1>1 DEF ChainInv, LeavingInv
<1>5. s \in out
  BY <1>1 DEF TokenInv, IssuedInv
<1>6. OneAliveInv'
  BY <1>1, <1>2, <1>3 DEF ChainInv, OneAliveInv
<1>7. AliveInv'
  <2> SUFFICES ASSUME NEW k \in Refreshes, refresh[k].stage # "idle"
               PROVE  /\ Clean(root[refresh[k].s]) => ~Ended(refresh[k].s)'
                      /\ refresh[k].s \in leaving' => refresh[k].s \in overtaken
    BY <1>1, <1>2 DEF AliveInv
  <2>1. /\ Clean(root[refresh[k].s]) => ~Ended(refresh[k].s)
        /\ refresh[k].s \in leaving => refresh[k].s \in overtaken
    BY DEF ChainInv, AliveInv
  <2>2. refresh[k].s = s => ~Clean(root[refresh[k].s])
    BY <1>1, <2>1 DEF Clean, Raced
  <2> QED BY <1>1, <1>3, <2>1, <2>2
<1>8. LeavingInv'
  BY <1>1, <1>2, <1>3 DEF ChainInv, LeavingInv
<1>9. LogoutInv'
  <2> SUFFICES ASSUME NEW q \in loggedOut', NEW t \in out, root[t] = root[q], Clean(root[q])
               PROVE  Ended(t)'
    BY <1>1, <1>2 DEF LogoutInv
  <2>1. CASE q = s
    BY <1>3, <1>4, <1>5, <2>1 DEF ChainInv, OneAliveInv
  <2>2. CASE q \in loggedOut
    BY <1>3, <2>2 DEF ChainInv, LogoutInv
  <2> QED BY <1>1, <2>1, <2>2
<1> QED BY <1>6, <1>7, <1>8, <1>9 DEF ChainInv

LEMMA ChainNext == ASSUME TokenInv, ChainInv, [Next]_vars PROVE ChainInv'
<1>1. ASSUME UNCHANGED <<parent, root, out, loggedOut>>, leaving' \subseteq leaving,
             Raced \subseteq Raced', overtaken \subseteq overtaken',
             \A k \in Refreshes : refresh'[k].stage # "idle" =>
               refresh[k].stage # "idle" /\ refresh'[k].s = refresh[k].s
      PROVE  ChainInv'
  <2>1. \A q : Ended(q)' <=> Ended(q)
    BY <1>1 DEF Ended
  <2> QED BY <1>1, <2>1, ChainKept
<1>2. CASE UNCHANGED sessions
  BY <1>1, <1>2 DEF sessions, tokens, Raced
<1>3. CASE Tick
  BY <1>1, <1>3 DEF Tick, Raced
<1>4. ASSUME NEW k \in Refreshes, RefreshSelect(k) \/ RefreshFails(k) PROVE ChainInv'
  <2>1. /\ UNCHANGED <<parent, root, out, loggedOut, leaving, overlapped, overtaken>>
        /\ unrotated \subseteq unrotated'
        /\ \/ refresh' = [refresh EXCEPT ![k] = NoRefresh]
           \/ refresh[k].stage = "select" /\ refresh' = [refresh EXCEPT ![k].stage = "issue"]
    BY <1>4 DEF RefreshSelect, RefreshFails, tokens
  <2>2. ASSUME NEW j \in Refreshes, refresh'[j].stage # "idle"
        PROVE  refresh[j].stage # "idle" /\ refresh'[j].s = refresh[j].s
    BY <2>1, <2>2 DEF TokenInv, RefreshTypes, NoRefresh
  <2> QED BY <1>1, <2>1, <2>2 DEF Raced
<1>5. ASSUME NEW k \in Refreshes, NEW s \in Sessions, RefreshIssues(k, s) PROVE ChainInv'
  <2>1. /\ refresh[k].stage = "issue" /\ issueTokens(s, refresh[k].s)
        /\ refresh' = [refresh EXCEPT ![k].stage = "rotate", ![k].next = s]
        /\ UNCHANGED <<out, black, leaving, loggedOut, overlapped, unrotated, overtaken>>
    BY <1>5 DEF RefreshIssues
  <2>2. refresh[k].s \in out /\ refresh[k].s \in Sessions /\ refresh[k].s # 0
    BY <2>1, ParametersAssumption DEF TokenInv, RefreshInv, IssuedInv
  <2>3. /\ \A t \in Sessions : age[t] >= 0 => root'[t] = root[t]
        /\ \A q \in Sessions : Ended(q)' <=> Ended(q)
    BY <2>1, <2>2, IssueTypes
  <2>4. \A q \in out : root'[q] = root[q]
    BY <2>3, OutIsSession
  <2>5. \A j \in Refreshes : refresh'[j].stage # "idle" =>
          refresh[j].stage # "idle" /\ refresh'[j].s = refresh[j].s
    BY <2>1 DEF TokenInv, RefreshTypes
  <2> QED BY <2>1, <2>3, <2>4, <2>5, ChainKept DEF Raced
<1>6. ASSUME NEW k \in Refreshes, Rotate(k) \/ RotateFails(k) PROVE ChainInv'
  <2>1. /\ refresh[k].stage = "rotate"
        /\ UNCHANGED <<tokens, leaving, loggedOut, overlapped, overtaken>>
        /\ out' = out \cup {refresh[k].next} /\ refresh' = [refresh EXCEPT ![k] = NoRefresh]
        /\ unrotated \subseteq unrotated' /\ unrotated' \subseteq unrotated \cup {refresh[k].s}
    BY <1>6 DEF Rotate, RotateFails
  <2> QED BY <2>1, ChainHandedOut
<1>7. ASSUME NEW s \in Sessions, LogoutFails(s) PROVE ChainInv'
  BY <1>1, <1>7 DEF LogoutFails, tokens, Raced
<1> QED BY <1>2, <1>3, <1>4, <1>5, <1>6, <1>7, SessionSteps, ChainLoginIssues, ChainRefresh,
           ChainLogoutCheck, ChainLogout
-----------------------------------------------------------------------------
(* The row and its passwords *)

LEMMA LoginInit == Init => LoginInv
BY ParametersAssumption
DEF Init, LoginInv, LoginTypes, AdmittedWithPassword, NoLogin, NoChange

LEMMA LoginUnchanged ==
  ASSUME LoginInv, UNCHANGED login, verified' \subseteq verified,
         row'.hash \in Passwords, \A k \in Changes : change'[k].new \in Passwords
  PROVE  LoginInv'
BY DEF LoginInv, LoginTypes, AdmittedWithPassword

LEMMA LoginStep ==
  ASSUME LoginInv, NEW k \in Logins, NEW p \in Passwords, Login(k, p)
  PROVE  LoginInv'
<1> DEFINE new == [stage |-> IF <<p, row.hash>> \in verified THEN "ok" ELSE "verify",
                   tried |-> p, hash |-> row.hash]
<1>1. login' = [login EXCEPT ![k] = new] /\ UNCHANGED <<row, verified, change>>
  BY DEF Login, cacheKey
<1>2. /\ new.stage \in {"ok", "verify"} /\ new.tried = p /\ new.hash = row.hash
      /\ new.stage = "ok" => p = row.hash
  BY DEF LoginInv
<1>3. new \in [stage : {"idle", "verify", "ok"}, tried : Passwords, hash : Passwords]
  BY DEF LoginInv
<1> HIDE DEF new
<1> QED BY <1>1, <1>2, <1>3 DEF LoginInv, LoginTypes, AdmittedWithPassword

LEMMA VerifyStep ==
  ASSUME LoginInv, NEW k \in Logins, Verify(k)
  PROVE  LoginInv'
<1>1. login[k] \in [stage : {"idle", "verify", "ok"}, tried : Passwords, hash : Passwords]
      /\ UNCHANGED <<row, change>>
  BY DEF LoginInv, LoginTypes, Verify
<1>2. CASE login[k].tried = login[k].hash
  <2>1. /\ verified' = verified \cup {<<login[k].tried, login[k].hash>>}
        /\ login' = [login EXCEPT ![k].stage = "ok"]
    BY <1>2 DEF Verify, cacheKey
  <2>2. LoginTypes' /\ AdmittedWithPassword'
    BY <1>2, <2>1 DEF LoginInv, LoginTypes, AdmittedWithPassword
  <2>3. \A p, h \in Passwords : <<p, h>> \in verified' => p = h
    BY <1>2, <2>1 DEF LoginInv
  <2> QED BY <1>1, <2>2, <2>3 DEF LoginInv
<1>3. CASE login[k].tried # login[k].hash
  <2>1. verified' = verified /\ login' = [login EXCEPT ![k] = NoLogin]
    BY <1>3 DEF Verify
  <2> QED BY <1>1, <2>1, ParametersAssumption
          DEF LoginInv, LoginTypes, AdmittedWithPassword, NoLogin
<1> QED BY <1>2, <1>3

LEMMA RowStep ==
  ASSUME RowTypes, LockHolds, LoginInv, [Next]_vars, ~UNCHANGED row
  PROVE  /\ RowTypes' /\ LockHolds' /\ UNCHANGED <<login, verified>>
         /\ row'.hash \in Passwords
         /\ \A k \in Changes : change'[k].new \in Passwords
<1>1. kMaxFail \in Nat /\ kMaxFail > 0 BY ParametersAssumption
<1>2. /\ DOMAIN row = {"status", "fails", "deleted", "hash"}
      /\ row.status \in 0 .. 2 /\ row.fails \in Nat /\ row.hash \in Passwords
  BY DEF RowTypes
<1>3. ASSUME NEW k \in Logins, CountUpdate(k)
      PROVE  RowTypes' /\ LockHolds' /\ row'.hash = row.hash
  <2>1. CASE update[k] = "fail"
    <3>1. CASE row.fails + 1 >= kMaxFail
      <4>1. row' = [row EXCEPT !.fails = @ + 1, !.status = 2]
        BY <1>3, <2>1, <3>1 DEF CountUpdate, Counted
      <4> QED BY <1>1, <1>2, <4>1 DEF RowTypes, LockHolds
    <3>2. CASE ~(row.fails + 1 >= kMaxFail)
      <4>1. row' = [row EXCEPT !.fails = @ + 1, !.status = @]
        BY <1>3, <2>1, <3>2 DEF CountUpdate, Counted
      <4> QED BY <1>1, <1>2, <3>2, <4>1 DEF RowTypes, LockHolds
    <3> QED BY <3>1, <3>2
  <2>2. CASE update[k] # "fail"
    <3>1. row' = [row EXCEPT !.fails = 0]
      BY <1>3, <2>2 DEF CountUpdate
    <3> QED BY <1>1, <1>2, <3>1 DEF RowTypes, LockHolds
  <2> QED BY <2>1, <2>2
<1>4. ASSUME NEW k \in Changes, PasswordUpdate(k)
      PROVE  RowTypes' /\ LockHolds' /\ \A j \in Changes : change'[j].new \in Passwords
  <2>1. row' = [row EXCEPT !.hash = change[k].new] /\ change' = [change EXCEPT ![k] = NoChange]
    BY <1>4 DEF PasswordUpdate
  <2>2. change[k].new \in Passwords /\ \A j \in Changes : change'[j].new \in Passwords
    BY <2>1, ParametersAssumption DEF LoginInv, NoChange
  <2> QED BY <1>1, <1>2, <2>1, <2>2 DEF RowTypes, LockHolds
<1>5. ASSUME NEW p \in Passwords, resetPassword(p) PROVE RowTypes' /\ LockHolds'
  <2>1. row' = [row EXCEPT !.hash = p, !.fails = 0, !.status = IF @ = 2 THEN 1 ELSE @]
    BY <1>5 DEF resetPassword
  <2> QED BY <1>1, <1>2, <2>1 DEF RowTypes, LockHolds
<1>6. ASSUME NEW st \in {0, 1}, setUserStatus(st) PROVE RowTypes' /\ LockHolds'
  <2>1. CASE st = 1
    <3>1. row' = [row EXCEPT !.status = 1, !.fails = 0] BY <1>6, <2>1 DEF setUserStatus
    <3> QED BY <1>1, <1>2, <3>1 DEF RowTypes, LockHolds
  <2>2. CASE st = 0
    <3>1. row' = [row EXCEPT !.status = 0, !.fails = @] BY <1>6, <2>2 DEF setUserStatus
    <3> QED BY <1>1, <1>2, <3>1 DEF RowTypes, LockHolds
  <2> QED BY <2>1, <2>2
<1>7. ASSUME deleteUser PROVE RowTypes' /\ LockHolds'
  <2>1. row' = [row EXCEPT !.deleted = TRUE] BY <1>7 DEF deleteUser
  <2> QED BY <1>1, <1>2, <2>1 DEF RowTypes, LockHolds
<1>8. \/ \E k \in Logins : CountUpdate(k)
      \/ \E k \in Changes : PasswordUpdate(k)
      \/ \E p \in Passwords : resetPassword(p)
      \/ \E st \in {0, 1} : setUserStatus(st)
      \/ deleteUser
  BY DEF Next, vars, Login, Verify, LoginIssues, VerifyExpires, Refresh, RefreshIssues,
         RefreshSelect, Rotate, RotateFails, RefreshFails, LogoutCheck, Logout, LogoutFails,
         Tick, ChangePassword, account
<1>9. RowTypes' /\ LockHolds'
  BY <1>3, <1>4, <1>5, <1>6, <1>7, <1>8
<1>10. UNCHANGED <<login, verified>>
  BY <1>8 DEF CountUpdate, PasswordUpdate, resetPassword, setUserStatus, deleteUser
<1>11. \A k \in Changes : change'[k].new \in Passwords
  BY <1>4, <1>8 DEF LoginInv, CountUpdate, resetPassword, setUserStatus, deleteUser
<1> QED BY <1>9, <1>10, <1>11 DEF RowTypes
-----------------------------------------------------------------------------
LEMMA RowInit == Init => RowTypes /\ LockHolds
BY ParametersAssumption DEF Init, RowTypes, LockHolds

UserInv == RowTypes /\ LockHolds /\ LoginInv

LEMMA UserNext == ASSUME UserInv, [Next]_vars PROVE UserInv'
<1> USE DEF UserInv
<1>1. CASE ~UNCHANGED row
  BY <1>1, RowStep, LoginUnchanged
<1>2. CASE UNCHANGED row
  <2>1. RowTypes' /\ LockHolds'
    BY <1>2 DEF RowTypes, LockHolds
  <2>2. ASSUME UNCHANGED <<login, change>>, verified' \subseteq verified PROVE LoginInv'
    BY <1>2, <2>2, LoginUnchanged DEF LoginInv
  <2>3. ASSUME NEW k \in Logins, NEW s \in Sessions, LoginIssues(k, s) PROVE LoginInv'
    BY <1>2, <2>3, ParametersAssumption
    DEF LoginIssues, LoginInv, LoginTypes, AdmittedWithPassword, NoLogin
  <2>4. ASSUME NEW k \in Changes, NEW p \in Passwords, NEW q \in Passwords, ChangePassword(k, p, q)
        PROVE  LoginInv'
    <3>1. /\ change' = [change EXCEPT ![k] = [stage |-> "update", old |-> p, new |-> q]]
          /\ UNCHANGED <<login, verified>>
      BY <2>4 DEF ChangePassword
    <3>2. \A j \in Changes : change'[j].new \in Passwords
      BY <3>1 DEF LoginInv
    <3> QED BY <1>2, <3>1, <3>2, LoginUnchanged DEF LoginInv
  <2>5. ASSUME \/ UNCHANGED vars
               \/ \E k \in Logins : CountUpdate(k)
               \/ \E c \in verified : VerifyExpires(c)
               \/ \E k \in Refreshes : \/ \E s \in Sessions : Refresh(k, s) \/ RefreshIssues(k, s)
                                       \/ RefreshSelect(k) \/ Rotate(k) \/ RotateFails(k) \/ RefreshFails(k)
               \/ \E s \in Sessions : LogoutCheck(s) \/ Logout(s) \/ LogoutFails(s)
               \/ Tick
               \/ \E p \in Passwords : resetPassword(p)
               \/ \E st \in {0, 1} : setUserStatus(st)
               \/ deleteUser
        PROVE  LoginInv'
    BY <2>2, <2>5 DEF vars, CountUpdate, VerifyExpires, Refresh, RefreshIssues, RefreshSelect,
       Rotate, RotateFails, RefreshFails, LogoutCheck, Logout, LogoutFails, Tick, resetPassword,
       setUserStatus, deleteUser, account
  <2>6. ASSUME NEW k \in Changes, PasswordUpdate(k) PROVE LoginInv'
    <3>1. change' = [change EXCEPT ![k] = NoChange] /\ UNCHANGED <<login, verified>>
      BY <2>6 DEF PasswordUpdate
    <3>2. \A j \in Changes : change'[j].new \in Passwords
      BY <3>1, ParametersAssumption DEF LoginInv, NoChange
    <3> QED BY <1>2, <3>1, <3>2, LoginUnchanged DEF LoginInv
  <2>7. LoginInv'
    <3>1. CASE \E k \in Logins : \/ \E p \in Passwords : Login(k, p)
                                \/ Verify(k) \/ CountUpdate(k)
                                \/ \E s \in Sessions : LoginIssues(k, s)
      BY <2>3, <2>5, <3>1, LoginStep, VerifyStep
    <3>2. CASE \E k \in Changes : \/ PasswordUpdate(k)
                                 \/ \E p, q \in Passwords : ChangePassword(k, p, q)
      BY <2>4, <2>6, <3>2
    <3>3. CASE \/ \E c \in verified : VerifyExpires(c)
               \/ \E k \in Refreshes : \/ \E s \in Sessions : Refresh(k, s) \/ RefreshIssues(k, s)
                                       \/ RefreshSelect(k) \/ Rotate(k) \/ RotateFails(k) \/ RefreshFails(k)
               \/ \E s \in Sessions : LogoutCheck(s) \/ Logout(s) \/ LogoutFails(s)
               \/ Tick
               \/ \E p \in Passwords : resetPassword(p)
               \/ \E st \in {0, 1} : setUserStatus(st)
               \/ deleteUser
      BY <2>5, <3>3
    <3>4. CASE UNCHANGED vars
      BY <2>5, <3>4
    <3> QED BY <3>1, <3>2, <3>3, <3>4 DEF Next
  <2> QED BY <2>1, <2>7
<1> QED BY <1>1, <1>2
-----------------------------------------------------------------------------
\* Once a logout was answered, no token that its login was given passes again, for
\* any number of sessions and requests under way and any lifetimes that the key
\* covers, of every login that no refresh raced for (AuthService.cc:235-290). A
\* refresh under way at the logout is such a race, and hands out a session that
\* lives: the theorem says nothing of it.
THEOREM LogoutEnds ==
  ASSUME Covered
  PROVE  Spec => []LogoutEndsLogin
<1>1. Init => TokenInv /\ ChainInv
  BY TokenInit
<1>2. TokenInv /\ ChainInv /\ [Next]_vars => (TokenInv /\ ChainInv)'
  BY TokenNext, ChainNext
<1>3. TokenInv /\ ChainInv => LogoutEndsLogin
  <2> SUFFICES ASSUME TokenInv, ChainInv, NEW s \in loggedOut, NEW t \in out,
                      root[t] = root[s], \A u \in Raced : root[u] # root[s]
               PROVE  Useless(t)
    BY DEF LogoutEndsLogin
  <2>1. Ended(t) /\ t \in Sessions
    BY OutIsSession DEF ChainInv, LogoutInv, Clean
  <2>2. ~Excused(t)
    BY DEF Excused, Raced
  <2> QED BY <2>1, <2>2, EndedIsOut
<1> QED BY <1>1, <1>2, <1>3, PTL DEF Spec

\* A refresh token makes one successor, unless two refreshes of it overlapped or
\* it was replaced and not blacklisted, for any lifetimes that the key covers
\* (AuthService.cc:235-271).
THEOREM Rotated ==
  ASSUME Covered
  PROVE  Spec => []RotatedOnce
<1>1. TokenInv => RotatedOnce
  <2> SUFFICES ASSUME TokenInv, NEW s \in Sessions,
                      Cardinality({t \in Sessions : parent[t] = s}) > 1
               PROVE  Excused(s)
    BY DEF RotatedOnce, Excused
  <2> DEFINE K == {t \in Sessions : parent[t] = s}
  <2>1. PICK t \in K, u \in K : t # u
    <3>1. CASE K = {} BY <3>1, FS_EmptySet
    <3>2. CASE \E t \in K : K = {t}
      <4>1. PICK t : K = {t}
        BY <3>2
      <4>2. Cardinality(K) = 1
        BY <4>1, FS_Singleton
      <4> QED BY <4>2
    <3> QED BY <3>1, <3>2
  <2> QED BY <2>1, ParametersAssumption DEF TokenInv, OneKidInv
<1>2. Init => TokenInv
  BY TokenInit
<1>3. TokenInv /\ [Next]_vars => TokenInv'
  BY TokenNext
<1> QED BY <1>1, <1>2, <1>3, PTL DEF Spec

\* An account at the limit of failures admits no login that reads its row from
\* then on, for any limit and any number of logins at once (AuthService.cc:111-114).
THEOREM Locks == Spec => []LockHolds
<1>1. Init => UserInv BY RowInit, LoginInit DEF UserInv
<1>2. UserInv => LockHolds BY DEF UserInv
<1> QED BY <1>1, <1>2, UserNext, PTL DEF Spec

\* Nobody is admitted with another password than the one whose hash the login
\* has read, whatever the cache holds (AuthService.cc:201-210).
THEOREM Admitted == Spec => []AdmittedWithPassword
<1>1. Init => UserInv BY RowInit, LoginInit DEF UserInv
<1>2. UserInv => AdmittedWithPassword BY DEF UserInv, LoginInv
<1> QED BY <1>1, <1>2, UserNext, PTL DEF Spec
-----------------------------------------------------------------------------
(* Live frames *)

PushTypes ==
  /\ frames \in Nat
  /\ inbox \in [Followed -> Seq(Nat)]
  /\ pending \in [Followed -> Nat]
  /\ DOMAIN batch = Followed
  /\ \A i \in Followed : DOMAIN batch[i] = {"frame", "stage", "left"} /\ batch[i].frame \in Nat
  /\ got \in [Conns -> Nat]
  /\ open \subseteq [c : Conns, i : Followed]

\* A connection belongs to one instance.
OneHome == \A o, p \in open : o.c = p.c => o = p

\* What instance i still has to send: the frames it was handed, in their order,
\* the one that is pending, and the one that is being sent, oldest last.
Ordered(i) ==
  /\ \A k, l \in DOMAIN inbox[i] : k < l => inbox[i][k] <= inbox[i][l]
  /\ \A k \in DOMAIN inbox[i] :
       inbox[i][k] <= frames /\ pending[i] <= inbox[i][k] /\ batch[i].frame <= inbox[i][k]
  /\ pending[i] <= frames /\ batch[i].frame <= frames
  /\ pending[i] # 0 => batch[i].frame <= pending[i]

\* Nothing that i still has to send is older than g.
NotNewer(g, i) ==
  /\ g <= frames
  /\ \A k \in DOMAIN inbox[i] : g <= inbox[i][k]
  /\ pending[i] # 0 => g <= pending[i]
  /\ batch[i].stage # "idle" => g <= batch[i].frame

FrameInv ==
  /\ PushTypes
  /\ OneHome
  /\ \A i \in Followed : Ordered(i)
  /\ \A o \in open : NotNewer(got[o.c], o.i)

\* Steps that leave what instance i has to send as it is.
LEMMA FramesSame ==
  ASSUME NEW i, frames' = frames, inbox'[i] = inbox[i], pending'[i] = pending[i],
         batch'[i] = batch[i]
  PROVE  /\ Ordered(i) => Ordered(i)'
         /\ \A g : NotNewer(g, i) => NotNewer(g, i)'
BY DEF Ordered, NotNewer

\* Connections come, without a frame yet, and go.
LEMMA FramesOpen ==
  ASSUME FrameInv, UNCHANGED <<frames, inbox, pending, batch, got>>,
         open' \subseteq [c : Conns, i : Followed], OneHome',
         \A o \in open' : o \in open \/ got[o.c] = 0
  PROVE  FrameInv'
<1>1. PushTypes'
  BY DEF FrameInv, PushTypes
<1>2. \A i \in Followed : Ordered(i)'
  BY DEF FrameInv, Ordered
<1>3. ASSUME NEW o \in open' PROVE NotNewer(got[o.c], o.i)'
  <2>1. CASE o \in open
    BY <2>1 DEF FrameInv, NotNewer
  <2>2. CASE got[o.c] = 0
    <3>1. o.i \in Followed /\ frames \in Nat /\ inbox[o.i] \in Seq(Nat)
          /\ pending[o.i] \in Nat /\ batch[o.i].frame \in Nat
      BY DEF FrameInv, PushTypes
    <3>2. \A k \in DOMAIN inbox[o.i] : inbox[o.i][k] \in Nat
      BY <3>1
    <3> QED BY <2>2, <3>1, <3>2 DEF NotNewer
  <2> QED BY <1>3, <2>1, <2>2
<1> QED BY <1>1, <1>2, <1>3 DEF FrameInv

\* Steps of instance i on the frames it has.
LEMMA FramesMove ==
  ASSUME FrameInv, NEW i \in Followed, PushTypes', UNCHANGED <<frames, got, open>>,
         \A j \in Followed \ {i} :
           inbox'[j] = inbox[j] /\ pending'[j] = pending[j] /\ batch'[j] = batch[j],
         Ordered(i)', \A g \in Nat : NotNewer(g, i) => NotNewer(g, i)'
  PROVE  FrameInv'
<1>1. OneHome'
  BY DEF FrameInv, OneHome
<1>2. \A j \in Followed : Ordered(j)'
  BY FramesSame DEF FrameInv
<1>3. ASSUME NEW o \in open PROVE NotNewer(got[o.c], o.i)'
  <2>1. o.i \in Followed /\ got[o.c] \in Nat /\ NotNewer(got[o.c], o.i) /\ got' = got
    BY DEF FrameInv, PushTypes
  <2>2. CASE o.i = i
    BY <2>1, <2>2
  <2>3. CASE o.i # i
    BY <2>1, <2>3, FramesSame
  <2> QED BY <2>2, <2>3
<1> QED BY <1>1, <1>2, <1>3 DEF FrameInv

LEMMA FramesReceive == ASSUME FrameInv, NEW i \in Followed, Receive(i) PROVE FrameInv'
<1> DEFINE q == inbox[i]
<1>1. /\ q # <<>> /\ pending' = [pending EXCEPT ![i] = Head(q)]
      /\ inbox' = [inbox EXCEPT ![i] = Tail(q)]
      /\ UNCHANGED <<frames, batch, got, open>>
  BY DEF Receive, clients
<1>2. PushTypes /\ q \in Seq(Nat) /\ Ordered(i)
  BY DEF FrameInv, PushTypes
<1>3. /\ Head(q) = q[1] /\ 1 \in DOMAIN q /\ q[1] \in Nat /\ Tail(q) \in Seq(Nat)
      /\ DOMAIN q \subseteq Nat /\ DOMAIN Tail(q) \subseteq Nat \ {0}
      /\ \A k \in DOMAIN Tail(q) : k + 1 \in DOMAIN q /\ Tail(q)[k] = q[k + 1]
  BY <1>1, <1>2
<1> HIDE DEF q
<1>4. PushTypes'
  BY <1>1, <1>2, <1>3 DEF PushTypes
<1>5. pending'[i] = q[1] /\ inbox'[i] = Tail(q) /\ batch'[i] = batch[i] /\ frames' = frames
  BY <1>1, <1>2, <1>3 DEF PushTypes
<1>6. \A k \in DOMAIN Tail(q) : q[1] <= q[k + 1] /\ q[k + 1] <= frames /\ batch[i].frame <= q[k + 1]
  <2> TAKE k \in DOMAIN Tail(q)
  <2>1. 1 < k + 1
    BY <1>3
  <2> QED BY <1>2, <1>3, <2>1 DEF Ordered, q
<1>7. \A k, l \in DOMAIN Tail(q) : k < l => q[k + 1] <= q[l + 1]
  <2> TAKE k, l \in DOMAIN Tail(q)
  <2>1. k < l => k + 1 < l + 1
    BY <1>3
  <2> QED BY <1>2, <1>3, <2>1 DEF Ordered, q
<1>8. q[1] <= frames /\ batch[i].frame <= q[1] /\ batch[i].frame <= frames
  BY <1>2, <1>3 DEF Ordered, q
<1>9. Ordered(i)'
  BY <1>3, <1>5, <1>6, <1>7, <1>8 DEF Ordered
<1>10. \A g \in Nat : NotNewer(g, i) => NotNewer(g, i)'
  <2> TAKE g \in Nat
  <2>1. NotNewer(g, i) => g <= frames /\ g <= q[1] /\ \A k \in DOMAIN Tail(q) : g <= q[k + 1]
    BY <1>3 DEF NotNewer, q
  <2> QED BY <1>3, <1>5, <2>1 DEF NotNewer
<1> QED BY <1>1, <1>2, <1>4, <1>9, <1>10, FramesMove DEF PushTypes

LEMMA FramesDrain == ASSUME FrameInv, NEW i \in Followed, Drain(i) PROVE FrameInv'
<1> DEFINE b == [frame |-> pending[i], stage |-> "swapped", left |-> {}]
<1>1. /\ batch[i].stage = "idle" /\ pending[i] # 0
      /\ batch' = [batch EXCEPT ![i] = b] /\ pending' = [pending EXCEPT ![i] = 0]
      /\ UNCHANGED <<frames, inbox, got, open>>
  BY DEF Drain, clients
<1>2. PushTypes /\ Ordered(i)
  BY DEF FrameInv
<1>3. b.frame = pending[i] /\ DOMAIN b = {"frame", "stage", "left"}
  OBVIOUS
<1> HIDE DEF b
<1>4. batch'[i] = b /\ pending'[i] = 0 /\ inbox'[i] = inbox[i] /\ frames' = frames
  BY <1>1, <1>2 DEF PushTypes
<1>5. pending[i] \in Nat /\ inbox[i] \in Seq(Nat)
  BY <1>2 DEF PushTypes
<1>6. PushTypes'
  BY <1>1, <1>2, <1>3, <1>5 DEF PushTypes
<1>7. \A k \in DOMAIN inbox[i] : inbox[i][k] \in Nat
  BY <1>5
<1>8. frames \in Nat
  BY <1>2 DEF PushTypes
<1>9. Ordered(i)'
  BY <1>2, <1>3, <1>4, <1>7, <1>8 DEF Ordered
<1>10. \A g \in Nat : NotNewer(g, i) => NotNewer(g, i)'
  BY <1>1, <1>3, <1>4 DEF NotNewer
<1> QED BY <1>1, <1>2, <1>6, <1>9, <1>10, FramesMove DEF PushTypes

\* The batch keeps its frame or is over.
LEMMA FramesKept ==
  ASSUME FrameInv, NEW i \in Followed, batch[i].stage # "idle",
         NEW b, b = NoBatch \/ (b.frame = batch[i].frame /\ DOMAIN b = {"frame", "stage", "left"}),
         batch' = [batch EXCEPT ![i] = b], UNCHANGED <<frames, inbox, pending, got, open>>
  PROVE  FrameInv'
<1>1. PushTypes /\ Ordered(i)
  BY DEF FrameInv
<1>2. NoBatch.frame = 0 /\ NoBatch.stage = "idle" /\ DOMAIN NoBatch = {"frame", "stage", "left"}
  BY DEF NoBatch
<1>3. batch'[i] = b /\ b.frame \in {0, batch[i].frame} /\ DOMAIN b = {"frame", "stage", "left"}
      /\ batch[i].frame \in Nat
  BY <1>1, <1>2 DEF PushTypes
<1>4. PushTypes'
  BY <1>1, <1>3 DEF PushTypes
<1>5. frames \in Nat /\ pending[i] \in Nat /\ \A k \in DOMAIN inbox[i] : inbox[i][k] \in Nat
  BY <1>1 DEF PushTypes
<1>6. Ordered(i)'
  BY <1>1, <1>3, <1>5 DEF Ordered
<1>7. \A g \in Nat : NotNewer(g, i) => NotNewer(g, i)'
  BY <1>2, <1>3 DEF NotNewer
<1>8. \A j \in Followed \ {i} : batch'[j] = batch[j]
  BY <1>1 DEF PushTypes
<1> QED BY <1>4, <1>6, <1>7, <1>8, FramesMove

\* A frame that is sent is at least as new as what its receiver has, and at most
\* as new as what is still to come.
LEMMA FramesSend ==
  ASSUME FrameInv, NEW i \in Followed, NEW c \in Conns, Send(i, c)
  PROVE  FrameInv' /\ \A d \in Conns : got[d] <= got'[d]
<1> DEFINE b == IF batch[i].left = {c} THEN NoBatch ELSE [batch[i] EXCEPT !.left = batch[i].left \ {c}]
<1> PICK f : f = batch[i].frame
  OBVIOUS
<1>1. /\ batch[i].stage = "sending" /\ batch' = [batch EXCEPT ![i] = b]
      /\ got' = IF c \in Here(i) THEN [got EXCEPT ![c] = f] ELSE got
      /\ UNCHANGED <<frames, inbox, pending, open>>
  <2>1. batch' = [batch EXCEPT ![i] = b]
    BY DEF Send
  <2> QED BY <2>1 DEF Send, clients
<1>2. PushTypes /\ Ordered(i) /\ OneHome
  BY DEF FrameInv
<1>3. b = NoBatch \/ (b.frame = f /\ DOMAIN b = {"frame", "stage", "left"})
  BY <1>2 DEF PushTypes
<1> HIDE DEF b
<1>4. CASE c \notin Here(i)
  <2>1. got' = got
    BY <1>1, <1>4
  <2>2. FrameInv'
    BY <1>1, <1>3, <2>1, FramesKept
  <2> QED BY <1>2, <2>1, <2>2 DEF PushTypes
<1>5. CASE c \in Here(i)
  <2>1. [c |-> c, i |-> i] \in open
    BY <1>5 DEF Here
  <2>2. got[c] <= f
    <3>1. [c |-> c, i |-> i].c = c /\ [c |-> c, i |-> i].i = i
      OBVIOUS
    <3>2. NotNewer(got[c], i)
      BY <2>1, <3>1 DEF FrameInv
    <3> QED BY <1>1, <3>2 DEF NotNewer
  <2>3. /\ got' \in [Conns -> Nat] /\ got'[c] = f
        /\ \A d \in Conns \ {c} : got'[d] = got[d]
    BY <1>1, <1>2, <1>5 DEF PushTypes
  <2>4. \A d \in Conns : got[d] <= got'[d]
    <3> TAKE d \in Conns
    <3>1. got[d] \in Nat
      BY <1>2 DEF PushTypes
    <3>2. CASE d = c
      BY <2>2, <2>3, <3>2
    <3>3. CASE d # c
      BY <2>3, <3>1, <3>3
    <3> QED BY <3>2, <3>3
  <2>5. /\ batch'[i] = b /\ \A j \in Followed \ {i} : batch'[j] = batch[j]
        /\ b.frame \in {0, f} /\ DOMAIN b = {"frame", "stage", "left"} /\ f \in Nat
        /\ b.stage # "idle" => b.frame = f
    BY <1>1, <1>2, <1>3 DEF PushTypes, NoBatch
  <2>6. PushTypes'
    BY <1>1, <1>2, <2>3, <2>5 DEF PushTypes
  <2>7. frames \in Nat /\ pending[i] \in Nat /\ \A k \in DOMAIN inbox[i] : inbox[i][k] \in Nat
    BY <1>2 DEF PushTypes
  <2>8. Ordered(i)'
    BY <1>1, <1>2, <2>5, <2>7 DEF Ordered
  <2>9. NotNewer(f, i)'
    BY <1>1, <1>2, <2>5, <2>7 DEF Ordered, NotNewer
  <2>10. \A j \in Followed : Ordered(j)'
    BY <1>1, <2>5, <2>8, FramesSame DEF FrameInv
  <2>11. ASSUME NEW o \in open PROVE NotNewer(got[o.c], o.i)'
    <3>1. o.c \in Conns /\ o.i \in Followed /\ NotNewer(got[o.c], o.i)
      BY <1>2 DEF PushTypes, FrameInv
    <3>2. CASE o.c = c
      <4>1. o = [c |-> c, i |-> i]
        BY <1>2, <2>1, <3>2 DEF OneHome
      <4> QED BY <2>3, <2>9, <3>2, <4>1
    <3>3. CASE o.c # c
      <4>1. got'[o.c] = got[o.c]
        BY <2>3, <3>1, <3>3
      <4>2. CASE o.i # i
        BY <1>1, <2>5, <3>1, <4>1, <4>2, FramesSame
      <4>3. CASE o.i = i
        <5> PICK g : g = got[o.c]
          OBVIOUS
        <5>1. NotNewer(g, i)'
          BY <1>1, <2>5, <3>1, <4>3 DEF NotNewer
        <5> QED BY <4>1, <4>3, <5>1
      <4> QED BY <4>2, <4>3
    <3> QED BY <3>2, <3>3
  <2>12. OneHome'
    BY <1>1, <1>2 DEF OneHome
  <2> QED BY <1>1, <2>4, <2>6, <2>10, <2>11, <2>12 DEF FrameInv
<1> QED BY <1>4, <1>5

LEMMA FramesPublish ==
  ASSUME FrameInv, NEW n, n = frames + 1, frames' = n,
         inbox' = [j \in Followed |-> IF j \in online THEN Append(inbox[j], n) ELSE inbox[j]],
         UNCHANGED <<pending, batch, got, open>>
  PROVE  FrameInv'
<1>1. PushTypes /\ frames \in Nat /\ n \in Nat /\ frames <= n
  BY DEF FrameInv, PushTypes
<1>2. \A j \in Followed : inbox'[j] \in Seq(Nat)
  BY <1>1 DEF PushTypes
<1>3. PushTypes'
  BY <1>1, <1>2 DEF PushTypes
<1>4. ASSUME NEW j \in Followed
      PROVE  /\ Ordered(j)'
             /\ \A g \in Nat : NotNewer(g, j) => NotNewer(g, j)'
  <2> DEFINE q == inbox[j]
             p == inbox'[j]
  <2>1. /\ q \in Seq(Nat) /\ pending[j] \in Nat /\ batch[j].frame \in Nat /\ Ordered(j)
    BY <1>1 DEF PushTypes, FrameInv
  <2>2. p = q \/ p = Append(q, n)
    OBVIOUS
  <2> HIDE DEF p
  <2>3. /\ \A k \in DOMAIN q : k \in Nat /\ q[k] \in Nat /\ k < Len(q) + 1 /\ q[k] <= frames
        /\ \A k \in DOMAIN p : (k \in DOMAIN q /\ p[k] = q[k]) \/ (k = Len(q) + 1 /\ p[k] = n)
        /\ Len(q) \in Nat
    <3>1. \A k \in DOMAIN q : k \in Nat /\ q[k] \in Nat /\ k < Len(q) + 1
      BY <2>1
    <3>2. \A k \in DOMAIN q : q[k] <= frames
      BY <2>1 DEF Ordered
    <3>3. CASE p = q
      BY <2>1, <3>1, <3>2, <3>3
    <3>4. CASE p = Append(q, n)
      <4>1. \A k \in DOMAIN p : (k \in DOMAIN q /\ p[k] = q[k]) \/ (k = Len(q) + 1 /\ p[k] = n)
        <5> HIDE DEF q
        <5> QED BY <2>1, <3>4
      <4> QED BY <2>1, <3>1, <3>2, <4>1
    <3> QED BY <2>2, <3>3, <3>4
  <2>4. \A k \in DOMAIN q : q[k] <= n
    BY <1>1, <2>3
  <2>5. pending[j] <= n /\ batch[j].frame <= n
    BY <1>1, <2>1 DEF Ordered
  <2>6. ASSUME NEW k \in DOMAIN p, NEW l \in DOMAIN p, k < l PROVE p[k] <= p[l]
    <3>1. CASE k \in DOMAIN q /\ p[k] = q[k] /\ l \in DOMAIN q /\ p[l] = q[l]
      BY <2>1, <2>6, <3>1 DEF Ordered
    <3>2. CASE k \in DOMAIN q /\ p[k] = q[k] /\ l = Len(q) + 1 /\ p[l] = n
      BY <2>4, <3>2
    <3>3. CASE k = Len(q) + 1
      BY <2>3, <2>6, <3>3
    <3> QED BY <2>3, <3>1, <3>2, <3>3
  <2>7. ASSUME NEW k \in DOMAIN p
        PROVE  p[k] <= n /\ pending[j] <= p[k] /\ batch[j].frame <= p[k]
    <3>1. CASE k \in DOMAIN q /\ p[k] = q[k]
      BY <2>1, <2>4, <3>1 DEF Ordered
    <3>2. CASE p[k] = n
      BY <1>1, <2>5, <3>2
    <3> QED BY <2>3, <3>1, <3>2
  <2>8. Ordered(j)'
    BY <2>1, <2>5, <2>6, <2>7 DEF Ordered, p
  <2>9. ASSUME NEW g \in Nat, NotNewer(g, j) PROVE NotNewer(g, j)'
    <3>1. g <= n
      BY <1>1, <2>9 DEF NotNewer
    <3>2. \A k \in DOMAIN p : g <= p[k]
      BY <2>3, <2>9, <3>1 DEF NotNewer
    <3> QED BY <2>9, <3>1, <3>2 DEF NotNewer, p
  <2> QED BY <2>8, <2>9
<1>5. \A o \in open : NotNewer(got[o.c], o.i)'
  <2> TAKE o \in open
  <2>1. o.i \in Followed /\ got[o.c] \in Nat /\ NotNewer(got[o.c], o.i)
    BY <1>1 DEF PushTypes, FrameInv
  <2> QED BY <1>4, <2>1
<1>6. OneHome'
  BY DEF FrameInv, OneHome
<1> QED BY <1>3, <1>4, <1>5, <1>6 DEF FrameInv

\* An instance that is cut off or starts again has nothing left to send.
LEMMA FramesRestart ==
  ASSUME FrameInv, NEW i \in Instances, Restart(i)
  PROVE  FrameInv'
<1>1. /\ inbox' = [j \in Followed |-> IF j = i THEN <<>> ELSE inbox[j]]
      /\ pending' = [j \in Followed |-> IF j = i THEN 0 ELSE pending[j]]
      /\ batch' = [j \in Followed |-> IF j = i THEN NoBatch ELSE batch[j]]
      /\ open' = {o \in open : o.i # i} /\ frames' = frames /\ got' = got
  BY DEF Restart
<1>2. PushTypes
  BY DEF FrameInv
<1>3. DOMAIN NoBatch = {"frame", "stage", "left"} /\ NoBatch.frame = 0
  BY DEF NoBatch
<1>4. PushTypes'
  BY <1>1, <1>2, <1>3 DEF PushTypes
<1>5. ASSUME NEW j \in Followed PROVE Ordered(j)'
  <2>1. CASE j = i
    <3>1. inbox'[j] = <<>> /\ pending'[j] = 0 /\ batch'[j].frame = 0 /\ frames' \in Nat
      BY <1>1, <1>2, <1>3, <2>1 DEF PushTypes
    <3> QED BY <3>1 DEF Ordered
  <2>2. CASE j # i
    <3>1. frames' = frames /\ inbox'[j] = inbox[j] /\ pending'[j] = pending[j] /\ batch'[j] = batch[j]
      BY <1>1, <2>2
    <3> QED BY <3>1, FramesSame DEF FrameInv
  <2> QED BY <2>1, <2>2
<1>6. ASSUME NEW o \in open' PROVE NotNewer(got[o.c], o.i)'
  <2>1. o \in open /\ o.i # i /\ o.i \in Followed /\ NotNewer(got[o.c], o.i)
    BY <1>1, <1>2 DEF PushTypes, FrameInv
  <2>2. /\ frames' = frames /\ inbox'[o.i] = inbox[o.i]
        /\ pending'[o.i] = pending[o.i] /\ batch'[o.i] = batch[o.i]
    BY <1>1, <2>1
  <2> QED BY <1>1, <2>1, <2>2, FramesSame
<1>7. OneHome'
  BY <1>1 DEF FrameInv, OneHome
<1> QED BY <1>1, <1>4, <1>5, <1>6, <1>7 DEF FrameInv

LEMMA FramesDisconnect == ASSUME FrameInv, NEW i \in Followed, Disconnect(i) PROVE FrameInv'
<1>1. inbox' = [inbox EXCEPT ![i] = <<>>] /\ UNCHANGED <<frames, pending, batch, got, open>>
  BY DEF Disconnect, delivery, clients
<1>2. PushTypes /\ Ordered(i)
  BY DEF FrameInv
<1>3. PushTypes' /\ inbox'[i] = <<>> /\ \A j \in Followed \ {i} : inbox'[j] = inbox[j]
  BY <1>1, <1>2 DEF PushTypes
<1>4. Ordered(i)' /\ \A g \in Nat : NotNewer(g, i) => NotNewer(g, i)'
  BY <1>1, <1>2, <1>3 DEF Ordered, NotNewer
<1> QED BY <1>1, <1>3, <1>4, FramesMove

LEMMA FramesNext ==
  ASSUME FrameInv, [PushNext]_pushVars
  PROVE  FrameInv' /\ \A c \in Conns : got[c] <= got'[c]
<1>1. got' = got => \A c \in Conns : got[c] <= got'[c]
  BY DEF FrameInv, PushTypes
<1>2. CASE UNCHANGED <<frames, inbox, pending, batch, got, open>>
  <2>1. OneHome' /\ open' \subseteq [c : Conns, i : Followed] /\ \A o \in open' : o \in open
    BY <1>2 DEF FrameInv, PushTypes, OneHome
  <2> QED BY <1>1, <1>2, <2>1, FramesOpen
<1>3. CASE LeaseExpires \/ UNCHANGED pushVars
  BY <1>2, <1>3 DEF LeaseExpires, pushVars, delivery, clients
<1>4. ASSUME NEW i \in Instances, Ask(i) \/ Renew(i) \/ Take(i)
      PROVE  FrameInv' /\ \A c \in Conns : got[c] <= got'[c]
  BY <1>2, <1>4 DEF Ask, Renew, Take, delivery, clients
<1>5. ASSUME NEW i \in Instances, Publish(i)
      PROVE  FrameInv' /\ \A c \in Conns : got[c] <= got'[c]
  <2>1. UNCHANGED <<pending, batch, got, open>>
    BY <1>5 DEF Publish, delivery, clients
  <2>2. CASE UNCHANGED <<frames, inbox>>
    BY <1>2, <2>1, <2>2
  <2>3. CASE /\ frames' = frames + 1
             /\ inbox' = [j \in Followed |-> IF j \in online THEN Append(inbox[j], frames + 1)
                                             ELSE inbox[j]]
    BY <1>1, <2>1, <2>3, FramesPublish
  <2> QED BY <1>5, <2>2, <2>3 DEF Publish
<1>6. ASSUME NEW i \in Instances, Restart(i)
      PROVE  FrameInv' /\ \A c \in Conns : got[c] <= got'[c]
  BY <1>1, <1>6, FramesRestart DEF Restart
<1>7. ASSUME NEW i \in Followed, Connect(i)
      PROVE  FrameInv' /\ \A c \in Conns : got[c] <= got'[c]
  BY <1>2, <1>7 DEF Connect, delivery, clients
<1>8. ASSUME NEW i \in Followed, Disconnect(i) \/ Receive(i) \/ Drain(i)
      PROVE  FrameInv' /\ \A c \in Conns : got[c] <= got'[c]
  <2>1. got' = got
    BY <1>8 DEF Disconnect, Receive, Drain, delivery
  <2> QED BY <1>1, <1>8, <2>1, FramesDisconnect, FramesReceive, FramesDrain
<1>9. ASSUME NEW i \in Followed, Snapshot(i)
      PROVE  FrameInv' /\ \A c \in Conns : got[c] <= got'[c]
  <2> DEFINE b == IF subs[i] = <<>> THEN NoBatch
                  ELSE [batch[i] EXCEPT !.stage = "sending", !.left = ToSet(subs[i])]
  <2>1. /\ batch[i].stage = "swapped" /\ batch' = [batch EXCEPT ![i] = b]
        /\ UNCHANGED <<frames, inbox, pending, got, open>>
    BY <1>9 DEF Snapshot, clients
  <2>2. b = NoBatch \/ (b.frame = batch[i].frame /\ DOMAIN b = {"frame", "stage", "left"})
    BY DEF FrameInv, PushTypes
  <2> HIDE DEF b
  <2> QED BY <1>1, <2>1, <2>2, FramesKept
<1>10. ASSUME NEW i \in Followed, NEW c \in Conns, Send(i, c)
       PROVE  FrameInv' /\ \A d \in Conns : got[d] <= got'[d]
  BY <1>10, FramesSend
<1>11. ASSUME NEW i \in Followed, NEW c \in Conns,
              handleNewConnection(i, c) \/ subscribe(i, c) \/ handleConnectionClosed(i, c)
       PROVE  FrameInv' /\ \A d \in Conns : got[d] <= got'[d]
  <2>1. UNCHANGED <<frames, inbox, pending, batch, got>>
    BY <1>11 DEF handleNewConnection, subscribe, handleConnectionClosed, delivery
  <2>2. CASE handleNewConnection(i, c)
    <3> DEFINE n == [c |-> c, i |-> i]
    <3>1. /\ \A o \in open : o.c # c
          /\ got[c] = 0 /\ open' = open \cup {n}
      BY <2>2 DEF handleNewConnection
    <3>2. n.c = c /\ n \in [c : Conns, i : Followed]
      OBVIOUS
    <3> HIDE DEF n
    <3>3. OneHome' /\ open' \subseteq [c : Conns, i : Followed]
      BY <3>1, <3>2 DEF FrameInv, PushTypes, OneHome
    <3>4. \A o \in open' : o \in open \/ got[o.c] = 0
      BY <3>1, <3>2
    <3> QED BY <1>1, <2>1, <3>3, <3>4, FramesOpen
  <2>3. CASE subscribe(i, c) \/ handleConnectionClosed(i, c)
    <3>1. open' \subseteq open
      BY <2>3 DEF subscribe, handleConnectionClosed
    <3>2. OneHome' /\ open' \subseteq [c : Conns, i : Followed]
      BY <3>1 DEF FrameInv, PushTypes, OneHome
    <3> QED BY <1>1, <2>1, <3>1, <3>2, FramesOpen
  <2> QED BY <1>11, <2>2, <2>3
<1> QED BY <1>3, <1>4, <1>5, <1>6, <1>7, <1>8, <1>9, <1>10, <1>11 DEF PushNext, Sends

LEMMA FramesInit == PushInit => FrameInv
<1> SUFFICES ASSUME PushInit PROVE FrameInv
  OBVIOUS
<1>1. /\ frames = 0 /\ open = {} /\ got = [c \in Conns |-> 0]
      /\ inbox = [i \in Followed |-> <<>>] /\ pending = [i \in Followed |-> 0]
      /\ batch = [i \in Followed |-> NoBatch]
  BY DEF PushInit
<1>2. DOMAIN NoBatch = {"frame", "stage", "left"} /\ NoBatch.frame = 0
  BY DEF NoBatch
<1>3. PushTypes
  BY <1>1, <1>2 DEF PushTypes
<1>4. \A i \in Followed : Ordered(i)
  <2> TAKE i \in Followed
  <2>1. inbox[i] = <<>> /\ pending[i] = 0 /\ batch[i].frame = 0 /\ frames = 0
    BY <1>1, <1>2
  <2> QED BY <2>1 DEF Ordered
<1> QED BY <1>1, <1>3, <1>4 DEF FrameInv, OneHome

\* A dashboard never gets an older frame after a newer one, although frames are
\* received, swapped out and sent by different threads, outside the lock
\* (WsBroadcastManager.cc:50-74).
Newer == \A c \in Conns : got[c] <= got'[c]
NoOlderFrame == [][Newer]_pushVars

\* What a dashboard shows only gets newer.
THEOREM OnlyNewer == PushSpec => NoOlderFrame
<1>1. FrameInv /\ [PushNext]_pushVars => FrameInv' /\ Newer
  BY FramesNext DEF Newer
<1> QED BY <1>1, FramesInit, PTL DEF PushSpec, NoOlderFrame

\* Whoever holds the lease, or died holding it, holds it for a limited time: an
\* expiry is never missing (WsBroadcastManager.cc:143-182).
LeaseEnds == lease = NoLease \/ lease.expires

LeaseInv == lease = NoLease \/ lease \in [holder : Instances \cup {Gone}, expires : {TRUE}]

\* The safety half of SomebodyLeads.
THEOREM LeaseRunsOut == PushSpec => []LeaseEnds
<1>1. PushInit => LeaseInv
  BY DEF PushInit, LeaseInv
<1>2. LeaseInv /\ [PushNext]_pushVars => LeaseInv'
  <2> SUFFICES ASSUME LeaseInv, [PushNext]_pushVars PROVE LeaseInv'
    OBVIOUS
  <2>1. CASE UNCHANGED lease
    BY <2>1 DEF LeaseInv
  <2>2. CASE UNCHANGED pushVars
    BY <2>1, <2>2 DEF pushVars, leadership
  <2>3. CASE LeaseExpires
    BY <2>3 DEF LeaseExpires, LeaseInv
  <2>4. ASSUME NEW i \in Instances, Ask(i) \/ Renew(i) \/ Take(i) \/ Publish(i) \/ Restart(i)
        PROVE  LeaseInv'
    <3>1. CASE Ask(i) \/ Publish(i)
      BY <2>1, <3>1 DEF Ask, Publish, leadership
    <3>2. CASE Renew(i) \/ Take(i)
      <4>1. lease' = lease \/ lease' = [holder |-> i, expires |-> TRUE]
        BY <3>2 DEF Renew, Take
      <4>2. [holder |-> i, expires |-> TRUE] \in [holder : Instances \cup {Gone}, expires : {TRUE}]
        OBVIOUS
      <4> QED BY <4>1, <4>2, Zenon DEF LeaseInv
    <3>3. CASE Restart(i)
      <4>1. lease' = IF lease.holder = i THEN [lease EXCEPT !.holder = Gone] ELSE lease
        BY <3>3 DEF Restart
      <4>2. NoLease.holder # i
        BY PushAssumption DEF NoLease
      <4> QED BY <4>1, <4>2 DEF LeaseInv
    <3> QED BY <2>4, <3>1, <3>2, <3>3
  <2>5. ASSUME NEW i \in Followed,
               \/ Connect(i) \/ Disconnect(i) \/ Receive(i) \/ Sends(i)
               \/ \E c \in Conns :
                    handleNewConnection(i, c) \/ subscribe(i, c) \/ handleConnectionClosed(i, c)
        PROVE  LeaseInv'
    BY <2>1, <2>5 DEF Connect, Disconnect, Receive, Sends, Drain, Snapshot, Send,
       handleNewConnection, subscribe, handleConnectionClosed, leadership
  <2> QED BY <2>2, <2>3, <2>4, <2>5 DEF PushNext
<1>3. LeaseInv => LeaseEnds
  BY DEF LeaseInv, LeaseEnds
<1> QED BY <1>1, <1>2, <1>3, PTL DEF PushSpec
=============================================================================
