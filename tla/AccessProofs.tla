---------------------------- MODULE AccessProofs ----------------------------
(***************************************************************************)
(* Theorems about Access, for any roles, permissions, departments,         *)
(* instances and requests, and any number of changes and failures.         *)
(*                                                                         *)
(* What a cache holds is right, or an invalidation that concerns the user  *)
(* is still to come (Owed, dels), or something excuses it (raced, old).    *)
(* An invalidation of a role is asked for whoever the role's holders are,  *)
(* and concerns the user only while the user has the role: a change of     *)
(* another role changes nothing that the caches hold (SameTables).         *)
(*                                                                         *)
(* A request waits for one load, and a load under way has those who wait   *)
(* for it (WaitInv).                                                       *)
(***************************************************************************)
EXTENDS Access, TLAPS

\* An invalidation of i that concerns the user has not been sent yet.
Owed(i) == \E r \in member \cup {TheUser} : <<i, r>> \in lookups
SomeOwed == \E i \in Instances : Owed(i)

\* Functions and records have their domains.
IsScope(s) == DOMAIN s = {"scope", "depts", "old"}
IsLogin(l) == DOMAIN l = {"stage", "res"} /\ IsScope(l.res)

Tables ==
  /\ DOMAIN role = Roles
  /\ member \subseteq Roles
  /\ \A u \in updating : u.i \in Instances /\ u.r \in Roles

Scoped ==
  /\ DOMAIN scope = Instances /\ \A i \in Instances : IsScope(scope[i])
  /\ DOMAIN login = Instances /\ \A i \in Instances : IsLogin(login[i])

Cached ==
  /\ DOMAIN flight = Instances
  /\ \A i \in Instances : DOMAIN flight[i] = {"stage", "waiters", "mute", "perms"}
  /\ DOMAIN fill = Instances
  /\ \A i \in Instances : DOMAIN fill[i] = {"stage", "left", "expire"}
  /\ DOMAIN key = {"set", "ttl"}
  /\ dels \in Nat

\* A scope that is being loaded and not aged is that of the tables as they are.
Fresh(l) ==
  \/ l = NoLogin
  \/ l.res.old
  \/ l.stage = "read" /\ l.res = FirstRead(role, member)
  \/ l.stage = "depts" /\ l.res = ScopeOf(role, member)

ScopeInv ==
  \A i \in Instances :
    /\ scope[i] = NoScope \/ scope[i].old \/ Owed(i) \/ scope[i] = ScopeOf(role, member)
    /\ Fresh(login[i])

\* Nothing on its way into the cache grants what the tables do not.
LoadsFresh ==
  \A i \in Instances :
    /\ flight[i].stage = "ran" => flight[i].perms \subseteq Granted(role, member)
    /\ fill[i] # NoFill => fill[i].left \ {None} \subseteq Granted(role, member)

CacheInv ==
  \/ raced
  \/ /\ key.set \ {None} \subseteq Granted(role, member) \/ dels > 0 \/ SomeOwed
     /\ LoadsFresh
-----------------------------------------------------------------------------
(* The tables *)

\* What is computed from the tables depends on the user's own roles only.
LEMMA SameTables ==
  ASSUME NEW rows, NEW new, NEW ms, \A r \in ms : new[r] = rows[r]
  PROVE  /\ Granted(new, ms) = Granted(rows, ms)
         /\ FirstRead(new, ms) = FirstRead(rows, ms)
         /\ ScopeOf(new, ms) = ScopeOf(rows, ms)
<1> DEFINE L(t) == {r \in ms : Live(t[r])}
<1>1. L(new) = L(rows)
  OBVIOUS
<1>2. {new[r].perms : r \in L(new)} = {rows[r].perms : r \in L(rows)}
  OBVIOUS
<1>3. {new[r].scope : r \in L(new)} = {rows[r].scope : r \in L(rows)}
  OBVIOUS
<1>4. Granted(new, ms) = Granted(rows, ms)
  BY <1>2 DEF Granted
<1>5. Merged(new, ms) = Merged(rows, ms)
  BY <1>3 DEF Merged
<1>6. CustomDepts(new, ms) = CustomDepts(rows, ms)
  <2> DEFINE C(t) == {r \in ms : t[r].scope = 5 /\ t[r].status = 1}
  <2>1. C(new) = C(rows)
    OBVIOUS
  <2>2. {new[r].depts : r \in C(new)} = {rows[r].depts : r \in C(rows)}
    OBVIOUS
  <2> QED BY <2>2 DEF CustomDepts
<1> QED BY <1>4, <1>5, <1>6 DEF FirstRead, ScopeOf

LEMMA WithDepts ==
  ASSUME NEW m, NEW b, NEW o, NEW c
  PROVE  [[scope |-> m, depts |-> b, old |-> o] EXCEPT !.depts = c]
           = [scope |-> m, depts |-> c, old |-> o]
<1> DEFINE f == [scope |-> m, depts |-> b, old |-> o]
           g == [f EXCEPT !.depts = c]
           h == [scope |-> m, depts |-> c, old |-> o]
<1>1. h = [x \in {"scope", "depts", "old"} |-> h[x]]
  OBVIOUS
<1>2. g = [x \in {"scope", "depts", "old"} |-> g[x]]
  OBVIOUS
<1>3. \A x \in {"scope", "depts", "old"} : g[x] = h[x]
  OBVIOUS
<1> HIDE DEF g, h
<1>4. g = h
  BY <1>1, <1>2, <1>3
<1> QED BY <1>4 DEF g, h

\* A query that returns another scope than 5 has the whole answer.
LEMMA OneQuery ==
  ASSUME NEW rows, NEW ms
  PROVE  /\ FirstRead(rows, ms).scope # 5 => FirstRead(rows, ms) = ScopeOf(rows, ms)
         /\ FirstRead(rows, ms).scope = 5 =>
              [FirstRead(rows, ms) EXCEPT !.depts = CustomDepts(rows, ms)] = ScopeOf(rows, ms)
         /\ IsScope(FirstRead(rows, ms)) /\ IsScope(ScopeOf(rows, ms))
         /\ FirstRead(rows, ms).old = FALSE
<1> DEFINE m == Merged(rows, ms)
           f == FirstRead(rows, ms)
           d == IF m = 5 THEN CustomDepts(rows, ms) ELSE {}
<1>1. f = [scope |-> m, depts |-> {}, old |-> FALSE]
  BY DEF FirstRead
<1>2. ScopeOf(rows, ms) = [f EXCEPT !.depts = d]
  BY DEF ScopeOf
<1>3. d = IF m = 5 THEN CustomDepts(rows, ms) ELSE {}
  OBVIOUS
<1> HIDE DEF f, m, d
<1>4. ScopeOf(rows, ms) = [scope |-> m, depts |-> d, old |-> FALSE]
  BY <1>1, <1>2, WithDepts
<1>5. IsScope(f) /\ IsScope(ScopeOf(rows, ms)) /\ f.scope = m /\ f.old = FALSE
  BY <1>1, <1>4 DEF IsScope
<1>6. CASE m = 5
  BY <1>2, <1>3, <1>5, <1>6 DEF f
<1>7. CASE m # 5
  BY <1>1, <1>3, <1>4, <1>5, <1>7 DEF f
<1> QED BY <1>6, <1>7
-----------------------------------------------------------------------------
(* Data scopes *)

SInv == Tables /\ Scoped /\ ScopeInv

LEMMA InitSInv == Init => SInv
BY DEF Init, SInv, Tables, Scoped, ScopeInv, IsScope, IsLogin, Fresh, NoScope, NoLogin

\* Steps that leave the tables and the caches of data scopes alone; updateRole
\* asks for its invalidation before it commits.
LEMMA SQuiet ==
  ASSUME SInv, UNCHANGED <<role, member, scopes>>, lookups \subseteq lookups',
         \A u \in updating' : u.i \in Instances /\ u.r \in Roles
  PROVE  SInv'
<1>1. Tables' /\ Scoped'
  BY DEF SInv, Tables, Scoped, scopes
<1>2. \A i \in Instances : Owed(i) => Owed(i)'
  BY DEF Owed
<1>3. ScopeInv'
  BY <1>2 DEF SInv, ScopeInv, Fresh, scopes
<1> QED BY <1>1, <1>3 DEF SInv

\* One load of a data scope.
LEMMA SLogin ==
  ASSUME SInv, NEW i \in Instances,
         Login(i) \/ LoginDepts(i) \/ LoginReturns(i) \/ ScopeExpires(i)
  PROVE  SInv'
<1>1. /\ UNCHANGED <<role, member, updating, lookups>>
      /\ DOMAIN scope = Instances /\ DOMAIN login = Instances
      /\ IsScope(scope[i]) /\ IsLogin(login[i])
  BY DEF Login, LoginDepts, LoginReturns, ScopeExpires, tables, SInv, Scoped
<1>0. /\ FirstRead(role, member).scope # 5 => FirstRead(role, member) = ScopeOf(role, member)
      /\ FirstRead(role, member).scope = 5 =>
           [FirstRead(role, member) EXCEPT !.depts = CustomDepts(role, member)]
             = ScopeOf(role, member)
      /\ IsScope(FirstRead(role, member))
  BY OneQuery, Zenon
<1> DEFINE Right(s) == s = NoScope \/ s.old \/ Owed(i) \/ s = ScopeOf(role, member)
<1>2. Right(scope[i]) /\ Fresh(login[i])
  BY DEF SInv, ScopeInv
<1>3. SUFFICES ASSUME NEW s, NEW l, IsScope(s), IsLogin(l), Right(s), Fresh(l),
                      scope' = [scope EXCEPT ![i] = s] \/ (scope' = scope /\ s = scope[i]),
                      login' = [login EXCEPT ![i] = l] \/ (login' = login /\ l = login[i])
               PROVE  SInv'
  <2>1. IsScope(NoScope) /\ IsLogin(NoLogin) /\ Right(NoScope) /\ Fresh(NoLogin)
    BY DEF IsScope, IsLogin, NoScope, NoLogin, Fresh
  <2>3. CASE Login(i)
    <3> DEFINE l == [stage |-> "read", res |-> FirstRead(role, member)]
    <3>1. IsLogin(l) /\ Fresh(l)
      BY <1>0 DEF IsLogin, Fresh
    <3>2. scope' = scope /\ login' = [login EXCEPT ![i] = l]
      BY <2>3 DEF Login
    <3> HIDE DEF l
    <3> QED BY <1>1, <1>2, <1>3, <3>1, <3>2
  <2>4. CASE LoginDepts(i)
    <3> DEFINE r == [login[i].res EXCEPT !.depts = CustomDepts(role, member)]
               l == [login[i] EXCEPT !.stage = "depts", !.res = r]
    <3>1. scope' = scope /\ login' = [login EXCEPT ![i] = l]
      BY <1>1, <2>4 DEF LoginDepts, IsLogin
    <3>2. login[i].stage = "read" /\ login[i].res.scope = 5
      BY <2>4 DEF LoginDepts
    <3>3. DOMAIN r = {"scope", "depts", "old"} /\ r.old = login[i].res.old
      BY <1>1 DEF IsLogin, IsScope
    <3>4. login[i].res.old \/ r = ScopeOf(role, member)
      <4>1. CASE login[i].res.old
        BY <4>1
      <4>2. CASE login[i].res = FirstRead(role, member)
        BY <1>0, <3>2, <4>2
      <4>3. login[i] # NoLogin /\ login[i].stage # "depts"
        BY <3>2 DEF NoLogin
      <4> QED BY <1>2, <4>1, <4>2, <4>3 DEF Fresh
    <3> HIDE DEF r
    <3>5. DOMAIN l = {"stage", "res"} /\ l.stage = "depts" /\ l.res = r
      BY <1>1 DEF IsLogin
    <3> HIDE DEF l
    <3>6. IsLogin(l) /\ Fresh(l)
      BY <3>3, <3>4, <3>5 DEF IsLogin, IsScope, Fresh
    <3> QED BY <1>1, <1>2, <1>3, <3>1, <3>6
  <2>5. CASE LoginReturns(i)
    <3>1. scope' = [scope EXCEPT ![i] = login[i].res] /\ login' = [login EXCEPT ![i] = NoLogin]
      BY <2>5 DEF LoginReturns
    <3>2. login[i].stage = "depts" \/ (login[i].stage = "read" /\ login[i].res.scope # 5)
      BY <2>5 DEF LoginReturns
    <3>3. Right(login[i].res)
      <4>1. CASE login[i].res.old
        BY <4>1
      <4>2. CASE login[i].stage = "read" /\ login[i].res = FirstRead(role, member)
        BY <1>0, <3>2, <4>2
      <4>3. CASE login[i].res = ScopeOf(role, member)
        BY <4>3
      <4>4. login[i] # NoLogin
        BY <3>2 DEF NoLogin
      <4> QED BY <1>2, <4>1, <4>2, <4>3, <4>4 DEF Fresh
    <3> QED BY <1>1, <1>3, <2>1, <3>1, <3>3 DEF IsLogin
  <2>6. CASE ScopeExpires(i)
    <3>1. scope' = [scope EXCEPT ![i] = NoScope] /\ login' = login
      BY <2>6 DEF ScopeExpires
    <3> QED BY <1>1, <1>2, <1>3, <2>1, <3>1
  <2> QED BY <2>3, <2>4, <2>5, <2>6
<1>4. /\ scope'[i] = s /\ login'[i] = l
      /\ \A j \in Instances \ {i} : scope'[j] = scope[j] /\ login'[j] = login[j]
      /\ DOMAIN scope' = Instances /\ DOMAIN login' = Instances
  BY <1>1, <1>3
<1>5. Tables' /\ Scoped'
  BY <1>1, <1>3, <1>4 DEF SInv, Tables, Scoped
<1>6. /\ \A j \in Instances : Owed(j)' = Owed(j)
      /\ ScopeOf(role, member)' = ScopeOf(role, member)
      /\ \A x : Fresh(x)' = Fresh(x)
  BY <1>1 DEF Owed, ScopeOf, FirstRead, Fresh
<1>7. ScopeInv'
  BY <1>3, <1>4, <1>6 DEF SInv, ScopeInv
<1> QED BY <1>5, <1>7 DEF SInv

\* Aging an entry marks it, unless there is none.
LEMMA AgeScope ==
  ASSUME NEW s, IsScope(s), NEW c \in BOOLEAN, ~c => s = NoScope
  PROVE  LET a == [s EXCEPT !.old = c]
         IN  IsScope(a) /\ (a.old \/ (a = NoScope /\ ~c))
<1> DEFINE a == [s EXCEPT !.old = c]
<1>1. DOMAIN a = {"scope", "depts", "old"} /\ a.old = c /\ a.scope = s.scope /\ a.depts = s.depts
  BY DEF IsScope
<1>2. ASSUME ~c PROVE a = NoScope
  <2>1. a = [x \in {"scope", "depts", "old"} |-> a[x]]
    BY DEF IsScope
  <2>2. NoScope = [x \in {"scope", "depts", "old"} |-> NoScope[x]]
    BY DEF NoScope
  <2>3. a.scope = NoScope.scope /\ a.depts = NoScope.depts
    BY <1>1, <1>2
  <2>4. c = FALSE /\ NoScope.old = FALSE
    BY <1>2 DEF NoScope
  <2>5. a.old = NoScope.old
    BY <1>1, <2>4
  <2> HIDE DEF a
  <2>6. \A x \in {"scope", "depts", "old"} : a[x] = NoScope[x]
    BY <2>3, <2>5
  <2> QED BY <2>1, <2>2, <2>6
<1> HIDE DEF a
<1>3. c => a.old
  BY <1>1, Zenon
<1>4. IsScope(a) /\ (a.old \/ (a = NoScope /\ ~c))
  BY <1>1, <1>2, <1>3, Zenon DEF IsScope
<1> QED BY <1>4 DEF a

LEMMA AgeLogin ==
  ASSUME NEW l, IsLogin(l), NEW c \in BOOLEAN, ~c => l = NoLogin
  PROVE  LET a == [l EXCEPT !.res.old = c]
         IN  IsLogin(a) /\ (a = NoLogin \/ a.res.old)
<1> DEFINE a == [l EXCEPT !.res.old = c]
           r == [l.res EXCEPT !.old = c]
<1>1. DOMAIN a = {"stage", "res"} /\ a.res = r /\ a.stage = l.stage
  BY DEF IsLogin
<1>2. ~c => l.res = NoScope /\ l.stage = "idle"
  BY DEF NoLogin
<1>3. IsScope(r) /\ (r.old \/ (r = NoScope /\ ~c))
  <2>1. IsScope(l.res)
    BY DEF IsLogin
  <2> QED BY <1>2, <2>1, AgeScope, Zenon
<1> HIDE DEF r
<1>4. ASSUME ~c, r = NoScope PROVE a = NoLogin
  <2>1. a = [x \in {"stage", "res"} |-> a[x]]
    BY DEF IsLogin
  <2>2. NoLogin = [x \in {"stage", "res"} |-> NoLogin[x]]
    BY DEF NoLogin
  <2>3. \A x \in {"stage", "res"} : a[x] = NoLogin[x]
    BY <1>1, <1>2, <1>4 DEF NoLogin
  <2> HIDE DEF a
  <2> QED BY <2>1, <2>2, <2>3
<1> HIDE DEF a
<1>5. IsLogin(a) /\ (a = NoLogin \/ a.res.old)
  BY <1>1, <1>3, <1>4 DEF IsLogin
<1> QED BY <1>5 DEF a

LEMMA AgedScopes ==
  ASSUME Scoped, NEW kept, Aged(kept)
  PROVE  /\ Scoped'
         /\ \A j \in Instances : IF j \in kept THEN scope'[j] = scope[j]
                                 ELSE scope'[j] = NoScope \/ scope'[j].old
         /\ \A j \in Instances : login'[j] = NoLogin \/ login'[j].res.old
<1>1. DOMAIN scope' = Instances /\ DOMAIN login' = Instances
  BY DEF Aged
<1>2. ASSUME NEW j \in Instances
      PROVE  /\ IsScope(scope'[j])
             /\ IF j \in kept THEN scope'[j] = scope[j] ELSE scope'[j] = NoScope \/ scope'[j].old
             /\ IsLogin(login'[j])
             /\ login'[j] = NoLogin \/ login'[j].res.old
  <2> DEFINE a == [scope[j] EXCEPT !.old = scope[j] # NoScope]
             b == [login[j] EXCEPT !.res.old = login[j] # NoLogin]
  <2>1. scope'[j] = (IF j \in kept THEN scope[j] ELSE a) /\ login'[j] = b
    BY DEF Aged
  <2>2. IsScope(scope[j]) /\ IsLogin(login[j])
    BY DEF Scoped
  <2>3. IsScope(a) /\ (a = NoScope \/ a.old)
    BY <2>2, AgeScope, Zenon
  <2>4. IsLogin(b) /\ (b = NoLogin \/ b.res.old)
    BY <2>2, AgeLogin, Zenon
  <2> HIDE DEF a, b
  <2> QED BY <2>1, <2>2, <2>3, <2>4
<1> QED BY <1>1, <1>2 DEF Scoped

\* A commit: what an instance may keep is owed to it from then on, or the
\* change is one of a role that the user does not have.
LEMMA SCommit ==
  ASSUME SInv, Tables', NEW kept, Aged(kept),
         \A i \in Instances \cap kept :
           \/ Owed(i)'
           \/ /\ \A r \in member : role'[r] = role[r]
              /\ member' = member /\ lookups \subseteq lookups'
  PROVE  SInv'
<1>1. /\ Scoped'
      /\ \A j \in Instances : IF j \in kept THEN scope'[j] = scope[j]
                              ELSE scope'[j] = NoScope \/ scope'[j].old
      /\ \A j \in Instances : login'[j] = NoLogin \/ login'[j].res.old
  BY AgedScopes DEF SInv
<1>2. ASSUME NEW j \in Instances
      PROVE  /\ scope'[j] = NoScope \/ scope'[j].old \/ Owed(j)'
                  \/ scope'[j] = ScopeOf(role', member')
             /\ Fresh(login[j])'
  <2>1. Fresh(login[j])'
    BY <1>1 DEF Fresh
  <2>2. CASE j \notin kept
    BY <1>1, <2>1, <2>2
  <2>3. CASE j \in kept /\ ~Owed(j)'
    <3>1. /\ \A r \in member : role'[r] = role[r]
          /\ member' = member /\ lookups \subseteq lookups'
      BY <2>3
    <3>2. ScopeOf(role', member) = ScopeOf(role, member)
      BY <3>1, SameTables, Zenon
    <3>3. scope'[j] = scope[j]
      BY <1>1, <2>3
    <3>4. Owed(j) => Owed(j)'
      BY <3>1 DEF Owed
    <3>5. scope[j] = NoScope \/ scope[j].old \/ Owed(j) \/ scope[j] = ScopeOf(role, member)
      BY DEF SInv, ScopeInv
    <3> QED BY <2>1, <2>3, <3>1, <3>2, <3>3, <3>4, <3>5
  <2> QED BY <2>1, <2>2, <2>3
<1>3. ScopeInv'
  BY <1>2 DEF ScopeInv
<1> QED BY <1>1, <1>3 DEF SInv

\* The invalidation of the roles' holders, and of the user itself.
LEMMA SInvalidate ==
  ASSUME SInv, NEW i \in Instances,
         \/ Assigned(i)
         \/ \E r \in Roles : RoleUsers(i, r) \/ RoleUsersFails(i, r)
  PROVE  SInv'
<1>1. PICK r \in Roles \cup {TheUser} :
        /\ lookups' = lookups \ {<<i, r>>}
        /\ \/ scope' = [scope EXCEPT ![i] = NoScope]
           \/ scope' = [scope EXCEPT ![i].old = scope[i] # NoScope]
           \/ scope' = scope /\ r \notin member \cup {TheUser}
  BY ParametersAssumption, Zenon DEF Assigned, RoleUsers, RoleUsersFails, invalidateUserPerm
<1>2. UNCHANGED <<role, member, updating, login>>
  BY DEF Assigned, RoleUsers, RoleUsersFails, tables
<1>3. DOMAIN scope = Instances /\ IsScope(scope[i])
  BY DEF SInv, Scoped
<1>4. /\ \A j \in Instances \ {i} : scope'[j] = scope[j] /\ (Owed(j) => Owed(j)')
      /\ DOMAIN scope' = Instances
  BY <1>1, <1>2, <1>3 DEF Owed
<1>5. /\ IsScope(scope'[i])
      /\ scope'[i] = NoScope \/ scope'[i].old \/ (scope'[i] = scope[i] /\ (Owed(i) => Owed(i)'))
  <2>1. CASE scope' = [scope EXCEPT ![i] = NoScope]
    BY <1>3, <2>1 DEF IsScope, NoScope
  <2>2. CASE scope' = [scope EXCEPT ![i].old = scope[i] # NoScope]
    <3> DEFINE a == [scope[i] EXCEPT !.old = scope[i] # NoScope]
    <3>1. scope'[i] = a
      BY <1>3, <2>2
    <3>2. IsScope(a) /\ (a = NoScope \/ a.old)
      BY <1>3, AgeScope, Zenon
    <3> HIDE DEF a
    <3> QED BY <3>1, <3>2
  <2>3. CASE scope' = scope /\ r \notin member \cup {TheUser}
    BY <1>1, <1>2, <1>3, <2>3 DEF Owed
  <2> QED BY <1>1, <2>1, <2>2, <2>3
<1>6. Tables' /\ Scoped'
  BY <1>2, <1>3, <1>4, <1>5 DEF SInv, Tables, Scoped
<1>7. \A j \in Instances : Fresh(login[j])'
  BY <1>2 DEF Fresh, SInv, ScopeInv
<1>8. ScopeOf(role, member)' = ScopeOf(role, member)
  BY <1>2
<1>9. ScopeInv'
  BY <1>4, <1>5, <1>7, <1>8 DEF SInv, ScopeInv
<1> QED BY <1>6, <1>9 DEF SInv

\* A change of a role keeps the tables' shape and is owed to the process that
\* made it, if the user has the role.
LEMMA RoleChanges ==
  ASSUME Tables, NEW i \in Instances, NEW r \in Roles, NEW row, RoleChange(i, r, row)
  PROVE  /\ Tables' /\ Aged({i}) /\ raced' = (raced \/ Loading)
         /\ member' = member /\ lookups \subseteq lookups'
         /\ Owed(i)' \/ \A p \in member : role'[p] = role[p]
<1>1. /\ role' = [role EXCEPT ![r] = row] /\ UNCHANGED <<member, updating>>
      /\ lookups' = lookups \cup {<<i, r>>}
      /\ Aged({i}) /\ raced' = (raced \/ Loading)
  BY DEF RoleChange
<1>2. r \in member => Owed(i)'
  BY <1>1 DEF Owed
<1>3. \A p \in Roles \ {r} : role'[p] = role[p]
  BY <1>1 DEF Tables
<1> QED BY <1>1, <1>2, <1>3 DEF Tables

LEMMA Administrates ==
  ASSUME NEW i \in Instances, NEW r \in Roles,
         \/ \E ps \in SUBSET Perms : assignPermissions(i, r, ps)
         \/ \E s \in Scopes, ds \in SUBSET Depts : updateDataScope(i, r, s, ds)
         \/ deleteRole(i, r)
  PROVE  \E row : RoleChange(i, r, row)
BY DEF assignPermissions, updateDataScope, deleteRole

LEMMA SNext ==
  ASSUME SInv, [Next]_vars
  PROVE  SInv'
<1>0. Tables /\ Scoped
  BY DEF SInv
<1>1. CASE UNCHANGED vars
  <2>1. UNCHANGED <<role, member, scopes, lookups, updating>>
    BY <1>1 DEF vars, tables
  <2> QED BY <1>0, <2>1, SQuiet DEF Tables
<1>2. CASE \/ Redis \/ Expire
           \/ \E i \in Instances :
                \/ Select(i) \/ SelectReturns(i) \/ SelectFails(i) \/ FillDelFails(i)
                \/ \E q \in Requests : Check(i, q) \/ CheckWithoutRedis(i, q)
  <2>1. UNCHANGED <<role, member, scopes, lookups, updating>>
    BY <1>2 DEF Redis, Expire, Select, SelectReturns, SelectFails, FillDelFails, Check,
                CheckWithoutRedis, Del, FillDel, FillExpire, FillAdd, tables
  <2> QED BY <1>0, <2>1, SQuiet DEF Tables
<1>3. ASSUME NEW i \in Instances, NEW r \in Roles, NEW s \in {0, 1}, updateRole(i, r, s)
      PROVE  SInv'
  <2>1. /\ UNCHANGED <<role, member, scopes>> /\ lookups \subseteq lookups'
        /\ updating' = updating \cup {[i |-> i, r |-> r, status |-> s]}
    BY <1>3 DEF updateRole
  <2> QED BY <1>0, <2>1, SQuiet DEF Tables
<1>4. ASSUME NEW i \in Instances,
             Login(i) \/ LoginDepts(i) \/ LoginReturns(i) \/ ScopeExpires(i)
      PROVE  SInv'
  BY <1>4, SLogin
<1>5. ASSUME NEW i \in Instances,
             \/ Assigned(i)
             \/ \E r \in Roles : RoleUsers(i, r) \/ RoleUsersFails(i, r)
      PROVE  SInv'
  BY <1>5, SInvalidate
<1>6. ASSUME NEW i \in Instances, NEW ms \in SUBSET Roles, assignRoles(i, ms)
      PROVE  SInv'
  <2>1. /\ member' = ms /\ UNCHANGED <<role, updating>> /\ Aged({i})
        /\ lookups' = lookups \cup {<<i, TheUser>>}
    BY <1>6 DEF assignRoles
  <2>2. Tables' /\ Owed(i)'
    BY <1>0, <2>1 DEF Tables, Owed
  <2> QED BY <2>1, <2>2, SCommit
<1>7. ASSUME NEW i \in Instances, NEW r \in Roles, NEW row, RoleChange(i, r, row)
      PROVE  SInv'
  <2>1. /\ Tables' /\ Aged({i}) /\ member' = member /\ lookups \subseteq lookups'
        /\ Owed(i)' \/ \A p \in member : role'[p] = role[p]
    BY <1>0, <1>7, RoleChanges, Zenon
  <2> QED BY <2>1, SCommit
<1>8. ASSUME NEW u \in updating, UpdateRoleCommits(u)
      PROVE  SInv'
  <2> DEFINE kept == IF <<u.i, u.r>> \in lookups THEN {u.i} ELSE {}
  <2>1. /\ updating' = updating \ {u} /\ member' = member /\ lookups' = lookups /\ Aged(kept)
        /\ role' = [role EXCEPT ![u.r].status = IF role[u.r].deleted THEN @ ELSE u.status]
    BY <1>8 DEF UpdateRoleCommits
  <2>2. u.i \in Instances /\ u.r \in Roles
    BY <1>0 DEF Tables
  <2>3. Tables' /\ \A p \in Roles \ {u.r} : role'[p] = role[p]
    BY <1>0, <2>1, <2>2 DEF Tables
  <2>4. \A i \in kept : Owed(i)' \/ \A p \in member : role'[p] = role[p]
    BY <1>0, <2>1, <2>3 DEF Owed, Tables
  <2> HIDE DEF kept
  <2> QED BY <2>1, <2>3, <2>4, SCommit
<1>9. CASE Next
  <2>1. CASE Redis \/ Expire
    BY <1>2, <2>1
  <2>2. CASE Callbacks
    BY <1>2, <1>4, <1>5, <2>2 DEF Callbacks
  <2>3. CASE Administration
    BY <1>3, <1>6, <1>7, <2>3, Administrates DEF Administration
  <2>4. CASE \E u \in updating : UpdateRoleCommits(u)
    BY <1>8, <2>4
  <2>5. CASE \E i \in Instances :
               \/ \E q \in Requests : Check(i, q) \/ CheckWithoutRedis(i, q)
               \/ SelectFails(i) \/ FillDelFails(i)
               \/ Login(i) \/ ScopeExpires(i)
               \/ \E r \in Roles : RoleUsersFails(i, r)
    BY <1>2, <1>4, <1>5, <2>5
  <2> QED BY <1>9, <2>1, <2>2, <2>3, <2>4, <2>5 DEF Next
<1> QED BY <1>1, <1>9

\* The data scope a process holds is the tables' own, or the process has an
\* invalidation to send, or a change came that no invalidation of it covers.
THEOREM ScopeFollows == Spec => []ScopeFollowsChange
<1>1. SInv => ScopeFollowsChange
  <2> SUFFICES ASSUME SInv, NEW i \in Instances, Owed(i)
               PROVE  {l \in lookups : l[1] = i} # {}
    BY DEF ScopeFollowsChange, SInv, ScopeInv
  <2> PICK r \in member \cup {TheUser} : <<i, r>> \in lookups
    BY DEF Owed
  <2>1. <<i, r>>[1] = i
    OBVIOUS
  <2> QED BY <2>1
<1> QED BY <1>1, InitSInv, SNext, PTL DEF Spec
-----------------------------------------------------------------------------
(* The permission cache *)

CInv == Tables /\ Cached /\ CacheInv

LEMMA InitCInv == Init => CInv
BY DEF Init, CInv, Tables, Cached, CacheInv, LoadsFresh, Idle, NoFill, NoKey

\* What instance i does to its load, its fill and the key: its load holds what
\* the tables grant, its fill what its load held, and the key what its fill did.
Loads(i) ==
  /\ \A j \in Instances \ {i} : flight'[j] = flight[j] /\ fill'[j] = fill[j]
  /\ flight'[i].stage = "ran" =>
       \/ flight'[i].perms = Granted(role, member)
       \/ flight[i].stage = "ran" /\ flight'[i].perms = flight[i].perms
  /\ \/ fill'[i] = NoFill
     \/ fill[i] # NoFill /\ fill'[i].left \subseteq fill[i].left
     \/ flight[i].stage = "ran" /\ fill'[i].left \ {None} \subseteq flight[i].perms
  /\ \/ key'.set \subseteq key.set
     \/ fill[i] # NoFill /\ key'.set \subseteq key.set \cup fill[i].left

LEMMA CLoad ==
  ASSUME CInv, NEW i \in Instances, Cached', Loads(i), dels' = dels,
         UNCHANGED <<tables, lookups, raced>>
  PROVE  CInv'
<1>1. Tables' /\ Granted(role, member)' = Granted(role, member) /\ SomeOwed' = SomeOwed
  BY DEF CInv, Tables, tables, SomeOwed, Owed
<1>2. CASE raced
  BY <1>1, <1>2 DEF CInv, CacheInv
<1>3. CASE ~raced
  <2>1. /\ key.set \ {None} \subseteq Granted(role, member) \/ dels > 0 \/ SomeOwed
        /\ LoadsFresh
    BY <1>3 DEF CInv, CacheInv
  <2>2. LoadsFresh'
    BY <1>1, <2>1 DEF LoadsFresh, Loads
  <2>3. (key.set \ {None} \subseteq Granted(role, member)) =>
           (key'.set \ {None} \subseteq Granted(role, member))
    BY <2>1 DEF LoadsFresh, Loads
  <2> QED BY <1>1, <2>1, <2>2, <2>3 DEF CInv, CacheInv
<1> QED BY <1>2, <1>3

\* The load of an instance.
LEMMA CSelect ==
  ASSUME CInv, NEW i \in Instances,
         \/ \E q \in Requests : Check(i, q) \/ CheckWithoutRedis(i, q)
         \/ Select(i) \/ SelectReturns(i) \/ SelectFails(i)
  PROVE  CInv'
<1>1. /\ UNCHANGED <<tables, lookups, raced, key>> /\ dels' = dels
      /\ Cached
  BY DEF CInv, Check, CheckWithoutRedis, Select, SelectReturns, SelectFails, redis
<1>2. CASE \E q \in Requests : Check(i, q) \/ CheckWithoutRedis(i, q)
  <2>1. /\ fill' = fill
        /\ \/ flight' = flight
           \/ \E q \in Requests : Join(i, q, "waiters") \/ Join(i, q, "mute")
    BY <1>2 DEF Check, CheckWithoutRedis, redis
  <2>2. /\ DOMAIN flight' = Instances /\ DOMAIN flight'[i] = DOMAIN flight[i]
        /\ \A j \in Instances \ {i} : flight'[j] = flight[j]
        /\ flight'[i].perms = flight[i].perms
        /\ flight'[i].stage = "ran" => flight[i].stage = "ran"
    BY <1>1, <2>1 DEF Join, Cached
  <2>3. Cached' /\ Loads(i)
    BY <1>1, <2>1, <2>2 DEF Cached, Loads
  <2> QED BY <1>1, <2>3, CLoad
<1>3. CASE Select(i)
  <2>1. /\ fill' = fill
        /\ flight' = [flight EXCEPT ![i].stage = "ran", ![i].perms = Granted(role, member)]
    BY <1>3 DEF Select, redis
  <2>2. /\ DOMAIN flight' = Instances /\ DOMAIN flight'[i] = DOMAIN flight[i]
        /\ \A j \in Instances \ {i} : flight'[j] = flight[j]
        /\ flight'[i].perms = Granted(role, member)
    BY <1>1, <2>1 DEF Cached
  <2>3. Cached' /\ Loads(i)
    BY <1>1, <2>1, <2>2 DEF Cached, Loads
  <2> QED BY <1>1, <2>3, CLoad
<1>4. CASE SelectReturns(i)
  <2> DEFINE p == flight[i].perms
             f == [stage |-> "del", expire |-> TRUE, left |-> IF p = {} THEN {None} ELSE p]
  <2>1. /\ fill' = [fill EXCEPT ![i] = f] /\ flight' = [flight EXCEPT ![i] = Idle]
        /\ flight[i].stage = "ran"
    BY <1>4 DEF SelectReturns
  <2>2. DOMAIN f = {"stage", "left", "expire"} /\ f.left \ {None} \subseteq p
    OBVIOUS
  <2> HIDE DEF f
  <2>3. Cached' /\ Loads(i)
    BY <1>1, <2>1, <2>2 DEF Cached, Loads, Idle
  <2> QED BY <1>1, <2>3, CLoad
<1>5. CASE SelectFails(i)
  <2>1. fill' = fill /\ flight' = [flight EXCEPT ![i] = Idle]
    BY <1>5 DEF SelectFails, redis
  <2>2. Cached' /\ Loads(i)
    BY <1>1, <2>1 DEF Cached, Loads, Idle
  <2> QED BY <1>1, <2>2, CLoad
<1> QED BY <1>2, <1>3, <1>4, <1>5

\* The commands that fill the key.
LEMMA CFill ==
  ASSUME CInv, NEW i \in Instances,
         \/ FillDel(i) \/ FillDelFails(i) \/ FillExpire(i)
         \/ \E p \in Perms \cup {None} : FillAdd(i, p)
  PROVE  CInv'
<1>1. /\ UNCHANGED <<tables, lookups, raced, flight>> /\ dels' = dels
      /\ Cached
  BY DEF CInv, FillDel, FillDelFails, FillAdd, FillExpire, requests
<1>2. fill[i].stage \in {"del", "add"} /\ fill[i] # NoFill
  BY DEF FillDel, FillDelFails, FillAdd, FillExpire, NoFill
<1>3. DOMAIN NoFill = {"stage", "left", "expire"} /\ DOMAIN NoKey = {"set", "ttl"} /\ NoKey.set = {}
  BY DEF NoFill, NoKey
<1>4. CASE FillDel(i)
  <2>1. key' = NoKey /\ fill' = [fill EXCEPT ![i].stage = "add"]
    BY <1>4 DEF FillDel
  <2>2. Cached' /\ Loads(i)
    BY <1>1, <1>2, <1>3, <2>1 DEF Cached, Loads
  <2> QED BY <1>1, <2>2, CLoad
<1>5. CASE FillDelFails(i)
  <2>1. key' = key /\ fill' = [fill EXCEPT ![i] = NoFill]
    BY <1>5 DEF FillDelFails
  <2>2. Cached' /\ Loads(i)
    BY <1>1, <1>2, <1>3, <2>1 DEF Cached, Loads
  <2> QED BY <1>1, <2>2, CLoad
<1>6. ASSUME NEW p \in Perms \cup {None}, FillAdd(i, p)
      PROVE  CInv'
  <2>1. /\ fill' = [fill EXCEPT ![i] = Rest(fill[i], p)] /\ p \in fill[i].left
        /\ key' = [key EXCEPT !.set = key.set \cup {p}] \/ key' = key
    BY <1>6 DEF FillAdd
  <2>2. \/ Rest(fill[i], p) = NoFill
        \/ /\ DOMAIN Rest(fill[i], p) = DOMAIN fill[i]
           /\ Rest(fill[i], p).left \subseteq fill[i].left
    BY <1>1 DEF Rest, Cached
  <2>3. /\ DOMAIN key' = {"set", "ttl"}
        /\ key'.set \subseteq key.set \cup fill[i].left
    BY <1>1, <2>1 DEF Cached
  <2>4. Cached' /\ Loads(i)
    BY <1>1, <1>2, <1>3, <2>1, <2>2, <2>3 DEF Cached, Loads
  <2> QED BY <1>1, <2>4, CLoad
<1>7. CASE FillExpire(i)
  <2> DEFINE f == IF fill[i].left = {} THEN NoFill ELSE [fill[i] EXCEPT !.expire = FALSE]
  <2>1. /\ fill' = [fill EXCEPT ![i] = f]
        /\ key' = [key EXCEPT !.ttl = key.set # {}] \/ key' = key
    BY <1>7 DEF FillExpire
  <2>2. DOMAIN f = {"stage", "left", "expire"} /\ (f = NoFill \/ f.left = fill[i].left)
    BY <1>1, <1>3 DEF Cached
  <2>3. DOMAIN key' = {"set", "ttl"} /\ key'.set = key.set
    BY <1>1, <2>1 DEF Cached
  <2> HIDE DEF f
  <2>4. Cached' /\ Loads(i)
    BY <1>1, <1>2, <2>1, <2>2, <2>3 DEF Cached, Loads
  <2> QED BY <1>1, <2>4, CLoad
<1> QED BY <1>4, <1>5, <1>6, <1>7

\* Steps that leave the tables and the loads alone, may empty the key, and lose
\* no invalidation that concerns the user unless they leave a DEL or admit it.
LEMMA CQuiet ==
  ASSUME CInv, UNCHANGED <<role, member, flight, fill>>, key' \in {key, NoKey}, dels' \in Nat,
         raced => raced',
         \A u \in updating' : u.i \in Instances /\ u.r \in Roles,
         \/ raced' \/ key' = NoKey \/ dels' > 0
         \/ (dels > 0 => dels' > 0) /\ (SomeOwed => SomeOwed')
  PROVE  CInv'
<1>1. Tables' /\ Cached'
  BY DEF CInv, Tables, Cached, NoKey
<1>2. CASE raced'
  BY <1>1, <1>2 DEF CInv, CacheInv
<1>3. CASE ~raced'
  <2>1. /\ key.set \ {None} \subseteq Granted(role, member) \/ dels > 0 \/ SomeOwed
        /\ LoadsFresh
    BY <1>3 DEF CInv, CacheInv
  <2>2. LoadsFresh'
    BY <2>1 DEF LoadsFresh
  <2>3. \/ key'.set \ {None} \subseteq Granted(role', member')
        \/ dels' > 0 \/ SomeOwed'
    BY <1>3, <2>1 DEF NoKey
  <2> QED BY <1>1, <2>2, <2>3 DEF CInv, CacheInv
<1> QED BY <1>2, <1>3

LEMMA CInvalidate ==
  ASSUME CInv, NEW i \in Instances,
         \/ Assigned(i)
         \/ \E r \in Roles : RoleUsers(i, r) \/ RoleUsersFails(i, r)
  PROVE  CInv'
<1>1. PICK r \in Roles \cup {TheUser} :
        /\ lookups' = lookups \ {<<i, r>>}
        /\ \/ dels' = dels + 1 /\ raced' = raced
           \/ raced' = TRUE /\ dels' = dels
           \/ dels' = dels /\ raced' = raced /\ r \notin member \cup {TheUser}
  BY ParametersAssumption, Zenon DEF Assigned, RoleUsers, RoleUsersFails, invalidateUserPerm
<1>2. UNCHANGED <<role, member, updating, flight, fill, key>>
  BY DEF Assigned, RoleUsers, RoleUsersFails, tables, redis, requests
<1>3. dels \in Nat /\ \A u \in updating : u.i \in Instances /\ u.r \in Roles
  BY DEF CInv, Cached, Tables
<1>4. CASE dels' = dels + 1 /\ raced' = raced
  BY <1>2, <1>3, <1>4, CQuiet
<1>5. CASE raced' = TRUE /\ dels' = dels
  <2>1. raced'
    BY <1>5, Zenon
  <2> QED BY <1>2, <1>3, <1>5, <2>1, CQuiet
<1>6. CASE dels' = dels /\ raced' = raced /\ r \notin member \cup {TheUser}
  <2>1. SomeOwed => SomeOwed'
    BY <1>1, <1>2, <1>6 DEF SomeOwed, Owed
  <2> QED BY <1>2, <1>3, <1>6, <2>1, CQuiet
<1> QED BY <1>1, <1>4, <1>5, <1>6

\* A commit that no load overlaps.
LEMMA CCommit ==
  ASSUME CInv, Tables', UNCHANGED <<flight, fill, key, dels>>,
         raced \/ Loading => raced',
         \/ raced' \/ dels > 0 \/ SomeOwed'
         \/ /\ \A r \in member : role'[r] = role[r]
            /\ member' = member /\ lookups \subseteq lookups'
  PROVE  CInv'
<1>1. Cached'
  BY DEF CInv, Cached
<1>2. CASE raced'
  BY <1>1, <1>2 DEF CInv, CacheInv
<1>3. CASE ~raced'
  <2>1. /\ key.set \ {None} \subseteq Granted(role, member) \/ dels > 0 \/ SomeOwed
        /\ LoadsFresh /\ ~Loading
    BY <1>3 DEF CInv, CacheInv
  <2>2. LoadsFresh'
    BY <2>1 DEF LoadsFresh, Loading
  <2>3. CASE /\ \A r \in member : role'[r] = role[r]
             /\ member' = member /\ lookups \subseteq lookups'
    <3>1. Granted(role', member) = Granted(role, member)
      BY <2>3, SameTables, Zenon
    <3>2. SomeOwed => SomeOwed'
      BY <2>3 DEF SomeOwed, Owed
    <3> QED BY <1>1, <2>1, <2>2, <2>3, <3>1, <3>2 DEF CInv, CacheInv
  <2>4. CASE dels > 0 \/ SomeOwed'
    BY <1>1, <2>2, <2>4 DEF CInv, CacheInv
  <2> QED BY <1>3, <2>3, <2>4
<1> QED BY <1>2, <1>3

LEMMA CNext ==
  ASSUME CInv, [Next]_vars
  PROVE  CInv'
<1>0. /\ Tables /\ dels \in Nat
      /\ \A u \in updating : u.i \in Instances /\ u.r \in Roles
  BY DEF CInv, Cached, Tables
<1>1. CASE UNCHANGED vars
  <2>1. UNCHANGED <<role, member, updating, flight, fill, key, dels, lookups, raced>>
    BY <1>1 DEF vars, tables, redis, requests
  <2>2. SomeOwed => SomeOwed'
    BY <2>1 DEF SomeOwed, Owed
  <2> QED BY <1>0, <2>1, <2>2, CQuiet
<1>2. CASE \E i \in Instances :
             \/ Login(i) \/ LoginDepts(i) \/ LoginReturns(i) \/ ScopeExpires(i)
             \/ \E r \in Roles, s \in {0, 1} : updateRole(i, r, s)
  <2>1. /\ UNCHANGED <<role, member, flight, fill, key, dels, raced>> /\ lookups \subseteq lookups'
    BY <1>2 DEF Login, LoginDepts, LoginReturns, ScopeExpires, updateRole, tables, redis, requests
  <2>2. \A u \in updating' : u.i \in Instances /\ u.r \in Roles
    BY <1>0, <1>2 DEF Login, LoginDepts, LoginReturns, ScopeExpires, updateRole, tables
  <2>3. SomeOwed => SomeOwed'
    BY <2>1 DEF SomeOwed, Owed
  <2> QED BY <1>0, <2>1, <2>2, <2>3, CQuiet
<1>3. ASSUME NEW i \in Instances,
             \/ \E q \in Requests : Check(i, q) \/ CheckWithoutRedis(i, q)
             \/ Select(i) \/ SelectReturns(i) \/ SelectFails(i)
      PROVE  CInv'
  BY <1>3, CSelect
<1>4. ASSUME NEW i \in Instances,
             \/ FillDel(i) \/ FillDelFails(i) \/ FillExpire(i)
             \/ \E p \in Perms \cup {None} : FillAdd(i, p)
      PROVE  CInv'
  BY <1>4, CFill
<1>5. ASSUME NEW i \in Instances,
             \/ Assigned(i)
             \/ \E r \in Roles : RoleUsers(i, r) \/ RoleUsersFails(i, r)
      PROVE  CInv'
  BY <1>5, CInvalidate
<1>6. CASE Expire
  <2>1. UNCHANGED <<role, member, updating, flight, fill, dels, lookups, raced>> /\ key' = NoKey
    BY <1>6 DEF Expire, tables, requests
  <2> QED BY <1>0, <2>1, CQuiet
<1>7. CASE Del
  <2>1. /\ UNCHANGED <<role, member, updating, flight, fill, lookups>>
        /\ dels' \in Nat /\ key' \in {key, NoKey}
    BY <1>0, <1>7 DEF Del, tables, requests
  <2>2. CASE key' = NoKey /\ raced' = raced
    BY <1>0, <2>1, <2>2, CQuiet
  <2>3. CASE raced' = TRUE
    <3>1. raced'
      BY <2>3, Zenon
    <3> QED BY <1>0, <2>1, <3>1, CQuiet
  <2> QED BY <1>7, <2>2, <2>3 DEF Del
<1>8. ASSUME NEW i \in Instances, NEW ms \in SUBSET Roles, assignRoles(i, ms)
      PROVE  CInv'
  <2>1. /\ member' = ms /\ UNCHANGED <<role, updating, flight, fill, key, dels>>
        /\ lookups' = lookups \cup {<<i, TheUser>>}
    BY <1>8 DEF assignRoles, redis, requests
  <2>2. Tables' /\ SomeOwed'
    BY <1>0, <2>1 DEF Tables, SomeOwed, Owed
  <2>3. raced \/ Loading => raced'
    BY <1>8, Zenon DEF assignRoles
  <2> QED BY <2>1, <2>2, <2>3, CCommit
<1>9. ASSUME NEW i \in Instances, NEW r \in Roles, NEW row, RoleChange(i, r, row)
      PROVE  CInv'
  <2>1. /\ Tables' /\ member' = member /\ lookups \subseteq lookups'
        /\ Owed(i)' \/ \A p \in member : role'[p] = role[p]
        /\ raced' = (raced \/ Loading)
    BY <1>0, <1>9, RoleChanges, Zenon
  <2>2. UNCHANGED <<flight, fill, key, dels>>
    BY <1>9 DEF RoleChange, redis, requests
  <2>3. raced \/ Loading => raced'
    BY <2>1, Zenon
  <2>4. Owed(i)' => SomeOwed'
    BY DEF SomeOwed
  <2> QED BY <2>1, <2>2, <2>3, <2>4, CCommit
<1>10. ASSUME NEW u \in updating, UpdateRoleCommits(u)
       PROVE  CInv'
  <2>1. /\ updating' = updating \ {u} /\ member' = member /\ lookups' = lookups
        /\ UNCHANGED <<flight, fill, key, dels>>
        /\ role' = [role EXCEPT ![u.r].status = IF role[u.r].deleted THEN @ ELSE u.status]
    BY <1>10 DEF UpdateRoleCommits, redis, requests
  <2>2. u.i \in Instances /\ u.r \in Roles
    BY <1>0
  <2>3. Tables' /\ \A p \in Roles \ {u.r} : role'[p] = role[p]
    BY <1>0, <2>1, <2>2 DEF Tables
  <2>4. /\ raced \/ Loading => raced'
        /\ raced' \/ <<u.i, u.r>> \in lookups \/ dels # 0
    BY <1>10, Zenon DEF UpdateRoleCommits
  <2>5. CASE u.r \in member
    <3>1. <<u.i, u.r>> \in lookups => SomeOwed'
      BY <2>1, <2>2, <2>5 DEF SomeOwed, Owed
    <3>2. raced' \/ dels > 0 \/ SomeOwed'
      BY <1>0, <2>4, <3>1
    <3> QED BY <2>1, <2>3, <2>4, <3>2, CCommit
  <2>6. CASE u.r \notin member
    <3>1. \A p \in member : role'[p] = role[p]
      BY <1>0, <2>3, <2>6 DEF Tables
    <3> QED BY <2>1, <2>3, <2>4, <3>1, CCommit
  <2> QED BY <2>5, <2>6
<1>11. CASE Next
  <2>1. CASE Redis
    BY <1>4, <1>7, <2>1 DEF Redis
  <2>2. CASE Callbacks
    BY <1>2, <1>3, <1>5, <2>2 DEF Callbacks
  <2>3. CASE Administration
    BY <1>2, <1>8, <1>9, <2>3, Administrates DEF Administration
  <2>4. CASE \E u \in updating : UpdateRoleCommits(u)
    BY <1>10, <2>4
  <2>5. CASE \E i \in Instances :
               \/ \E q \in Requests : Check(i, q) \/ CheckWithoutRedis(i, q)
               \/ SelectFails(i) \/ FillDelFails(i)
               \/ Login(i) \/ ScopeExpires(i)
               \/ \E r \in Roles : RoleUsersFails(i, r)
    BY <1>2, <1>3, <1>4, <1>5, <2>5
  <2> QED BY <1>6, <1>11, <2>1, <2>2, <2>3, <2>4, <2>5 DEF Next
<1> QED BY <1>1, <1>11

\* Once every invalidation is sent and done, the key grants nothing that the
\* tables do not, unless one came too early or failed.
THEOREM RevocationReaches == Spec => []RevocationReachesCache
<1>1. CInv => RevocationReachesCache
  BY DEF CInv, CacheInv, RevocationReachesCache, SomeOwed, Owed
<1> QED BY <1>1, InitCInv, CNext, PTL DEF Spec
-----------------------------------------------------------------------------
(* Waiting requests *)

Waiting == {q \in Requests : answer[q] = "waiting"}
Mute == {q \in Requests : answer[q] = "mute"}

\* A load under way has the requests that wait for it, each request waits for
\* one load, and who waits is waiting for one.
WaitInv ==
  /\ DOMAIN answer = Requests
  /\ DOMAIN flight = Instances
  /\ \A i \in Instances :
       /\ DOMAIN flight[i] = {"stage", "waiters", "mute", "perms"}
       /\ flight[i].stage \in {"idle", "sent", "ran"}
       /\ flight[i].waiters \subseteq Waiting /\ flight[i].mute \subseteq Mute
       /\ flight[i].stage = "idle" => flight[i].waiters = {} /\ flight[i].mute = {}
  /\ \A i, j \in Instances : i # j =>
       /\ flight[i].waiters \cap flight[j].waiters = {}
       /\ flight[i].mute \cap flight[j].mute = {}
  /\ \A q \in Waiting : \E i \in Instances : q \in flight[i].waiters
  /\ \A q \in Mute : \E i \in Instances : q \in flight[i].mute

\* A request joins the load of an instance.
LEMMA Waits ==
  ASSUME WaitInv, NEW i \in Instances, NEW q \in Requests, Check(i, q)
  PROVE  WaitInv'
<1>1. CASE flight' = flight /\ answer' = [answer EXCEPT ![q] = Verdict(key.set \ {None})]
  <2>1. answer[q] = "new" /\ Verdict(key.set \ {None}) \in {"passed", "denied"}
    BY DEF Check, Verdict
  <2>2. Waiting' = Waiting /\ Mute' = Mute /\ DOMAIN answer' = Requests
    BY <1>1, <2>1 DEF WaitInv, Waiting, Mute
  <2> QED BY <1>1, <2>2 DEF WaitInv
<1>2. CASE answer' = [answer EXCEPT ![q] = "waiting"] /\ Join(i, q, "waiters")
  <2>1. answer[q] = "new"
    BY DEF Check
  <2>2. /\ Waiting' = Waiting \cup {q} /\ Mute' = Mute /\ DOMAIN answer' = Requests
        /\ q \notin Waiting
    BY <1>2, <2>1 DEF WaitInv, Waiting, Mute
  <2>3. /\ DOMAIN flight' = Instances /\ DOMAIN flight'[i] = DOMAIN flight[i]
        /\ \A j \in Instances \ {i} : flight'[j] = flight[j]
        /\ flight'[i].stage \in {"sent", "ran"}
        /\ flight'[i].waiters = flight[i].waiters \cup {q}
        /\ flight'[i].mute = flight[i].mute
    BY <1>2 DEF Join, WaitInv
  <2>4. \A j \in Instances : q \notin flight[j].waiters
    BY <2>2 DEF WaitInv
  <2>5. \A j, k \in Instances : j # k =>
          /\ flight'[j].waiters \cap flight'[k].waiters = {}
          /\ flight'[j].mute \cap flight'[k].mute = {}
    BY <2>3, <2>4 DEF WaitInv
  <2>6. \A p \in Waiting' : \E j \in Instances : p \in flight'[j].waiters
    <3> SUFFICES ASSUME NEW p \in Waiting' PROVE \E j \in Instances : p \in flight'[j].waiters
      OBVIOUS
    <3>1. CASE p = q
      BY <2>3, <3>1
    <3>2. CASE p # q
      <4>1. PICK j \in Instances : p \in flight[j].waiters
        BY <2>2, <3>2 DEF WaitInv
      <4>2. p \in flight'[j].waiters
        BY <2>3, <4>1
      <4> QED BY <4>2
    <3> QED BY <3>1, <3>2
  <2>7. \A j \in Instances :
          /\ DOMAIN flight'[j] = {"stage", "waiters", "mute", "perms"}
          /\ flight'[j].stage \in {"idle", "sent", "ran"}
          /\ flight'[j].waiters \subseteq Waiting' /\ flight'[j].mute \subseteq Mute'
          /\ flight'[j].stage = "idle" => flight'[j].waiters = {} /\ flight'[j].mute = {}
    BY <2>2, <2>3 DEF WaitInv
  <2>8. \A p \in Mute' : \E j \in Instances : p \in flight'[j].mute
    BY <2>2, <2>3 DEF WaitInv
  <2> QED BY <2>2, <2>3, <2>5, <2>6, <2>7, <2>8 DEF WaitInv
<1> QED BY <1>1, <1>2 DEF Check

\* A request whose lookup in Redis failed joins as well.
LEMMA Mutes ==
  ASSUME WaitInv, NEW i \in Instances, NEW q \in Requests, CheckWithoutRedis(i, q)
  PROVE  WaitInv'
<1>1. answer[q] = "new" /\ answer' = [answer EXCEPT ![q] = "mute"] /\ Join(i, q, "mute")
  BY DEF CheckWithoutRedis
<1>2. /\ Waiting' = Waiting /\ Mute' = Mute \cup {q} /\ DOMAIN answer' = Requests
      /\ q \notin Mute
  BY <1>1 DEF WaitInv, Waiting, Mute
<1>3. /\ DOMAIN flight' = Instances /\ DOMAIN flight'[i] = DOMAIN flight[i]
      /\ \A j \in Instances \ {i} : flight'[j] = flight[j]
      /\ flight'[i].stage \in {"sent", "ran"}
      /\ flight'[i].waiters = flight[i].waiters
      /\ flight'[i].mute = flight[i].mute \cup {q}
  BY <1>1 DEF Join, WaitInv
<1>4. \A j \in Instances : q \notin flight[j].mute /\ flight'[j].waiters = flight[j].waiters
  BY <1>2, <1>3 DEF WaitInv
<1>5. \A j, k \in Instances : j # k =>
        /\ flight'[j].waiters \cap flight'[k].waiters = {}
        /\ flight'[j].mute \cap flight'[k].mute = {}
  BY <1>3, <1>4 DEF WaitInv
<1>6. \A j \in Instances :
        /\ DOMAIN flight'[j] = {"stage", "waiters", "mute", "perms"}
        /\ flight'[j].stage \in {"idle", "sent", "ran"}
        /\ flight'[j].waiters \subseteq Waiting' /\ flight'[j].mute \subseteq Mute'
        /\ flight'[j].stage = "idle" => flight'[j].waiters = {} /\ flight'[j].mute = {}
  BY <1>2, <1>3 DEF WaitInv
<1>7. \A p \in Waiting' : \E j \in Instances : p \in flight'[j].waiters
  BY <1>2, <1>4 DEF WaitInv
<1>8. ASSUME NEW p \in Mute' PROVE \E j \in Instances : p \in flight'[j].mute
  <2>1. CASE p = q
    BY <1>3, <2>1
  <2>2. CASE p # q
    <3>1. PICK j \in Instances : p \in flight[j].mute
      BY <1>2, <2>2 DEF WaitInv
    <3>2. p \in flight'[j].mute
      BY <1>3, <3>1
    <3> QED BY <3>2
  <2> QED BY <2>1, <2>2
<1> QED BY <1>2, <1>3, <1>5, <1>6, <1>7, <1>8 DEF WaitInv

\* A load that ends takes those who waited for it out, and nobody else.
LEMMA WaitsEnd ==
  ASSUME WaitInv, NEW i \in Instances, flight' = [flight EXCEPT ![i] = Idle],
         DOMAIN answer' = Requests,
         \A q \in flight[i].waiters : answer'[q] \in {"passed", "denied", "failed"},
         \A q \in Requests \ (flight[i].waiters \cup flight[i].mute) : answer'[q] = answer[q],
         \A q \in flight[i].mute : answer'[q] \in {"dropped", "failed"}
  PROVE  WaitInv'
<1>1. flight'[i] = Idle /\ \A j \in Instances \ {i} : flight'[j] = flight[j]
  BY DEF WaitInv
<1>2. DOMAIN flight' = Instances
  BY DEF WaitInv
<1>3. flight[i].waiters \subseteq Waiting /\ flight[i].mute \subseteq Mute
  BY DEF WaitInv
<1>4. Waiting' = Waiting \ flight[i].waiters
  BY <1>3 DEF Waiting, Mute
<1>5. Mute' = Mute \ flight[i].mute
  BY <1>3 DEF Waiting, Mute
<1>6. ASSUME NEW j \in Instances
      PROVE  /\ DOMAIN flight'[j] = {"stage", "waiters", "mute", "perms"}
             /\ flight'[j].stage \in {"idle", "sent", "ran"}
             /\ flight'[j].waiters \subseteq Waiting' /\ flight'[j].mute \subseteq Mute'
             /\ flight'[j].stage = "idle" => flight'[j].waiters = {} /\ flight'[j].mute = {}
  <2>1. CASE j = i
    BY <1>1, <2>1 DEF Idle
  <2>2. CASE j # i
    <3>1. /\ flight'[j] = flight[j]
          /\ flight[j].waiters \cap flight[i].waiters = {}
          /\ flight[j].mute \cap flight[i].mute = {}
      BY <1>1, <2>2 DEF WaitInv
    <3> QED BY <1>4, <1>5, <3>1 DEF WaitInv
  <2> QED BY <2>1, <2>2
<1>7. \A j, k \in Instances : j # k =>
        /\ flight'[j].waiters \cap flight'[k].waiters = {}
        /\ flight'[j].mute \cap flight'[k].mute = {}
  <2>1. Idle.waiters = {} /\ Idle.mute = {}
    BY DEF Idle
  <2> QED BY <1>1, <2>1 DEF WaitInv
<1>8. ASSUME NEW p \in Waiting' PROVE \E j \in Instances : p \in flight'[j].waiters
  <2>1. PICK j \in Instances : p \in flight[j].waiters
    BY <1>4 DEF WaitInv
  <2>2. j # i
    BY <1>4, <2>1
  <2> QED BY <1>1, <2>1, <2>2
<1>9. ASSUME NEW p \in Mute' PROVE \E j \in Instances : p \in flight'[j].mute
  <2>1. PICK j \in Instances : p \in flight[j].mute
    BY <1>5 DEF WaitInv
  <2>2. j # i
    BY <1>5, <2>1
  <2> QED BY <1>1, <2>1, <2>2
<1> QED BY <1>2, <1>6, <1>7, <1>8, <1>9 DEF WaitInv

LEMMA WaitsAnswered ==
  ASSUME WaitInv, NEW i \in Instances, SelectReturns(i) \/ SelectFails(i)
  PROVE  WaitInv'
<1>1. flight' = [flight EXCEPT ![i] = Idle]
  BY DEF SelectReturns, SelectFails
<1>2. flight[i].waiters \subseteq Requests /\ flight[i].mute \subseteq Requests
  BY DEF WaitInv, Waiting, Mute
<1>3. flight[i].mute \subseteq Mute /\ flight[i].waiters \subseteq Waiting
  BY DEF WaitInv
<1>4. CASE SelectReturns(i)
  <2>1. answer' = [q \in Requests |-> IF q \in flight[i].waiters THEN Verdict(flight[i].perms)
                                      ELSE IF q \in flight[i].mute THEN "dropped" ELSE answer[q]]
    BY <1>4 DEF SelectReturns
  <2>2. Verdict(flight[i].perms) \in {"passed", "denied"}
    BY DEF Verdict
  <2>3. \A q \in flight[i].mute : answer'[q] = "dropped"
    BY <1>2, <1>3, <2>1 DEF Waiting, Mute
  <2> QED BY <1>1, <1>2, <2>1, <2>2, <2>3, WaitsEnd
<1>5. CASE SelectFails(i)
  <2>1. answer' = [q \in Requests |-> IF q \in flight[i].mute \cup flight[i].waiters
                                      THEN "failed" ELSE answer[q]]
    BY <1>5 DEF SelectFails
  <2> QED BY <1>1, <1>2, <2>1, WaitsEnd
<1> QED BY <1>4, <1>5

LEMMA WaitsSelect ==
  ASSUME WaitInv, NEW i \in Instances, Select(i)
  PROVE  WaitInv'
<1>1. /\ flight' = [flight EXCEPT ![i].stage = "ran", ![i].perms = Granted(role, member)]
      /\ answer' = answer
  BY DEF Select
<1>2. /\ DOMAIN flight' = Instances /\ Waiting' = Waiting /\ Mute' = Mute
      /\ \A j \in Instances :
           /\ DOMAIN flight'[j] = DOMAIN flight[j]
           /\ flight'[j].waiters = flight[j].waiters /\ flight'[j].mute = flight[j].mute
           /\ flight'[j].stage \in {flight[j].stage, "ran"}
  BY <1>1 DEF WaitInv, Waiting, Mute
<1> QED BY <1>1, <1>2 DEF WaitInv

LEMMA WaitNext == WaitInv /\ [Next]_vars => WaitInv'
<1> SUFFICES ASSUME WaitInv, [Next]_vars PROVE WaitInv'
  OBVIOUS
<1>1. CASE UNCHANGED requests
  BY <1>1 DEF requests, WaitInv, Waiting, Mute
<1>2. ASSUME NEW i \in Instances
      PROVE  /\ \A q \in Requests : Check(i, q) \/ CheckWithoutRedis(i, q) => WaitInv'
             /\ Select(i) \/ SelectReturns(i) \/ SelectFails(i) => WaitInv'
  BY Waits, Mutes, WaitsSelect, WaitsAnswered
<1>3. CASE Redis \/ Expire
  BY <1>1, <1>3 DEF Redis, Expire, Del, FillDel, FillExpire, FillAdd
<1>4. CASE Callbacks
  BY <1>1, <1>2, <1>4 DEF Callbacks, LoginDepts, LoginReturns, Assigned, RoleUsers
<1>5. CASE Administration
  BY <1>1, <1>5 DEF Administration, assignRoles, assignPermissions, updateDataScope,
     updateRole, deleteRole, RoleChange
<1>6. CASE \E u \in updating : UpdateRoleCommits(u)
  BY <1>1, <1>6 DEF UpdateRoleCommits
<1>7. CASE \E i \in Instances :
             \/ \E q \in Requests : Check(i, q) \/ CheckWithoutRedis(i, q)
             \/ SelectFails(i) \/ FillDelFails(i)
             \/ Login(i) \/ ScopeExpires(i)
             \/ \E r \in Roles : RoleUsersFails(i, r)
  BY <1>1, <1>2, <1>7 DEF FillDelFails, Login, ScopeExpires, RoleUsersFails
<1>8. CASE UNCHANGED vars
  BY <1>1, <1>8 DEF vars
<1> QED BY <1>3, <1>4, <1>5, <1>6, <1>7, <1>8 DEF Next

LEMMA WaitInit == Init => WaitInv
<1> SUFFICES ASSUME Init PROVE WaitInv
  OBVIOUS
<1>1. flight = [i \in Instances |-> Idle] /\ answer = [q \in Requests |-> "new"]
  BY DEF Init
<1> QED BY <1>1 DEF WaitInv, Waiting, Mute, Idle

\* Who waits for a load has one under way that will answer it; a request whose
\* lookup in Redis failed has one that will drop it, or fail it: a load that
\* ends leaves nobody behind (RbacService.cc, loadFromDb).
WaiterHasLoad ==
  \A q \in Requests : answer[q] \in {"waiting", "mute"} =>
    \E i \in Instances :
      /\ flight[i].stage \in {"sent", "ran"}
      /\ q \in IF answer[q] = "mute" THEN flight[i].mute ELSE flight[i].waiters

\* An answer is given once: no callback of a request runs a second time,
\* whatever loads and failures it went through.
AnswersStay ==
  \A q \in Requests : answer[q] \in {"passed", "denied", "failed"} => answer'[q] = answer[q]
AnsweredOnce == [][AnswersStay]_vars

\* The safety half of WaiterAnswered.
THEOREM NobodyWaitsInVain == Spec => []WaiterHasLoad
<1>1. WaitInv => WaiterHasLoad
  <2> SUFFICES ASSUME WaitInv, NEW q \in Requests, answer[q] \in {"waiting", "mute"}
               PROVE  \E i \in Instances :
                        /\ flight[i].stage \in {"sent", "ran"}
                        /\ q \in IF answer[q] = "mute" THEN flight[i].mute ELSE flight[i].waiters
    BY DEF WaiterHasLoad
  <2>1. PICK i \in Instances :
          q \in IF answer[q] = "mute" THEN flight[i].mute ELSE flight[i].waiters
    BY DEF WaitInv, Waiting, Mute
  <2>2. flight[i].stage # "idle" /\ flight[i].stage \in {"idle", "sent", "ran"}
    BY <2>1 DEF WaitInv
  <2> QED BY <2>1, <2>2
<1> QED BY <1>1, WaitInit, WaitNext, PTL DEF Spec

\* A request is answered once.
THEOREM Once == Spec => AnsweredOnce
<1>1. ASSUME WaitInv, [Next]_vars PROVE AnswersStay
  <2>1. CASE answer' = answer
    BY <2>1 DEF AnswersStay
  <2>2. ASSUME NEW i \in Instances, NEW q \in Requests, Check(i, q) \/ CheckWithoutRedis(i, q)
        PROVE  AnswersStay
    <3>1. answer[q] = "new" /\ \A p \in Requests \ {q} : answer'[p] = answer[p]
      BY <1>1, <2>2 DEF Check, CheckWithoutRedis, WaitInv
    <3> QED BY <3>1 DEF AnswersStay
  <2>3. ASSUME NEW i \in Instances, SelectReturns(i) \/ SelectFails(i)
        PROVE  AnswersStay
    <3>1. flight[i].waiters \subseteq Waiting /\ flight[i].mute \subseteq Mute
      BY <1>1 DEF WaitInv
    <3>2. \A p \in Requests \ (flight[i].waiters \cup flight[i].mute) : answer'[p] = answer[p]
      BY <2>3 DEF SelectReturns, SelectFails
    <3> QED BY <3>1, <3>2 DEF AnswersStay, Waiting, Mute
  <2>4. CASE Redis \/ Expire
    BY <2>1, <2>4 DEF Redis, Expire, Del, FillDel, FillExpire, FillAdd, requests
  <2>5. CASE Callbacks
    BY <2>1, <2>3, <2>5 DEF Callbacks, Select, LoginDepts, LoginReturns, Assigned, RoleUsers,
       requests
  <2>6. CASE Administration
    BY <2>1, <2>6 DEF Administration, assignRoles, assignPermissions, updateDataScope,
       updateRole, deleteRole, RoleChange, requests
  <2>7. CASE \E u \in updating : UpdateRoleCommits(u)
    BY <2>1, <2>7 DEF UpdateRoleCommits, requests
  <2>8. CASE \E i \in Instances :
               \/ \E q \in Requests : Check(i, q) \/ CheckWithoutRedis(i, q)
               \/ SelectFails(i) \/ FillDelFails(i)
               \/ Login(i) \/ ScopeExpires(i)
               \/ \E r \in Roles : RoleUsersFails(i, r)
    BY <2>1, <2>2, <2>3, <2>8 DEF FillDelFails, Login, ScopeExpires, RoleUsersFails, requests
  <2>9. CASE UNCHANGED vars
    BY <2>1, <2>9 DEF vars, requests
  <2> QED BY <1>1, <2>4, <2>5, <2>6, <2>7, <2>8, <2>9 DEF Next
<1> QED BY <1>1, WaitInit, WaitNext, PTL DEF Spec, AnsweredOnce
=============================================================================
