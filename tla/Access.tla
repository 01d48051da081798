------------------------------- MODULE Access -------------------------------
(***************************************************************************)
(* The permissions and the data scope of one user: the tables, the caches  *)
(* (services/RbacService.cc), the check in front of every request          *)
(* (middlewares/CrossCutting.cc:104-155) and the administration that       *)
(* changes them (services/SystemService.cc).  Users do not share cache     *)
(* entries, so the module follows one.                                     *)
(*                                                                         *)
(* The permission cache is a Redis set shared by all instances.  A miss    *)
(* reads the database once per instance, answers all who wait and fills    *)
(* the set: DEL, and once that is answered one SADD per member and EXPIRE, *)
(* each on whichever connection is next, hence in any order.  The data     *)
(* scope is cached in each process.  Changes are committed first and then  *)
(* invalidate both, except that updateRole does not wait for its COMMIT.   *)
(***************************************************************************)
EXTENDS Integers, FiniteSets, FiniteSetsExt

CONSTANTS
  Roles, Perms, Depts, Instances, Requests,
  TheUser,     \* stands for the user itself where a role may stand
  Needed,      \* the permission the route of a request needs
  None,        \* kEmptyPermSentinel
  Scopes,      \* values of data_scope an administrator sets, of 1 .. 5
  MaxChanges, MaxFailures, MaxDels, MaxLogins  \* bounds

ASSUME ParametersAssumption ==
  /\ Needed \in Perms /\ None \notin Perms /\ TheUser \notin Roles
  /\ Scopes \subseteq 1 .. 5
  /\ {MaxChanges, MaxFailures, MaxDels, MaxLogins} \subseteq Nat

VARIABLES
  role,      \* role[r]: its rows in sys_roles and the tables beside it
  member,    \* roles of the user in sys_user_roles
  updating,  \* role updates not committed yet, as [i, r, status]
  key,       \* perm:user:{id} in Redis: its members, and whether it expires
  flight,    \* flight[i]: the load under way in i and who waits for it
  fill,      \* fill[i]: the commands of i that fill the key
  dels,      \* DELs of invalidations under way
  lookups,   \* <<i, r>>: invalidations i has still to send, for holders of r
  answer,    \* answer[q]: how far request q is
  scope,     \* scope[i]: g_scopeCache of i
  login,     \* login[i]: the scope being loaded in i
  raced,     \* history: an invalidation of the key came too early or failed
  changes, failures, logins \* bounded

tables == <<role, member, updating>>
redis == <<key, fill>>
scopes == <<scope, login>>
requests == <<flight, answer>>
vars == <<tables, redis, dels, lookups, requests, scopes, raced, changes, failures, logins>>

\* In scopes "old" is history: a change came since that no invalidation of
\* this instance covers.
Idle == [stage |-> "idle", waiters |-> {}, mute |-> {}, perms |-> {}]
NoFill == [stage |-> "idle", left |-> {}, expire |-> FALSE]
NoScope == [scope |-> 0, depts |-> {}, old |-> FALSE]
NoLogin == [stage |-> "idle", res |-> NoScope]
NoKey == [set |-> {}, ttl |-> FALSE]

Live(row) == row.status = 1 /\ ~row.deleted

\* The query of doLoadFromDb.
Granted(rows, ms) == UNION {rows[r].perms : r \in {r \in ms : Live(rows[r])}}

\* 4 wins; a custom scope counts only when there is no other.
mergeDataScope(ss) ==
  IF 4 \in ss THEN 4
  ELSE IF ss \ {5} # {} THEN Max(ss \ {5})
  ELSE IF ss = {} THEN 1 ELSE 5

Merged(rows, ms) == mergeDataScope({rows[r].scope : r \in {r \in ms : Live(rows[r])}})

\* The second query: it does not ask whether the role is deleted.
CustomDepts(rows, ms) ==
  UNION {rows[r].depts : r \in {r \in ms : rows[r].scope = 5 /\ rows[r].status = 1}}

FirstRead(rows, ms) == [scope |-> Merged(rows, ms), depts |-> {}, old |-> FALSE]

ScopeOf(rows, ms) ==
  [FirstRead(rows, ms) EXCEPT !.depts = IF Merged(rows, ms) = 5 THEN CustomDepts(rows, ms) ELSE {}]
-----------------------------------------------------------------------------
Init ==
  /\ role = [r \in Roles |->
               [status |-> 1, deleted |-> FALSE, perms |-> Perms, scope |-> 1, depts |-> {}]]
  /\ member \in SUBSET Roles
  /\ updating = {}
  /\ key = NoKey
  /\ flight = [i \in Instances |-> Idle]
  /\ fill = [i \in Instances |-> NoFill]
  /\ dels = 0
  /\ lookups = {}
  /\ answer = [q \in Requests |-> "new"]
  /\ scope = [i \in Instances |-> NoScope]
  /\ login = [i \in Instances |-> NoLogin]
  /\ raced = FALSE
  /\ changes = 0 /\ failures = 0 /\ logins = 0

Fails ==
  /\ failures < MaxFailures
  /\ failures' = failures + 1

(* A request *)

Verdict(perms) == IF Needed \in perms THEN "passed" ELSE "denied"

\* Mutant: whoever finds a load under way starts one of its own.
JoinMutant(i, q, as) ==
  flight' = [flight EXCEPT ![i] = [Idle EXCEPT !.stage = "sent", ![as] = {q}]]

\* loadFromDb: the first in sends the query, the others wait for it.
Join(i, q, as) ==
  flight' = [flight EXCEPT ![i].stage = IF @ = "idle" THEN "sent" ELSE @,
                           ![i][as] = @ \cup {q}]

\* rbacCheck and getUserPermissionsAsync.
Check(i, q) ==
  /\ answer[q] = "new"
  /\ IF key.set # {}
     THEN /\ answer' = [answer EXCEPT ![q] = Verdict(key.set \ {None})]
          /\ UNCHANGED flight
     ELSE /\ answer' = [answer EXCEPT ![q] = "waiting"]
          /\ Join(i, q, "waiters")
  /\ UNCHANGED <<tables, redis, dels, lookups, scopes, raced, changes, failures, logins>>

\* Redis fails: the database is asked with a callback that answers nobody.
CheckWithoutRedis(i, q) ==
  /\ answer[q] = "new"
  /\ Fails
  /\ answer' = [answer EXCEPT ![q] = "mute"]
  /\ Join(i, q, "mute")
  /\ UNCHANGED <<tables, redis, dels, lookups, scopes, raced, changes, logins>>

\* The database runs the query of the load,
Select(i) ==
  /\ flight[i].stage = "sent"
  /\ flight' = [flight EXCEPT ![i].stage = "ran", ![i].perms = Granted(role, member)]
  /\ UNCHANGED <<tables, redis, dels, lookups, answer, scopes, raced, changes, failures, logins>>

\* and its result is back: all are answered but those who came without Redis,
\* whose callback throws the result away, and the key is filled.  One fill of
\* an instance at a time.
SelectReturns(i) ==
  /\ flight[i].stage = "ran"
  /\ fill[i] = NoFill
  /\ LET f == flight[i]
     IN  /\ fill' = [fill EXCEPT ![i] =
                       [stage |-> "del", expire |-> TRUE,
                        left |-> IF f.perms = {} THEN {None} ELSE f.perms]]
         /\ answer' = [q \in Requests |->
                         IF q \in f.waiters THEN Verdict(f.perms)
                         ELSE IF q \in f.mute THEN "dropped" ELSE answer[q]]
  /\ flight' = [flight EXCEPT ![i] = Idle]
  /\ UNCHANGED <<tables, key, dels, lookups, scopes, raced, changes, failures, logins>>

SelectFails(i) ==
  /\ flight[i].stage = "sent"
  /\ Fails
  /\ answer' = [q \in Requests |->
                  IF q \in flight[i].mute \cup flight[i].waiters THEN "failed" ELSE answer[q]]
  /\ flight' = [flight EXCEPT ![i] = Idle]
  /\ UNCHANGED <<tables, redis, dels, lookups, scopes, raced, changes, logins>>
-----------------------------------------------------------------------------
(* Redis *)

FillDel(i) ==
  /\ fill[i].stage = "del"
  /\ key' = NoKey
  /\ fill' = [fill EXCEPT ![i].stage = "add"]
  /\ UNCHANGED <<tables, dels, lookups, requests, scopes, raced, changes, failures, logins>>

FillDelFails(i) ==
  /\ fill[i].stage = "del"
  /\ Fails
  /\ fill' = [fill EXCEPT ![i] = NoFill]
  /\ UNCHANGED <<tables, key, dels, lookups, requests, scopes, raced, changes, logins>>

Rest(f, p) ==
  IF f.left = {p} /\ ~f.expire THEN NoFill ELSE [f EXCEPT !.left = @ \ {p}]

FillAdd(i, p) ==
  /\ fill[i].stage = "add" /\ p \in fill[i].left
  /\ \/ key' = [key EXCEPT !.set = @ \cup {p}] /\ UNCHANGED failures
     \/ Fails /\ UNCHANGED key
  /\ fill' = [fill EXCEPT ![i] = Rest(@, p)]
  /\ UNCHANGED <<tables, dels, lookups, requests, scopes, raced, changes, logins>>

\* EXPIRE on a key that does not exist yet does nothing.
FillExpire(i) ==
  /\ fill[i].stage = "add" /\ fill[i].expire
  /\ \/ key' = [key EXCEPT !.ttl = key.set # {}] /\ UNCHANGED failures
     \/ Fails /\ UNCHANGED key
  /\ fill' = [fill EXCEPT ![i] = IF @.left = {} THEN NoFill ELSE [@ EXCEPT !.expire = FALSE]]
  /\ UNCHANGED <<tables, dels, lookups, requests, scopes, raced, changes, logins>>

Expire ==
  /\ key.ttl
  /\ key' = NoKey
  /\ UNCHANGED <<tables, fill, dels, lookups, requests, scopes, raced, changes, failures, logins>>

Del ==
  /\ dels > 0
  /\ dels' = dels - 1
  /\ \/ key' = NoKey /\ UNCHANGED <<raced, failures>>
     \/ Fails /\ raced' = TRUE /\ UNCHANGED key
  /\ UNCHANGED <<tables, fill, lookups, requests, scopes, changes, logins>>
-----------------------------------------------------------------------------
(* The data scope, loaded when tokens are issued *)

\* A miss: the first query is sent.  One load of an instance at a time.
Login(i) ==
  /\ logins < MaxLogins
  /\ logins' = logins + 1
  /\ scope[i] = NoScope /\ login[i] = NoLogin
  /\ login' = [login EXCEPT ![i] = [stage |-> "read", res |-> FirstRead(role, member)]]
  /\ UNCHANGED <<tables, redis, dels, lookups, requests, scope, raced, changes, failures>>

\* It returned 5: the departments are read in a second query.
LoginDepts(i) ==
  /\ login[i].stage = "read" /\ login[i].res.scope = 5
  /\ login' = [login EXCEPT ![i].stage = "depts", ![i].res.depts = CustomDepts(role, member)]
  /\ UNCHANGED <<tables, redis, dels, lookups, requests, scope, raced, changes, failures, logins>>

LoginReturns(i) ==
  /\ login[i].stage = "depts" \/ (login[i].stage = "read" /\ login[i].res.scope # 5)
  /\ scope' = [scope EXCEPT ![i] = login[i].res]
  /\ login' = [login EXCEPT ![i] = NoLogin]
  /\ UNCHANGED <<tables, redis, dels, lookups, requests, raced, changes, failures, logins>>

\* kScopeCacheTtlSec have passed.
ScopeExpires(i) ==
  /\ scope[i] # NoScope
  /\ scope' = [scope EXCEPT ![i] = NoScope]
  /\ UNCHANGED <<tables, redis, dels, lookups, requests, login, raced, changes, failures, logins>>
-----------------------------------------------------------------------------
(* Invalidation *)

\* Mutant: the process keeps its own scope entry.
invalidateUserPermMutant(i) ==
  /\ dels < MaxDels
  /\ dels' = dels + 1
  /\ UNCHANGED scope

\* The scope entry of this process, and a DEL.
invalidateUserPerm(i) ==
  /\ dels < MaxDels
  /\ dels' = dels + 1
  /\ scope' = [scope EXCEPT ![i] = NoScope]

\* invalidateRoleUsers: whoever holds the role, when the query runs.
RoleUsers(i, r) ==
  /\ <<i, r>> \in lookups
  /\ lookups' = lookups \ {<<i, r>>}
  /\ IF r \in member THEN invalidateUserPerm(i) ELSE UNCHANGED <<dels, scope>>
  /\ UNCHANGED <<tables, redis, requests, login, raced, changes, failures, logins>>

\* The query fails, or the process dies before it is answered.
RoleUsersFails(i, r) ==
  /\ <<i, r>> \in lookups
  /\ Fails
  /\ lookups' = lookups \ {<<i, r>>}
  /\ raced' = TRUE
  /\ scope' = [scope EXCEPT ![i].old = scope[i] # NoScope]
  /\ UNCHANGED <<tables, redis, dels, requests, login, changes, logins>>

Loading == \E i \in Instances : flight[i].stage = "ran" \/ fill[i] # NoFill

\* A commit ages what was read before it, except the entries "kept".
Aged(kept) ==
  /\ scope' = [j \in Instances |->
                 IF j \in kept THEN scope[j] ELSE [scope[j] EXCEPT !.old = scope[j] # NoScope]]
  /\ login' = [j \in Instances |-> [login[j] EXCEPT !.res.old = login[j] # NoLogin]]

Changing ==
  /\ changes < MaxChanges
  /\ changes' = changes + 1
-----------------------------------------------------------------------------
(* Administration *)

\* The transaction commits; its callback invalidates.
assignRoles(i, ms) ==
  /\ Changing
  /\ member' = ms
  /\ raced' = (raced \/ Loading)
  /\ Aged({i})
  /\ lookups' = lookups \cup {<<i, TheUser>>}
  /\ UNCHANGED <<role, updating, redis, dels, requests, failures, logins>>

\* The commit callback of assignRoles.
Assigned(i) ==
  /\ <<i, TheUser>> \in lookups
  /\ lookups' = lookups \ {<<i, TheUser>>}
  /\ invalidateUserPerm(i)
  /\ UNCHANGED <<tables, redis, requests, login, raced, changes, failures, logins>>

\* A role changes, and who holds it is asked after the COMMIT.
RoleChange(i, r, row) ==
  /\ Changing
  /\ role' = [role EXCEPT ![r] = row]
  /\ lookups' = lookups \cup {<<i, r>>}
  /\ raced' = (raced \/ Loading)
  /\ Aged({i})
  /\ UNCHANGED <<member, updating, redis, dels, requests, failures, logins>>

assignPermissions(i, r, ps) == RoleChange(i, r, [role[r] EXCEPT !.perms = ps])

updateDataScope(i, r, s, ds) ==
  /\ s = 5 => ds # {}
  /\ RoleChange(i, r, [role[r] EXCEPT !.scope = s, !.depts = IF s = 5 THEN ds ELSE {}])

\* Mutant: the role is deleted and nobody is invalidated.
deleteRoleMutant(i, r) ==
  /\ Changing
  /\ role' = [role EXCEPT ![r].deleted = TRUE]
  /\ raced' = (raced \/ Loading)
  /\ Aged({i})
  /\ UNCHANGED <<member, updating, redis, dels, lookups, requests, failures, logins>>

deleteRole(i, r) == RoleChange(i, r, [role[r] EXCEPT !.deleted = TRUE])

\* updateRole sends its UPDATEs and, beside them, the invalidation;
updateRole(i, r, s) ==
  /\ Changing
  /\ \A u \in updating : u.r # r
  /\ updating' = updating \cup {[i |-> i, r |-> r, status |-> s]}
  /\ lookups' = lookups \cup {<<i, r>>}
  /\ UNCHANGED <<role, member, redis, dels, requests, scopes, raced, failures, logins>>

\* its COMMIT, which the invalidation may have overtaken.
UpdateRoleCommits(u) ==
  /\ updating' = updating \ {u}
  /\ role' = [role EXCEPT ![u.r].status = IF role[u.r].deleted THEN @ ELSE u.status]
  /\ raced' = (raced \/ Loading \/ (<<u.i, u.r>> \notin lookups /\ dels = 0))
  /\ Aged(IF <<u.i, u.r>> \in lookups THEN {u.i} ELSE {})
  /\ UNCHANGED <<member, redis, dels, lookups, requests, changes, failures, logins>>
-----------------------------------------------------------------------------
Redis ==
  \/ Del
  \/ \E i \in Instances : FillDel(i) \/ FillExpire(i) \/ \E p \in Perms \cup {None} : FillAdd(i, p)

Callbacks ==
  \E i \in Instances :
    \/ Select(i) \/ SelectReturns(i)
    \/ LoginDepts(i) \/ LoginReturns(i)
    \/ Assigned(i)
    \/ \E r \in Roles : RoleUsers(i, r)

Administration ==
  \E i \in Instances :
    \/ \E ms \in SUBSET Roles : assignRoles(i, ms)
    \/ \E r \in Roles :
         \/ \E ps \in SUBSET Perms : assignPermissions(i, r, ps)
         \/ \E s \in Scopes, ds \in SUBSET Depts : updateDataScope(i, r, s, ds)
         \/ \E s \in {0, 1} : updateRole(i, r, s)
         \/ deleteRole(i, r)

Next ==
  \/ Redis
  \/ Callbacks
  \/ Administration
  \/ \E u \in updating : UpdateRoleCommits(u)
  \/ Expire
  \/ \E i \in Instances :
       \/ \E q \in Requests : Check(i, q) \/ CheckWithoutRedis(i, q)
       \/ SelectFails(i) \/ FillDelFails(i)
       \/ Login(i) \/ ScopeExpires(i)
       \/ \E r \in Roles : RoleUsersFails(i, r)

Spec == Init /\ [][Next]_vars

\* Redis and the database answer.
FairSpec ==
  /\ Spec
  /\ WF_vars(Redis)
  /\ \A i \in Instances : WF_vars(Select(i)) /\ WF_vars(SelectReturns(i))
-----------------------------------------------------------------------------
(* Properties *)

\* RbacService.cc:19, 154-169: whatever an administrator changes, once its
\* invalidation is done the cache grants nothing that the tables do not, unless
\* a load that read before the change came back after it, the invalidation of
\* updateRole overtook its COMMIT, or an invalidation failed.
RevocationReachesCache ==
  \/ key.set \ {None} \subseteq Granted(role, member)
  \/ raced \/ dels > 0 \/ lookups # {}

\* RbacService.cc:155-158: nor does the process that made the change go on
\* issuing tokens with the old data scope.
ScopeFollowsChange ==
  \A i \in Instances :
    \/ scope[i] = NoScope \/ scope[i].old
    \/ {l \in lookups : l[1] = i} # {}
    \/ scope[i] = ScopeOf(role, member)

Answered(q) == answer[q] \in {"passed", "denied", "failed"}

\* CrossCutting.cc:133-154, RbacService.cc:113-126: a request that has to wait
\* for a load is answered, whoever sent the query and whatever fails, when Redis
\* had told it that the cache is empty.  One whose lookup in Redis failed is
\* answered if the load fails, too; if it succeeds the request is dropped and
\* never answered, against the comment of RbacService.cc:148.
WaiterAnswered ==
  \A q \in Requests :
    /\ answer[q] = "waiting" ~> Answered(q)
    /\ answer[q] = "mute" ~> Answered(q) \/ answer[q] = "dropped"
=============================================================================
