------------------------------- MODULE Session -------------------------------
(***************************************************************************)
(* The sessions of one user (services/AuthService.cc, utils/JwtUtils.cc,   *)
(* middlewares/CrossCutting.cc:34-100), and the row of sys_users that the  *)
(* administration writes too (services/SystemService.cc:287-342).          *)
(*                                                                         *)
(* A login or a refresh issues a session: an access and a refresh token,   *)
(* valid until they expire.  What ends a session earlier is a key of the   *)
(* blacklist in Redis, with an expiry of its own: logout sets it, and so   *)
(* does a refresh for the session it replaces, after it has issued the new *)
(* one and before it hands it out.  Failed logins are counted in the row   *)
(* and lock it.  Requests are chains of callbacks, so their statements     *)
(* interleave, and Redis, a statement or the process may fail between two. *)
(* A captcha may be left out of a login, and then refuses nothing.         *)
(***************************************************************************)
EXTENDS Integers, FiniteSets

CONSTANTS
  Sessions,      \* session ids, bound: sessions issued
  Logins, Refreshes, Changes, \* requests under way at once
  Passwords,
  First,         \* the password the user begins with
  kMaxFail,      \* failed logins that lock the account, 5
  AccessTtl, RefreshTtl, \* lifetimes of tokens, as configured, in ticks
  BlacklistTtl,  \* lifetime of a blacklist key, 604800 s whatever the tokens live
  MaxLeaving,    \* bound: logouts under way
  MaxEvents      \* bound: logins, refreshes, failures and changes of the row

ASSUME ParametersAssumption ==
  /\ First \in Passwords
  /\ {kMaxFail, AccessTtl, RefreshTtl, BlacklistTtl} \subseteq Nat \ {0}
  /\ {MaxLeaving, MaxEvents} \subseteq Nat
  /\ 0 \notin Sessions

\* A blacklist key outlives the tokens: so it is with the defaults, 7200 s and
\* 604800 s, and nothing checks it of what is configured.
Covered == AccessTtl <= BlacklistTtl /\ RefreshTtl <= BlacklistTtl

VARIABLES
  row,        \* of sys_users: status, login_fail_count, deleted, password_hash
  age,        \* age[s]: ticks since s was issued; -1: not issued
  parent,     \* parent[s]: the session a refresh made s from, 0 after a login
  root,       \* root[s]: the session of the login s descends from, 0: not issued
  out,        \* sessions whose tokens a client was given
  black,      \* black[s]: ticks the key jwt:blacklist:s still lives, 0: no key
  login,      \* login[k]: a login under way
  update,     \* update[k]: its UPDATE of the counter, not executed yet
  verified,   \* keys of g_verifyCache
  refresh,    \* refresh[k]: a refresh under way, and the session it has issued
  leaving,    \* sessions whose logout has passed jwtCheck, the key not set yet
  change,     \* change[k]: a changePassword under way
  loggedOut,  \* history: sessions whose logout was answered
  overlapped, \* history: sessions two refreshes of which overlapped
  unrotated,  \* history: sessions a refresh has replaced and not blacklisted
  overtaken,  \* history: sessions a refresh and a logout of which overlapped
  events      \* bounded

tokens == <<age, parent, root>>
account == <<row, login, update, verified, change>>
sessions == <<tokens, out, black, refresh, leaving, loggedOut, overlapped, unrotated, overtaken>>
vars == <<account, sessions, events>>

NoLogin == [stage |-> "idle", tried |-> First, hash |-> First]
NoRefresh == [stage |-> "idle", s |-> 0, next |-> 0]
NoChange == [stage |-> "idle", old |-> First, new |-> First]

Issued(s) == age[s] >= 0

\* When both tokens have expired.
Lifetime == IF AccessTtl > RefreshTtl THEN AccessTtl ELSE RefreshTtl

\* verifyAccessToken and the EXISTS behind it.
jwtCheck(s) == Issued(s) /\ age[s] < AccessTtl /\ black[s] = 0

verifyRefreshToken(s) == Issued(s) /\ age[s] < RefreshTtl

\* Mutant: the key leaves out the password that was tried.
cacheKeyMutant(tried, hash) == <<hash, hash>>

cacheKey(tried, hash) == <<tried, hash>>

Init ==
  /\ row = [status |-> 1, fails |-> 0, deleted |-> FALSE, hash |-> First]
  /\ age = [s \in Sessions |-> -1]
  /\ parent = [s \in Sessions |-> 0]
  /\ root = [s \in Sessions |-> 0]
  /\ out = {}
  /\ black = [s \in Sessions |-> 0]
  /\ login = [k \in Logins |-> NoLogin]
  /\ update = [k \in Logins |-> "none"]
  /\ verified = {}
  /\ refresh = [k \in Refreshes |-> NoRefresh]
  /\ change = [k \in Changes |-> NoChange]
  /\ leaving = {} /\ loggedOut = {}
  /\ overlapped = {} /\ unrotated = {} /\ overtaken = {}
  /\ events = 0

\* uuid and the two tokens.
issueTokens(s, p) ==
  /\ ~Issued(s)
  /\ \A t \in Sessions : t < s => Issued(t)
  /\ age' = [age EXCEPT ![s] = 0]
  /\ parent' = [parent EXCEPT ![s] = p]
  /\ root' = [root EXCEPT ![s] = IF p = 0 THEN s ELSE root[p]]

Event ==
  /\ events < MaxEvents
  /\ events' = events + 1
-----------------------------------------------------------------------------
(* Login *)

\* The row is read and checked; a password verified lately passes at once.
Login(k, tried) ==
  /\ Event
  /\ login[k] = NoLogin /\ update[k] = "none"
  /\ ~row.deleted /\ row.status = 1
  /\ login' = [login EXCEPT ![k] =
       [stage |-> IF cacheKey(tried, row.hash) \in verified THEN "ok" ELSE "verify",
        tried |-> tried, hash |-> row.hash]]
  /\ update' = [update EXCEPT ![k] =
       IF cacheKey(tried, row.hash) \in verified THEN "reset" ELSE "none"]
  /\ UNCHANGED <<row, verified, change, sessions>>

\* The worker has compared; handleVerified counts a failure or begins to issue.
Verify(k) ==
  /\ login[k].stage = "verify"
  /\ IF login[k].tried = login[k].hash
     THEN /\ verified' = verified \cup {cacheKey(login[k].tried, login[k].hash)}
          /\ update' = [update EXCEPT ![k] = "reset"]
          /\ login' = [login EXCEPT ![k].stage = "ok"]
     ELSE /\ update' = [update EXCEPT ![k] = "fail"]
          /\ login' = [login EXCEPT ![k] = NoLogin]
          /\ UNCHANGED verified
  /\ UNCHANGED <<row, change, sessions, events>>

\* kVerifyCacheTtlSec have passed.
VerifyExpires(c) ==
  /\ c \in verified
  /\ verified' = verified \ {c}
  /\ UNCHANGED <<row, login, update, change, sessions, events>>

\* Mutant: the count is compared before it is increased.
CountedMutant(r) ==
  [r EXCEPT !.fails = @ + 1, !.status = IF r.fails >= kMaxFail THEN 2 ELSE @]

Counted(r) ==
  [r EXCEPT !.fails = @ + 1, !.status = IF r.fails + 1 >= kMaxFail THEN 2 ELSE @]

\* The UPDATE of the counter, which nobody waits for.
CountUpdate(k) ==
  /\ update[k] # "none"
  /\ row' = IF update[k] = "fail" THEN Counted(row) ELSE [row EXCEPT !.fails = 0]
  /\ update' = [update EXCEPT ![k] = "none"]
  /\ UNCHANGED <<login, verified, change, sessions, events>>

LoginIssues(k, s) ==
  /\ login[k].stage = "ok"
  /\ issueTokens(s, 0)
  /\ login' = [login EXCEPT ![k] = NoLogin]
  /\ out' = out \cup {s}
  /\ UNCHANGED <<row, update, verified, change, events>>
  /\ UNCHANGED <<black, refresh, leaving, loggedOut, overlapped, unrotated, overtaken, events>>
-----------------------------------------------------------------------------
(* Refresh and logout *)

Under(s) == \E k \in Refreshes : refresh[k].s = s

\* The token is verified and the blacklist asked.
Refresh(k, s) ==
  /\ Event /\ refresh[k] = NoRefresh
  /\ s \in out /\ verifyRefreshToken(s) /\ black[s] = 0
  /\ refresh' = [refresh EXCEPT ![k] = [stage |-> "select", s |-> s, next |-> 0]]
  /\ overlapped' = IF Under(s) THEN overlapped \cup {s} ELSE overlapped
  /\ overtaken' = IF s \in leaving THEN overtaken \cup {s} ELSE overtaken
  /\ UNCHANGED <<account, tokens, out, black, leaving, loggedOut, unrotated>>

RefreshSelect(k) ==
  /\ refresh[k].stage = "select"
  /\ refresh' = [refresh EXCEPT ![k] =
       IF row.status = 1 /\ ~row.deleted THEN [@ EXCEPT !.stage = "issue"] ELSE NoRefresh]
  /\ UNCHANGED <<account, tokens, out, black, leaving, loggedOut, overlapped, unrotated, overtaken, events>>

RefreshIssues(k, s) ==
  /\ refresh[k].stage = "issue"
  /\ issueTokens(s, refresh[k].s)
  /\ refresh' = [refresh EXCEPT ![k].stage = "rotate", ![k].next = s]
  /\ UNCHANGED <<account, out, black, leaving, loggedOut, overlapped, unrotated, overtaken, events>>

\* Mutant: the new session's key is set, not the old one's.
RotateMutant(k) ==
  /\ refresh[k].stage = "rotate"
  /\ black' = [black EXCEPT ![refresh[k].next] = BlacklistTtl]
  /\ out' = out \cup {refresh[k].next}
  /\ refresh' = [refresh EXCEPT ![k] = NoRefresh]
  /\ UNCHANGED <<account, tokens, leaving, loggedOut, overlapped, unrotated, overtaken, events>>

\* The old session is blacklisted and the request answered with the new one.
Rotate(k) ==
  /\ refresh[k].stage = "rotate"
  /\ black' = [black EXCEPT ![refresh[k].s] = BlacklistTtl]
  /\ out' = out \cup {refresh[k].next}
  /\ refresh' = [refresh EXCEPT ![k] = NoRefresh]
  /\ UNCHANGED <<account, tokens, leaving, loggedOut, overlapped, unrotated, overtaken, events>>

\* Redis fails: the request is answered all the same.
RotateFails(k) ==
  /\ refresh[k].stage = "rotate"
  /\ Event
  /\ unrotated' = unrotated \cup {refresh[k].s}
  /\ out' = out \cup {refresh[k].next}
  /\ refresh' = [refresh EXCEPT ![k] = NoRefresh]
  /\ UNCHANGED <<account, tokens, black, leaving, loggedOut, overlapped, overtaken>>

\* A statement fails, or the process ends, before the request is answered: a
\* session that was issued is never handed out.
RefreshFails(k) ==
  /\ refresh[k].stage # "idle"
  /\ Event
  /\ unrotated' = IF refresh[k].stage = "rotate" THEN unrotated \cup {refresh[k].s} ELSE unrotated
  /\ refresh' = [refresh EXCEPT ![k] = NoRefresh]
  /\ UNCHANGED <<account, tokens, out, black, leaving, loggedOut, overlapped, overtaken>>

\* A request to log out, with the access token of s, passes the blacklist.
\* Another one at the same time would write the same key.
LogoutCheck(s) ==
  /\ Cardinality(leaving) < MaxLeaving
  /\ s \in out \ leaving /\ jwtCheck(s)
  /\ leaving' = leaving \cup {s}
  /\ overtaken' = IF Under(s) THEN overtaken \cup {s} ELSE overtaken
  /\ UNCHANGED <<account, tokens, out, black, refresh, loggedOut, overlapped, unrotated, events>>

\* Mutant: the key lives as long as the access token.
LogoutMutant(s) ==
  /\ s \in leaving
  /\ black' = [black EXCEPT ![s] = AccessTtl]
  /\ loggedOut' = loggedOut \cup {s}
  /\ leaving' = leaving \ {s}
  /\ UNCHANGED <<account, tokens, out, refresh, overlapped, unrotated, overtaken, events>>

\* The key is set and the request answered.
Logout(s) ==
  /\ s \in leaving
  /\ black' = [black EXCEPT ![s] = BlacklistTtl]
  /\ loggedOut' = loggedOut \cup {s}
  /\ leaving' = leaving \ {s}
  /\ UNCHANGED <<account, tokens, out, refresh, overlapped, unrotated, overtaken, events>>

\* Redis fails, and the request is answered with an error, or the process ends.
LogoutFails(s) ==
  /\ s \in leaving
  /\ Event
  /\ leaving' = leaving \ {s}
  /\ UNCHANGED <<account, tokens, out, black, refresh, loggedOut, overlapped, unrotated, overtaken>>

\* Time passes for tokens and keys.
Tick ==
  /\ age' = [s \in Sessions |-> IF age[s] \in 0 .. Lifetime - 1 THEN age[s] + 1 ELSE age[s]]
  /\ black' = [s \in Sessions |-> IF black[s] > 0 THEN black[s] - 1 ELSE 0]
  /\ UNCHANGED <<account, parent, root, out, refresh, leaving>>
  /\ UNCHANGED <<loggedOut, overlapped, unrotated, overtaken, events>>
-----------------------------------------------------------------------------
(* Passwords and administration *)

ChangePassword(k, old, new) ==
  /\ Event /\ change[k] = NoChange
  /\ old = row.hash
  /\ change' = [change EXCEPT ![k] = [stage |-> "update", old |-> old, new |-> new]]
  /\ UNCHANGED <<row, login, update, verified, sessions>>

\* The UPDATE asks for the id only.
PasswordUpdate(k) ==
  /\ change[k].stage = "update"
  /\ row' = [row EXCEPT !.hash = change[k].new]
  /\ change' = [change EXCEPT ![k] = NoChange]
  /\ UNCHANGED <<login, update, verified, sessions, events>>

resetPassword(new) ==
  /\ Event /\ ~row.deleted
  /\ row' = [row EXCEPT !.hash = new, !.fails = 0, !.status = IF @ = 2 THEN 1 ELSE @]
  /\ UNCHANGED <<login, update, verified, change, sessions>>

setUserStatus(st) ==
  /\ Event /\ ~row.deleted
  /\ row' = [row EXCEPT !.status = st, !.fails = IF st = 1 THEN 0 ELSE @]
  /\ UNCHANGED <<login, update, verified, change, sessions>>

deleteUser ==
  /\ Event
  /\ row' = [row EXCEPT !.deleted = TRUE]
  /\ UNCHANGED <<login, update, verified, change, sessions>>
-----------------------------------------------------------------------------
Next ==
  \/ \E k \in Logins :
       \/ \E p \in Passwords : Login(k, p)
       \/ Verify(k) \/ CountUpdate(k)
       \/ \E s \in Sessions : LoginIssues(k, s)
  \/ \E c \in verified : VerifyExpires(c)
  \/ \E k \in Refreshes :
       \/ \E s \in Sessions : Refresh(k, s) \/ RefreshIssues(k, s)
       \/ RefreshSelect(k) \/ Rotate(k) \/ RotateFails(k) \/ RefreshFails(k)
  \/ \E s \in Sessions : LogoutCheck(s) \/ Logout(s) \/ LogoutFails(s)
  \/ Tick
  \/ \E k \in Changes : PasswordUpdate(k) \/ \E p, q \in Passwords : ChangePassword(k, p, q)
  \/ \E p \in Passwords : resetPassword(p)
  \/ \E st \in {0, 1} : setUserStatus(st)
  \/ deleteUser

Spec == Init /\ [][Next]_vars
-----------------------------------------------------------------------------
(* Properties *)

\* No token of t passes.
Useless(t) == ~jwtCheck(t) /\ (verifyRefreshToken(t) => black[t] > 0)

\* Sessions whose login a logout may leave alive.
Raced == overlapped \cup unrotated \cup overtaken

\* docs/CORE_PLAN.md:267, AuthService.cc:235, 283-290: once a logout was answered, no
\* token that its login was given passes again while it lives, through any number
\* of refreshes before and attempts after, failures and restarts among them. It
\* holds of logins none of whose sessions was refreshed twice at once, left
\* unblacklisted by a refresh, or refreshed while its logout was under way: a
\* refresh that has passed the blacklist before the logout still hands out a
\* session afterwards, which lives until it expires. Nothing but a logout or a
\* rotation ends a session: neither a change of password nor a disabled account.
LogoutEndsLogin ==
  \A s \in loggedOut, t \in out :
    root[t] = root[s] => Useless(t) \/ \E u \in Raced : root[u] = root[s]

\* AuthService.cc:259-271: a refresh token makes one successor, unless two refreshes
\* of it overlapped or it was replaced and not blacklisted.
RotatedOnce ==
  \A s \in Sessions :
    Cardinality({t \in Sessions : parent[t] = s}) > 1 => s \in overlapped \cup unrotated

\* AuthService.cc:111-114: an account at the limit of failures is not left enabled,
\* so no login that reads its row from then on is admitted, whatever counter updates
\* are late and whatever administrators do. Logins that have passed the check of
\* the status before are still admitted: the failures of those count late.
LockHolds == row.fails >= kMaxFail => row.status # 1

\* AuthService.cc:201-210: nobody is admitted with another password than the
\* one whose hash the login has read, cached verification or not.
AdmittedWithPassword ==
  \A k \in Logins : login[k].stage = "ok" => login[k].tried = login[k].hash
=============================================================================
