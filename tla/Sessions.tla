------------------------------ MODULE Sessions ------------------------------
(* Start-up, accounts and sessions (main.go, db.go, auth.go): replicas of the  *)
(* API that upgrade the schema and create the first administrator while they   *)
(* start, and the login, logout and account requests that the tabs of one      *)
(* browser, which share a cookie jar, have in flight together.  The tables of  *)
(* the accounts are dashboard_users and dashboard_sessions.                    *)
(*                                                                            *)
(* A token stands for itself and for its hash; every login draws a new one.   *)
(* One unit of time is a fraction of sessionTTL.                              *)
EXTENDS Naturals, FiniteSets

CONSTANTS
    Replicas,      \* API processes on one database
    Tabs,          \* browser tabs
    Emails,        \* normalised addresses of accounts
    ADMIN_EMAIL,   \* the address every replica is configured with
    NewColumns,    \* columns that ensureColumns adds, one after the other
    MaxTokens,     \* bound: sessions ever issued
    sessionTTL,    \* lifetime of a session
    MaxDbErrors,   \* bound: statements that fail
    MaxLostReplies \* bound: answers the browser never sees

NoOne == "no one"

ASSUME SessionAssumption ==
    /\ ADMIN_EMAIL \in Emails /\ NoOne \notin Emails
    /\ IsFiniteSet(Tabs) /\ NewColumns \in Nat
    /\ MaxTokens \in Nat /\ MaxDbErrors \in Nat /\ MaxLostReplies \in Nat
    /\ sessionTTL \in Nat \ {0}

VARIABLES
    boot,       \* where each replica is in main
    added,      \* the new columns the tables have: the first so many
    next,       \* replica -> the column it adds next, 0 when it adds none
    role,       \* email -> role, "none" when there is no such account
    owner,      \* token -> the row's account, NoOne when there is no row
    left,       \* token -> time until expires_at
    issued,     \* tokens drawn so far
    cookie,     \* the browser's logs_session cookie, 0 when it has none
    call,       \* tab -> its request
    loggedOut,  \* history: tokens logged out by a DELETE that succeeded
    dbErrors,   \* statements failed so far
    lostReplies \* answers lost so far

Tokens == 1..MaxTokens
NoHandler(at, k) == [kind |-> "none", at |-> at, token |-> k, user |-> NoOne]
Idle == NoHandler("idle", 0)
schemaVars == <<added, next>>
bootVars == <<boot, role, schemaVars>>
sessionVars == <<owner, left, issued, loggedOut>>
vars == <<bootVars, sessionVars, cookie, call, dbErrors, lostReplies>>

Serving == \E r \in Replicas : boot[r] = "serving"
UnexpiringRow(k) == k \in Tokens /\ owner[k] # NoOne             \* mutant
Live(k) == k \in Tokens /\ owner[k] # NoOne /\ left[k] > 0
StatementFails == dbErrors < MaxDbErrors /\ dbErrors' = dbErrors + 1

----------------------------------------------------------------------------
(* EnsureSchema and EnsureBootstrapAdmin, as each replica starts.  main ends   *)
(* with log.Fatalf on an error.                                               *)
Fatal(r) == boot' = [boot EXCEPT ![r] = "exited"]

(* ensureColumns, which runs for two tables (one stands for both), reads which *)
(* columns there are ...                                                      *)
ReadColumns(r) ==
    /\ boot[r] = "start"
    /\ \/ /\ IF added = NewColumns
             THEN boot' = [boot EXCEPT ![r] = "count"] /\ UNCHANGED next
             ELSE boot' = [boot EXCEPT ![r] = "alter"] /\ next' = [next EXCEPT ![r] = added + 1]
          /\ UNCHANGED dbErrors
       \/ StatementFails /\ Fatal(r) /\ UNCHANGED next
    /\ UNCHANGED <<role, added, sessionVars, cookie, call, lostReplies>>

(* ... and adds each of the others by a statement of its own, without IF NOT   *)
(* EXISTS: it fails when another replica was faster.                          *)
SkipsTheRest(k) == TRUE                                          \* mutant
IsLast(k) == k = NewColumns

AddColumn(r) ==
    /\ boot[r] = "alter"
    /\ \/ /\ next[r] = added + 1
          /\ added' = next[r]
          /\ IF IsLast(next[r])
             THEN boot' = [boot EXCEPT ![r] = "count"] /\ next' = [next EXCEPT ![r] = 0]
             ELSE UNCHANGED boot /\ next' = [next EXCEPT ![r] = @ + 1]
          /\ UNCHANGED dbErrors
       \/ /\ next[r] <= added
          /\ Fatal(r) /\ next' = [next EXCEPT ![r] = 0]
          /\ UNCHANGED <<added, dbErrors>>
       \/ StatementFails /\ Fatal(r) /\ next' = [next EXCEPT ![r] = 0] /\ UNCHANGED added
    /\ UNCHANGED <<role, sessionVars, cookie, call, lostReplies>>

(* SELECT COUNT of the administrators.                                        *)
AnyUserCounted == \E e \in Emails : role[e] = "user"              \* mutant
HasAdmin == \E e \in Emails : role[e] = "admin"

(* The count and the insert are two statements.                               *)
CountAdmins(r) ==
    /\ boot[r] = "count"
    /\ \/ /\ boot' = [boot EXCEPT ![r] =
                        IF HasAdmin THEN "serving" ELSE "insert"]
          /\ UNCHANGED dbErrors
       \/ StatementFails /\ Fatal(r)
    /\ UNCHANGED <<role, schemaVars, sessionVars, cookie, call, lostReplies>>

(* createUser(ADMIN_EMAIL, ..., "admin"): the UNIQUE email refuses a second    *)
(* row.  The configured credentials are ones the code accepts.                *)
InsertAdmin(r) ==
    /\ boot[r] = "insert"
    /\ \/ /\ role[ADMIN_EMAIL] = "none"
          /\ role' = [role EXCEPT ![ADMIN_EMAIL] = "admin"]
          /\ boot' = [boot EXCEPT ![r] = "serving"]
          /\ UNCHANGED dbErrors
       \/ /\ role[ADMIN_EMAIL] # "none"
          /\ Fatal(r)
          /\ UNCHANGED <<role, dbErrors>>
       \/ StatementFails /\ Fatal(r) /\ UNCHANGED role
    /\ UNCHANGED <<schemaVars, sessionVars, cookie, call, lostReplies>>

(* The container is restarted ("restart: unless-stopped").                    *)
RestartReplica(r) ==
    /\ boot[r] = "exited"
    /\ boot' = [boot EXCEPT ![r] = "start"]
    /\ UNCHANGED <<role, schemaVars, sessionVars, cookie, call, dbErrors, lostReplies>>

----------------------------------------------------------------------------
(* Requests.  The browser attaches the cookie it has when it sends; a login     *)
(* makes no use of it.                                                        *)

Send(t, kind) ==
    /\ call[t] = Idle /\ Serving
    /\ kind = "login" =>
         issued + Cardinality({u \in Tabs : call[u].kind = "login"}) < MaxTokens
    /\ call' = [call EXCEPT ![t] = [kind |-> kind, at |-> "server",
                                    token |-> IF kind = "login" THEN 0 ELSE cookie,
                                    user |-> NoOne]]
    /\ UNCHANGED <<bootVars, sessionVars, cookie, dbErrors, lostReplies>>

(* The handler is through, with an answer that sets the cookie to k, or none.  *)
SetCookie(t, k) == call' = [call EXCEPT ![t] = NoHandler("answered", k)]
Refuse(t) == call' = [call EXCEPT ![t] = NoHandler("refused", 0)]

(* handleLogin, first half: rows past expires_at are deleted (an error is      *)
(* ignored), then the account is looked up and the password compared.         *)
LastUnit(k) == left[k] <= 1                                      \* mutant
Expired(k) == left[k] = 0

LoginCheck(t) ==
    /\ call[t].kind = "login" /\ call[t].at = "server"
    /\ \/ /\ owner' = [k \in Tokens |-> IF Expired(k) THEN NoOne ELSE owner[k]]
          /\ UNCHANGED dbErrors
       \/ StatementFails /\ UNCHANGED owner
    /\ \/ Refuse(t)
       \/ \E e \in Emails :
            /\ role[e] # "none"
            /\ call' = [call EXCEPT ![t].at = "insert", ![t].user = e]
    /\ UNCHANGED <<bootVars, left, issued, loggedOut, cookie, lostReplies>>

(* handleLogin, second half: a fresh token's row is inserted; only then does   *)
(* the answer carry the cookie.                                               *)
InsertSession(t) ==
    /\ call[t].at = "insert"
    /\ \/ /\ issued' = issued + 1
          /\ owner' = [owner EXCEPT ![issued + 1] = call[t].user]
          /\ left' = [left EXCEPT ![issued + 1] = sessionTTL]
          /\ SetCookie(t, issued + 1)
          /\ UNCHANGED dbErrors
       \/ StatementFails /\ Refuse(t) /\ UNCHANGED <<owner, left, issued>>
    /\ UNCHANGED <<bootVars, loggedOut, cookie, lostReplies>>

(* handleLogout: the row of the request's cookie is deleted, an error is       *)
(* ignored, and the answer clears the cookie in any case.                     *)
NothingDeleted(t) == {}                                          \* mutant
Deleted(t) == {call[t].token}

Logout(t) ==
    /\ call[t].kind = "logout" /\ call[t].at = "server"
    /\ \/ /\ owner' = [k \in Tokens |-> IF k \in Deleted(t) THEN NoOne ELSE owner[k]]
          /\ loggedOut' = loggedOut \cup ({call[t].token} \ {0})
          /\ UNCHANGED dbErrors
       \/ call[t].token # 0 /\ StatementFails /\ UNCHANGED <<owner, loggedOut>>
    /\ SetCookie(t, 0)
    /\ UNCHANGED <<bootVars, left, issued, cookie, lostReplies>>

(* requireAuth: the session is looked up with its account, before the handler  *)
(* runs; a failed statement is a 401 too.                                     *)
Authenticate(t) ==
    /\ call[t].kind = "create" /\ call[t].at = "server"
    /\ \/ /\ IF Live(call[t].token)
             THEN call' = [call EXCEPT ![t].at = "serve", ![t].user = owner[call[t].token]]
             ELSE Refuse(t)
          /\ UNCHANGED dbErrors
       \/ StatementFails /\ Refuse(t)
    /\ UNCHANGED <<bootVars, sessionVars, cookie, lostReplies>>

(* handleUsers and createUser: administrators may add an account whose email   *)
(* is not taken; anyone else, and any other input, is refused.  Whatever the   *)
(* answer, it carries no cookie.                                              *)
IsAdmin(t) == role[call[t].user] = "admin"

CreateUser(t) ==
    /\ call[t].at = "serve"
    /\ \/ /\ IsAdmin(t)
          /\ \/ /\ \E e \in Emails, rl \in {"admin", "user"} :
                     role[e] = "none" /\ role' = [role EXCEPT ![e] = rl]
                /\ UNCHANGED dbErrors
             \/ UNCHANGED <<role, dbErrors>>
             \/ StatementFails /\ UNCHANGED role
       \/ ~IsAdmin(t) /\ UNCHANGED <<role, dbErrors>>
    /\ Refuse(t)
    /\ UNCHANGED <<boot, schemaVars, sessionVars, cookie, lostReplies>>

(* The answer reaches the browser: Set-Cookie replaces whatever cookie it has  *)
(* by then; the other answers carry none.  Or the answer is lost.             *)
Answer(t) ==
    /\ call[t].at \in {"answered", "refused"}
    /\ \/ /\ cookie' = IF call[t].at = "answered" THEN call[t].token ELSE cookie
          /\ UNCHANGED lostReplies
       \/ /\ lostReplies < MaxLostReplies /\ lostReplies' = lostReplies + 1
          /\ UNCHANGED cookie
    /\ call' = [call EXCEPT ![t] = Idle]
    /\ UNCHANGED <<bootVars, sessionVars, dbErrors>>

(* Time passes for the rows; NOW() is the database's clock.                   *)
TimePasses ==
    /\ \E k \in Tokens : Live(k)
    /\ left' = [k \in Tokens |-> IF Live(k) THEN left[k] - 1 ELSE left[k]]
    /\ UNCHANGED <<bootVars, owner, issued, loggedOut, cookie, call, dbErrors, lostReplies>>

----------------------------------------------------------------------------
Init ==
    /\ boot = [r \in Replicas |-> "start"]
    /\ added \in 0..NewColumns /\ next = [r \in Replicas |-> 0]
    /\ role = [e \in Emails |-> "none"]
    /\ owner = [k \in Tokens |-> NoOne]
    /\ left = [k \in Tokens |-> sessionTTL]
    /\ issued = 0 /\ cookie = 0 /\ loggedOut = {}
    /\ call = [t \in Tabs |-> Idle]
    /\ dbErrors = 0 /\ lostReplies = 0

Startup(r) ==
    ReadColumns(r) \/ AddColumn(r) \/ CountAdmins(r) \/ InsertAdmin(r) \/ RestartReplica(r)
Handle(t) ==
    LoginCheck(t) \/ InsertSession(t) \/ Logout(t) \/ Authenticate(t) \/ CreateUser(t)

Next ==
    \/ \E r \in Replicas : Startup(r)
    \/ \E t \in Tabs : Handle(t) \/ Answer(t)
                       \/ \E kind \in {"login", "logout", "create"} : Send(t, kind)
    \/ TimePasses

(* A process that can take its next statement takes it, and Docker restarts    *)
(* one that exited.  Nobody has to send a request.                            *)
SessionSpec ==
    /\ Init /\ [][Next]_vars
    /\ \A r \in Replicas : WF_vars(Startup(r))

----------------------------------------------------------------------------
(* Properties.                                                                *)

(* Types; what is left of a session never runs below zero.                     *)
SessionTypeOK ==
    /\ boot \in [Replicas -> {"start", "alter", "count", "insert", "serving", "exited"}]
    /\ added \in 0..NewColumns /\ next \in [Replicas -> 0..NewColumns]
    /\ role \in [Emails -> {"none", "admin", "user"}]
    /\ owner \in [Tokens -> Emails \cup {NoOne}] /\ left \in [Tokens -> 0..sessionTTL]
    /\ issued \in 0..MaxTokens /\ cookie \in 0..MaxTokens
    /\ \A t \in Tabs : /\ call[t].at \in {"idle", "server", "insert", "serve", "answered", "refused"}
                       /\ call[t].token \in 0..MaxTokens
                       /\ call[t].user \in Emails \cup {NoOne}
    /\ loggedOut \subseteq Tokens
    /\ dbErrors \in 0..MaxDbErrors /\ lostReplies \in 0..MaxLostReplies

(* A logout is final (handleLogout): once its DELETE has succeeded, no request  *)
(* with that token is let through, whichever tab still holds or sends it and   *)
(* whatever other logins are under way.                                       *)
LogoutIsFinal ==
    [][\A t \in Tabs : call[t].at = "server" /\ call'[t].at = "serve"
                           => call[t].token \notin loggedOut]_vars

(* The cookie in the browser is good until it expires or a tab logs it out:    *)
(* the row is written before the cookie is sent, and no login, cleanup or      *)
(* logout of another session takes it away (handleLogin, handleLogout).        *)
SignedInStays == cookie # 0 => Live(cookie) \/ left[cookie] = 0 \/ cookie \in loggedOut

(* A replica serves only when there is an administrator to log in and every    *)
(* column its statements name, also when replicas start together and one of    *)
(* them fails half-way (EnsureSchema, EnsureBootstrapAdmin).                   *)
ReadyBeforeServing ==
    Serving => added = NewColumns /\ \E e \in Emails : role[e] = "admin"

(* The replica that loses the race for a column or for the first               *)
(* administrator exits, and still serves in the end: each restart finds more   *)
(* of the winner's work done.                                                  *)
EveryReplicaServes == \A r \in Replicas : <>[](boot[r] = "serving")
=============================================================================
