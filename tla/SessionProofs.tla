--------------------------- MODULE SessionProofs ---------------------------
(* Theorems about start-up, accounts and sessions, for any number of          *)
(* replicas, tabs, accounts, columns, sessions, failing statements and lost   *)
(* answers.                                                                   *)
EXTENDS Sessions, FiniteSetTheorems, TLAPS

Kinds == {"none", "login", "logout", "create"}
Places == {"idle", "server", "insert", "serve", "answered", "refused"}
Call == [kind : Kinds, at : Places, token : 0..MaxTokens, user : Emails \cup {NoOne}]

(* The types, with the shape of a tab's request: a login that waits to insert *)
(* its session, and a request that was let through, name an account.          *)
CallsTyped ==
    /\ SessionTypeOK
    /\ call \in [Tabs -> Call]
    /\ \A t \in Tabs : /\ call[t].at = "insert" => call[t].kind = "login" /\ call[t].user \in Emails
                       /\ call[t].at = "serve" => call[t].kind = "create" /\ call[t].user \in Emails

LoginTabs == {t \in Tabs : call[t].kind = "login"}

(* Every login under way will find a token to draw.                           *)
TokensSuffice == issued + Cardinality(LoginTabs) <= MaxTokens

(* A replica that adds columns has some left to add.                          *)
ColumnsAhead == \A r \in Replicas : boot[r] = "alter" => next[r] \in 1..NewColumns

(* What a replica has found done or done itself stays done.                   *)
PastSchema == \A r \in Replicas : boot[r] \in {"count", "insert", "serving"} => added = NewColumns
PastBootstrap == \A r \in Replicas : boot[r] = "serving" => HasAdmin

(* Whoever holds a token holds one that was issued, and a token that was      *)
(* issued has its row until it expires or is logged out; a token logged out   *)
(* has none, and is not drawn again.                                          *)
TokensIssued == cookie <= issued /\ \A t \in Tabs : call[t].token <= issued
IssuedKept == \A k \in 1..issued : owner[k] # NoOne \/ left[k] = 0 \/ k \in loggedOut
LoggedOutGone == \A k \in loggedOut : k <= issued /\ owner[k] = NoOne

StartupInv == ColumnsAhead /\ PastSchema /\ PastBootstrap
TokenInv == TokensIssued /\ IssuedKept /\ LoggedOutGone
SessionInv == CallsTyped /\ TokensSuffice /\ StartupInv /\ TokenInv

----------------------------------------------------------------------------
(* The logins under way.                                                      *)

LEMMA LoginTabsFinite == IsFiniteSet(LoginTabs) /\ Cardinality(LoginTabs) \in Nat
<1>1. LoginTabs \subseteq Tabs /\ IsFiniteSet(Tabs)
  BY SessionAssumption DEF LoginTabs
<1>2. IsFiniteSet(LoginTabs)
  BY <1>1, FS_Subset
<1> QED BY <1>2, FS_CardinalityType

(* A step that makes no tab a login keeps their number or lowers it; if it    *)
(* ends one, by at least one.                                                 *)
LEMMA NoNewLogin ==
    ASSUME LoginTabs' \subseteq LoginTabs
    PROVE  /\ Cardinality(LoginTabs') \in Nat
           /\ Cardinality(LoginTabs') <= Cardinality(LoginTabs)
           /\ LoginTabs' # LoginTabs => Cardinality(LoginTabs') < Cardinality(LoginTabs)
<1>1. IsFiniteSet(LoginTabs)
  BY LoginTabsFinite
<1>2. IsFiniteSet(LoginTabs')
  BY <1>1, FS_Subset
<1> QED BY <1>1, <1>2, FS_Subset, FS_CardinalityType

LEMMA OneMoreLogin ==
    ASSUME NEW t \in Tabs, LoginTabs' = LoginTabs \cup {t}
    PROVE  Cardinality(LoginTabs') \in Nat /\ Cardinality(LoginTabs') <= Cardinality(LoginTabs) + 1
<1>1. IsFiniteSet(LoginTabs)
  BY LoginTabsFinite
<1> QED BY <1>1, LoginTabsFinite, FS_AddElement

----------------------------------------------------------------------------
(* A tab without a handler, and one whose handler is through.                 *)
LEMMA NoHandlerType ==
    ASSUME NEW at \in {"idle", "answered", "refused"}, NEW k \in 0..MaxTokens
    PROVE  /\ NoHandler(at, k) \in Call /\ NoHandler(at, k).kind = "none"
           /\ NoHandler(at, k).at = at /\ NoHandler(at, k).token = k
BY DEF NoHandler, Call, Kinds, Places

LEMMA SessionInitInv == Init => SessionInv
<1> SUFFICES ASSUME Init PROVE SessionInv
  OBVIOUS
<1> USE SessionAssumption
<1>1. CallsTyped
  <2>1. Idle \in Call
    BY NoHandlerType DEF Idle
  <2>2. call \in [Tabs -> Call] /\ \A t \in Tabs : call[t] = Idle
    BY <2>1 DEF Init
  <2>3. SessionTypeOK
    BY <2>2 DEF Init, SessionTypeOK, Idle, NoHandler, Tokens
  <2> QED BY <2>2, <2>3 DEF CallsTyped, Idle, NoHandler
<1>2. LoginTabs = {}
  BY DEF Init, LoginTabs, Idle, NoHandler
<1>3. TokensSuffice
  BY <1>2, FS_EmptySet DEF Init, TokensSuffice
<1>4. StartupInv
  BY DEF Init, StartupInv, ColumnsAhead, PastSchema, PastBootstrap
<1>5. TokenInv
  BY DEF Init, TokenInv, TokensIssued, IssuedKept, LoggedOutGone, Idle, NoHandler
<1> QED BY <1>1, <1>3, <1>4, <1>5 DEF SessionInv

(* Start-up touches no request and no session.                                *)
LEMMA StartupKeepsSessions ==
    ASSUME SessionInv, UNCHANGED <<sessionVars, cookie, call>>
    PROVE  TokensSuffice' /\ TokenInv'
<1>1. LoginTabs' = LoginTabs
  BY DEF LoginTabs
<1>2. Cardinality(LoginTabs)' = Cardinality(LoginTabs)
  BY <1>1
<1> QED BY <1>2 DEF SessionInv, TokensSuffice, TokenInv, TokensIssued, IssuedKept, LoggedOutGone, sessionVars

LEMMA StartupStepInv ==
    ASSUME SessionInv, NEW r \in Replicas, Startup(r)
    PROVE  SessionInv'
<1> USE SessionAssumption
<1>1. UNCHANGED <<sessionVars, cookie, call, lostReplies>>
  BY DEF Startup, ReadColumns, AddColumn, CountAdmins, InsertAdmin, RestartReplica
<1>2. TokensSuffice' /\ TokenInv'
  BY <1>1, StartupKeepsSessions
<1>3. /\ boot \in [Replicas -> {"start", "alter", "count", "insert", "serving", "exited"}]
      /\ added \in 0..NewColumns /\ next \in [Replicas -> 0..NewColumns]
      /\ role \in [Emails -> {"none", "admin", "user"}]
      /\ dbErrors \in 0..MaxDbErrors
  BY DEF SessionInv, CallsTyped, SessionTypeOK
<1>4. ASSUME /\ boot' \in [Replicas -> {"start", "alter", "count", "insert", "serving", "exited"}]
             /\ added' \in 0..NewColumns /\ next' \in [Replicas -> 0..NewColumns]
             /\ role' \in [Emails -> {"none", "admin", "user"}]
             /\ dbErrors' \in 0..MaxDbErrors
      PROVE  CallsTyped'
  BY <1>1, <1>4 DEF SessionInv, CallsTyped, SessionTypeOK, sessionVars
<1> USE DEF SessionInv, StartupInv, ColumnsAhead, PastSchema, PastBootstrap, HasAdmin,
            StatementFails, Fatal, schemaVars
<1>5. CASE ReadColumns(r)
  BY <1>2, <1>3, <1>4, <1>5 DEF ReadColumns
<1>6. CASE AddColumn(r)
  BY <1>2, <1>3, <1>4, <1>6 DEF AddColumn, IsLast
<1>7. CASE CountAdmins(r)
  BY <1>2, <1>3, <1>4, <1>7 DEF CountAdmins
<1>8. CASE InsertAdmin(r)
  BY <1>2, <1>3, <1>4, <1>8 DEF InsertAdmin
<1>9. CASE RestartReplica(r)
  BY <1>2, <1>3, <1>4, <1>9 DEF RestartReplica
<1> QED BY <1>5, <1>6, <1>7, <1>8, <1>9 DEF Startup

----------------------------------------------------------------------------
(* Requests touch neither the schema nor where a replica is, and at most make *)
(* an account more.                                                           *)
LEMMA RequestKeepsStartup ==
    ASSUME SessionInv, UNCHANGED <<boot, schemaVars>>, HasAdmin => HasAdmin'
    PROVE  StartupInv'
BY DEF SessionInv, StartupInv, ColumnsAhead, PastSchema, PastBootstrap, schemaVars

(* What the types of a request's step come to.                                *)
LEMMA RequestTypes ==
    ASSUME SessionInv, UNCHANGED <<boot, schemaVars>>,
           role' \in [Emails -> {"none", "admin", "user"}],
           owner' \in [Tokens -> Emails \cup {NoOne}], left' \in [Tokens -> 0..sessionTTL],
           issued' \in 0..MaxTokens, cookie' \in 0..MaxTokens, loggedOut' \subseteq Tokens,
           dbErrors' \in 0..MaxDbErrors, lostReplies' \in 0..MaxLostReplies,
           NEW t \in Tabs, NEW c \in Call, call' = [call EXCEPT ![t] = c],
           c.at = "insert" => c.kind = "login" /\ c.user \in Emails,
           c.at = "serve" => c.kind = "create" /\ c.user \in Emails
    PROVE  CallsTyped'
<1>1. call' \in [Tabs -> Call] /\ \A u \in Tabs : call'[u] = IF u = t THEN c ELSE call[u]
  BY DEF SessionInv, CallsTyped
<1>2. \A u \in Tabs : /\ call'[u].at \in Places /\ call'[u].token \in 0..MaxTokens
                       /\ call'[u].user \in Emails \cup {NoOne}
  BY <1>1 DEF Call
<1> QED BY <1>1, <1>2 DEF SessionInv, CallsTyped, SessionTypeOK, schemaVars, Places

(* One tab's request changes to c: what that does to the logins under way.    *)
LEMMA LoginsAfter ==
    ASSUME SessionInv, NEW t \in Tabs, NEW c, call' = [call EXCEPT ![t] = c]
    PROVE  LoginTabs' = IF c.kind = "login" THEN LoginTabs \cup {t} ELSE LoginTabs \ {t}
BY DEF SessionInv, CallsTyped, LoginTabs

(* A step that leaves the sessions alone, and takes tokens only from those    *)
(* there are.                                                                 *)
LEMMA TokensKept ==
    ASSUME SessionInv, UNCHANGED sessionVars, cookie' <= issued,
           NEW t \in Tabs, NEW c, call' = [call EXCEPT ![t] = c], c.token <= issued
    PROVE  TokenInv'
BY DEF SessionInv, CallsTyped, TokenInv, TokensIssued, IssuedKept, LoggedOutGone, sessionVars

(* A step that begins no login and draws no token.                            *)
LEMMA NoLoginMore ==
    ASSUME SessionInv, issued' = issued,
           NEW t \in Tabs, NEW c, call' = [call EXCEPT ![t] = c],
           c.kind = "login" => call[t].kind = "login"
    PROVE  TokensSuffice'
<1>1. LoginTabs' \subseteq LoginTabs
  BY LoginsAfter DEF LoginTabs
<1>2. Cardinality(LoginTabs') \in Nat /\ Cardinality(LoginTabs') <= Cardinality(LoginTabs)
  BY <1>1, NoNewLogin
<1> QED BY <1>2, LoginTabsFinite, SessionAssumption
        DEF SessionInv, CallsTyped, SessionTypeOK, TokensSuffice

LEMMA SendInv ==
    ASSUME SessionInv, NEW t \in Tabs, NEW kind \in {"login", "logout", "create"}, Send(t, kind)
    PROVE  SessionInv'
<1> USE SessionAssumption
<1> DEFINE c == [kind |-> kind, at |-> "server",
                 token |-> IF kind = "login" THEN 0 ELSE cookie, user |-> NoOne]
<1>1. /\ call' = [call EXCEPT ![t] = c]
      /\ UNCHANGED <<bootVars, sessionVars, cookie, dbErrors, lostReplies>>
  BY DEF Send
<1>2. /\ issued \in 0..MaxTokens /\ cookie \in 0..MaxTokens /\ cookie <= issued
      /\ c \in Call /\ c.token <= issued /\ c.at = "server" /\ c.kind = kind
  BY DEF SessionInv, CallsTyped, SessionTypeOK, TokenInv, TokensIssued, Call, Kinds, Places
<1>3. kind = "login" => issued + Cardinality(LoginTabs) < MaxTokens
  BY DEF Send, LoginTabs
<1> HIDE DEF c
<1>4. CallsTyped'
  BY <1>1, <1>2, RequestTypes DEF SessionInv, CallsTyped, SessionTypeOK, bootVars, sessionVars
<1>5. TokensSuffice'
  <2>1. CASE kind = "login"
    <3>1. Cardinality(LoginTabs') \in Nat /\ Cardinality(LoginTabs') <= Cardinality(LoginTabs) + 1
      BY <1>1, <1>2, <2>1, LoginsAfter, OneMoreLogin
    <3> QED BY <1>1, <1>2, <1>3, <2>1, <3>1, LoginTabsFinite DEF TokensSuffice, sessionVars
  <2>2. CASE kind # "login"
    BY <1>1, <1>2, <2>2, NoLoginMore DEF sessionVars
  <2> QED BY <2>1, <2>2
<1>6. TokenInv'
  BY <1>1, <1>2, TokensKept
<1>7. StartupInv'
  BY <1>1, RequestKeepsStartup DEF bootVars, HasAdmin
<1> QED BY <1>4, <1>5, <1>6, <1>7 DEF SessionInv

(* The handler refuses and leaves the sessions alone.                         *)
LEMMA RefuseInv ==
    ASSUME SessionInv, NEW t \in Tabs, Refuse(t),
           UNCHANGED <<boot, schemaVars, sessionVars, cookie, lostReplies>>,
           role' \in [Emails -> {"none", "admin", "user"}], HasAdmin => HasAdmin',
           dbErrors' \in 0..MaxDbErrors
    PROVE  SessionInv'
<1> DEFINE c == NoHandler("refused", 0)
<1>1. /\ call' = [call EXCEPT ![t] = c]
      /\ c \in Call /\ c.kind = "none" /\ c.at = "refused" /\ c.token = 0
  BY SessionAssumption, NoHandlerType DEF Refuse
<1> HIDE DEF c
<1>2. cookie' <= issued /\ c.token <= issued
  BY <1>1, SessionAssumption DEF SessionInv, CallsTyped, SessionTypeOK, TokenInv, TokensIssued
<1>3. CallsTyped'
  BY <1>1, RequestTypes DEF SessionInv, CallsTyped, SessionTypeOK, sessionVars
<1>4. TokensSuffice'
  BY <1>1, NoLoginMore DEF sessionVars
<1>5. TokenInv'
  BY <1>1, <1>2, TokensKept
<1>6. StartupInv'
  BY RequestKeepsStartup
<1> QED BY <1>3, <1>4, <1>5, <1>6 DEF SessionInv

LEMMA LoginCheckInv ==
    ASSUME SessionInv, NEW t \in Tabs, LoginCheck(t)
    PROVE  SessionInv'
<1> USE SessionAssumption
<1>1. /\ UNCHANGED <<bootVars, left, issued, loggedOut, cookie, lostReplies>>
      /\ owner' = [k \in Tokens |-> IF Expired(k) THEN NoOne ELSE owner[k]] \/ owner' = owner
      /\ dbErrors' \in 0..MaxDbErrors
  BY DEF LoginCheck, StatementFails, SessionInv, CallsTyped, SessionTypeOK
<1>2. PICK c \in Call : /\ call' = [call EXCEPT ![t] = c] /\ c.token <= issued
                        /\ c.at = "insert" => c.kind = "login" /\ c.user \in Emails
                        /\ c.at # "serve"
  <2>1. CASE Refuse(t)
    <3> DEFINE c == NoHandler("refused", 0)
    <3>1. c \in Call /\ c.at = "refused" /\ c.token = 0 /\ call' = [call EXCEPT ![t] = c]
      BY <2>1, NoHandlerType DEF Refuse
    <3>2. issued \in Nat
      BY DEF SessionInv, CallsTyped, SessionTypeOK
    <3>3. c.token <= issued /\ c.at # "insert" /\ c.at # "serve"
      BY <3>1, <3>2
    <3> HIDE DEF c
    <3> QED BY <3>1, <3>3
  <2>2. CASE \E e \in Emails : call' = [call EXCEPT ![t].at = "insert", ![t].user = e]
    <3>1. PICK e \in Emails : call' = [call EXCEPT ![t].at = "insert", ![t].user = e]
      BY <2>2
    <3>2. [call[t] EXCEPT !.at = "insert", !.user = e] \in Call
      BY DEF SessionInv, CallsTyped, Call, Places
    <3>3. /\ call' = [call EXCEPT ![t] = [call[t] EXCEPT !.at = "insert", !.user = e]]
          /\ call[t] \in Call /\ call[t].kind = "login" /\ call[t].token <= issued
      BY <3>1 DEF SessionInv, CallsTyped, LoginCheck, TokenInv, TokensIssued
    <3> WITNESS [call[t] EXCEPT !.at = "insert", !.user = e] \in Call
    <3> QED BY <3>3 DEF Call
  <2> QED BY <2>1, <2>2 DEF LoginCheck
<1>3. owner' \in [Tokens -> Emails \cup {NoOne}]
  BY <1>1 DEF SessionInv, CallsTyped, SessionTypeOK
<1>4. CallsTyped'
  BY <1>1, <1>2, <1>3, RequestTypes DEF SessionInv, CallsTyped, SessionTypeOK, bootVars
<1>5. TokensSuffice'
  BY <1>1, <1>2, NoLoginMore DEF LoginCheck
<1>6. TokensIssued'
  BY <1>1, <1>2 DEF SessionInv, CallsTyped, TokenInv, TokensIssued
<1>7. (IssuedKept /\ LoggedOutGone)'
  <2>1. issued' = issued /\ left' = left /\ loggedOut' = loggedOut
    BY <1>1
  <2>2. \A k \in 1..issued : k \in Tokens
    BY DEF SessionInv, CallsTyped, SessionTypeOK, Tokens
  <2>3. \A k \in Tokens : owner'[k] = owner[k] \/ left[k] = 0
    BY <1>1 DEF Expired
  <2>4. IssuedKept
    BY DEF SessionInv, TokenInv
  <2>5. IssuedKept'
    BY <2>1, <2>2, <2>3, <2>4 DEF IssuedKept
  <2>6. LoggedOutGone'
    BY <1>1 DEF SessionInv, CallsTyped, SessionTypeOK, TokenInv, LoggedOutGone
  <2> QED BY <2>5, <2>6
<1>8. StartupInv'
  BY <1>1, RequestKeepsStartup DEF bootVars, HasAdmin
<1> QED BY <1>4, <1>5, <1>6, <1>7, <1>8 DEF SessionInv, TokenInv

LEMMA InsertSessionInv ==
    ASSUME SessionInv, NEW t \in Tabs, InsertSession(t)
    PROVE  SessionInv'
<1> USE SessionAssumption
<1>1. /\ UNCHANGED <<bootVars, loggedOut, cookie, lostReplies>>
      /\ dbErrors' \in 0..MaxDbErrors
      /\ call[t].kind = "login" /\ call[t].user \in Emails
  BY DEF InsertSession, StatementFails, SessionInv, CallsTyped, SessionTypeOK
<1>2. /\ issued \in 0..MaxTokens /\ cookie \in 0..MaxTokens /\ cookie <= issued
      /\ owner \in [Tokens -> Emails \cup {NoOne}] /\ left \in [Tokens -> 0..sessionTTL]
  BY DEF SessionInv, CallsTyped, SessionTypeOK, TokenInv, TokensIssued
<1>3. StartupInv'
  BY <1>1, RequestKeepsStartup DEF bootVars, HasAdmin
<1>4. CASE Refuse(t) /\ UNCHANGED <<owner, left, issued>>
  BY <1>1, <1>4, RefuseInv
  DEF SessionInv, CallsTyped, SessionTypeOK, bootVars, sessionVars, HasAdmin
<1>5. CASE /\ issued' = issued + 1
           /\ owner' = [owner EXCEPT ![issued + 1] = call[t].user]
           /\ left' = [left EXCEPT ![issued + 1] = sessionTTL]
           /\ SetCookie(t, issued + 1)
  <2>1. t \in LoginTabs /\ Cardinality(LoginTabs) \in Nat \ {0}
    <3>1. t \in LoginTabs
      BY <1>1 DEF LoginTabs
    <3> QED BY <3>1, LoginTabsFinite, FS_EmptySet
  <2>2. issued + 1 \in 1..MaxTokens /\ issued + 1 \in Tokens
    BY <1>2, <2>1 DEF SessionInv, TokensSuffice, Tokens
  <2>3. PICK c \in Call : /\ c.at = "answered" /\ c.kind = "none" /\ c.token = issued + 1
                          /\ call' = [call EXCEPT ![t] = c]
    <3>1. issued + 1 \in 0..MaxTokens
      BY <2>2
    <3>2. /\ NoHandler("answered", issued + 1) \in Call
          /\ NoHandler("answered", issued + 1).kind = "none"
          /\ NoHandler("answered", issued + 1).at = "answered"
          /\ NoHandler("answered", issued + 1).token = issued + 1
      BY <3>1, NoHandlerType
    <3> QED BY <1>5, <3>2 DEF SetCookie
  <2>4. CallsTyped'
    <3>1. owner' \in [Tokens -> Emails \cup {NoOne}]
      BY <1>1, <1>2, <1>5
    <3>2. left' \in [Tokens -> 0..sessionTTL]
      <4>1. sessionTTL \in 0..sessionTTL
        OBVIOUS
      <4> QED BY <1>2, <1>5, <4>1
    <3>3. issued' \in 0..MaxTokens /\ cookie' \in 0..MaxTokens
      BY <1>1, <1>2, <1>5, <2>2
    <3>4. /\ UNCHANGED <<boot, schemaVars>> /\ role' \in [Emails -> {"none", "admin", "user"}]
          /\ loggedOut' \subseteq Tokens /\ lostReplies' \in 0..MaxLostReplies
      BY <1>1 DEF SessionInv, CallsTyped, SessionTypeOK, bootVars
    <3> QED BY <1>1, <2>3, <3>1, <3>2, <3>3, <3>4, RequestTypes
  <2>5. TokensSuffice'
    <3>1. LoginTabs' \subseteq LoginTabs /\ LoginTabs' # LoginTabs
      BY <1>5, <2>1, <2>3, LoginsAfter
    <3>2. Cardinality(LoginTabs') \in Nat /\ Cardinality(LoginTabs') < Cardinality(LoginTabs)
      BY <3>1, NoNewLogin
    <3> QED BY <1>2, <1>5, <2>1, <3>2 DEF SessionInv, TokensSuffice
  <2>6. TokensIssued'
    BY <1>1, <1>2, <1>5, <2>3 DEF SessionInv, CallsTyped, SessionTypeOK, TokenInv, TokensIssued
  <2>7. IssuedKept'
    <3> SUFFICES ASSUME NEW k \in 1..(issued + 1)
                 PROVE  owner'[k] # NoOne \/ left'[k] = 0 \/ k \in loggedOut
      BY <1>1, <1>5 DEF IssuedKept
    <3>1. CASE k = issued + 1
      BY <1>1, <1>2, <1>5, <2>2, <3>1
    <3>2. CASE k # issued + 1
      BY <1>2, <1>5, <2>2, <3>2 DEF SessionInv, TokenInv, IssuedKept, Tokens
    <3> QED BY <3>1, <3>2
  <2>8. LoggedOutGone'
    <3> SUFFICES ASSUME NEW k \in loggedOut
                 PROVE  k <= issued + 1 /\ owner'[k] = NoOne
      BY <1>1, <1>5 DEF LoggedOutGone
    <3>1. k \in Tokens /\ k \in Nat /\ k <= issued /\ owner[k] = NoOne
      BY DEF SessionInv, CallsTyped, SessionTypeOK, TokenInv, LoggedOutGone, Tokens
    <3> QED BY <1>2, <1>5, <3>1
  <2> QED BY <1>3, <2>4, <2>5, <2>6, <2>7, <2>8 DEF SessionInv, TokenInv
<1> QED BY <1>4, <1>5 DEF InsertSession

LEMMA LogoutInv ==
    ASSUME SessionInv, NEW t \in Tabs, Logout(t)
    PROVE  SessionInv'
<1> USE SessionAssumption
<1>1. /\ UNCHANGED <<bootVars, left, issued, cookie, lostReplies>>
      /\ dbErrors' \in 0..MaxDbErrors
  BY DEF Logout, StatementFails, SessionInv, CallsTyped, SessionTypeOK
<1>2. /\ issued \in 0..MaxTokens /\ cookie \in 0..MaxTokens /\ cookie <= issued
      /\ call[t].token \in 0..MaxTokens /\ call[t].token <= issued
      /\ owner \in [Tokens -> Emails \cup {NoOne}] /\ loggedOut \subseteq Tokens
  BY DEF SessionInv, CallsTyped, SessionTypeOK, TokenInv, TokensIssued
<1>3. PICK c \in Call : /\ c.at = "answered" /\ c.kind = "none" /\ c.token = 0
                        /\ call' = [call EXCEPT ![t] = c]
  <2>1. 0 \in 0..MaxTokens
    OBVIOUS
  <2> QED BY <2>1, NoHandlerType DEF Logout, SetCookie
<1>4. \/ /\ owner' = [k \in Tokens |-> IF k = call[t].token THEN NoOne ELSE owner[k]]
         /\ loggedOut' = loggedOut \cup ({call[t].token} \ {0})
      \/ UNCHANGED <<owner, loggedOut>>
  BY DEF Logout, Deleted
<1>5. owner' \in [Tokens -> Emails \cup {NoOne}] /\ loggedOut' \subseteq Tokens
  <2>1. {call[t].token} \ {0} \subseteq Tokens
    BY <1>2 DEF Tokens
  <2> QED BY <1>2, <1>4, <2>1
<1>6. CallsTyped'
  <2>1. /\ UNCHANGED <<boot, schemaVars>> /\ role' \in [Emails -> {"none", "admin", "user"}]
        /\ left' \in [Tokens -> 0..sessionTTL] /\ lostReplies' \in 0..MaxLostReplies
        /\ issued' \in 0..MaxTokens /\ cookie' \in 0..MaxTokens
    BY <1>1 DEF SessionInv, CallsTyped, SessionTypeOK, bootVars
  <2> QED BY <1>1, <1>3, <1>5, <2>1, RequestTypes
<1>7. TokensSuffice'
  BY <1>1, <1>3, NoLoginMore
<1>8. TokensIssued'
  BY <1>1, <1>2, <1>3 DEF SessionInv, CallsTyped, TokenInv, TokensIssued
<1>9. (IssuedKept /\ LoggedOutGone)'
  <2>1. /\ \A k \in 1..issued : k \in Tokens
        /\ \A k \in loggedOut : k \in Tokens
        /\ call[t].token # 0 => call[t].token \in Tokens
    BY <1>2 DEF Tokens
  <2>2. CASE UNCHANGED <<owner, loggedOut>>
    BY <1>1, <2>2 DEF SessionInv, TokenInv, IssuedKept, LoggedOutGone
  <2>3. CASE /\ owner' = [k \in Tokens |-> IF k = call[t].token THEN NoOne ELSE owner[k]]
             /\ loggedOut' = loggedOut \cup ({call[t].token} \ {0})
    <3>1. IssuedKept'
      <4> SUFFICES ASSUME NEW k \in 1..issued
                   PROVE  owner'[k] # NoOne \/ left[k] = 0 \/ k \in loggedOut'
        BY <1>1 DEF IssuedKept
      <4> QED BY <2>1, <2>3 DEF SessionInv, TokenInv, IssuedKept
    <3>2. LoggedOutGone'
      BY <1>1, <1>2, <2>1, <2>3 DEF SessionInv, TokenInv, LoggedOutGone
    <3> QED BY <3>1, <3>2
  <2> QED BY <1>4, <2>2, <2>3
<1>10. StartupInv'
  BY <1>1, RequestKeepsStartup DEF bootVars, HasAdmin
<1> QED BY <1>6, <1>7, <1>8, <1>9, <1>10 DEF SessionInv, TokenInv

LEMMA AuthenticateInv ==
    ASSUME SessionInv, NEW t \in Tabs, Authenticate(t)
    PROVE  SessionInv'
<1> USE SessionAssumption
<1>1. /\ UNCHANGED <<bootVars, sessionVars, cookie, lostReplies>>
      /\ dbErrors' \in 0..MaxDbErrors
  BY DEF Authenticate, StatementFails, SessionInv, CallsTyped, SessionTypeOK
<1>2. UNCHANGED <<boot, schemaVars>> /\ role' \in [Emails -> {"none", "admin", "user"}]
      /\ HasAdmin' = HasAdmin
  BY <1>1 DEF SessionInv, CallsTyped, SessionTypeOK, bootVars, HasAdmin
<1>3. CASE Refuse(t)
  BY <1>1, <1>2, <1>3, RefuseInv
<1>4. CASE /\ Live(call[t].token)
           /\ call' = [call EXCEPT ![t].at = "serve", ![t].user = owner[call[t].token]]
  <2> DEFINE c == [call[t] EXCEPT !.at = "serve", !.user = owner[call[t].token]]
  <2>1. owner[call[t].token] \in Emails
    BY <1>4 DEF SessionInv, CallsTyped, SessionTypeOK, Live
  <2>2. call[t] \in Call /\ call[t].kind = "create" /\ call[t].token <= issued
    BY DEF Authenticate, SessionInv, CallsTyped, TokenInv, TokensIssued
  <2>3. /\ c \in Call /\ c.kind = "create" /\ c.at = "serve" /\ c.user \in Emails
        /\ c.token <= issued
    BY <2>1, <2>2 DEF Call, Places
  <2>4. call' = [call EXCEPT ![t] = c]
    BY <1>4 DEF SessionInv, CallsTyped
  <2> HIDE DEF c
  <2>5. CallsTyped'
    BY <1>1, <1>2, <2>3, <2>4, RequestTypes DEF SessionInv, CallsTyped, SessionTypeOK, sessionVars
  <2>6. TokensSuffice'
    BY <1>1, <2>3, <2>4, NoLoginMore DEF sessionVars
  <2>7. TokenInv'
    BY <1>1, <2>3, <2>4, TokensKept DEF SessionInv, TokenInv, TokensIssued
  <2>8. StartupInv'
    BY <1>2, RequestKeepsStartup
  <2> QED BY <2>5, <2>6, <2>7, <2>8 DEF SessionInv
<1> QED BY <1>3, <1>4 DEF Authenticate

LEMMA CreateUserInv ==
    ASSUME SessionInv, NEW t \in Tabs, CreateUser(t)
    PROVE  SessionInv'
<1>1. /\ UNCHANGED <<boot, schemaVars, sessionVars, cookie, lostReplies>> /\ Refuse(t)
      /\ dbErrors' \in 0..MaxDbErrors
  BY SessionAssumption DEF CreateUser, StatementFails, SessionInv, CallsTyped, SessionTypeOK
<1>2. role' \in [Emails -> {"none", "admin", "user"}] /\ (HasAdmin => HasAdmin')
  BY DEF CreateUser, SessionInv, CallsTyped, SessionTypeOK, HasAdmin
<1> QED BY <1>1, <1>2, RefuseInv

LEMMA AnswerInv ==
    ASSUME SessionInv, NEW t \in Tabs, Answer(t)
    PROVE  SessionInv'
<1> USE SessionAssumption
<1>1. /\ UNCHANGED <<bootVars, sessionVars, dbErrors>>
      /\ lostReplies' \in 0..MaxLostReplies
      /\ cookie' \in {cookie, call[t].token}
      /\ call' = [call EXCEPT ![t] = Idle]
  BY DEF Answer, SessionInv, CallsTyped, SessionTypeOK
<1>2. Idle \in Call /\ Idle.kind = "none" /\ Idle.at = "idle" /\ Idle.token = 0
  BY NoHandlerType DEF Idle
<1>3. cookie' \in 0..MaxTokens /\ cookie' <= issued /\ Idle.token <= issued
  BY <1>1, <1>2 DEF SessionInv, CallsTyped, SessionTypeOK, TokenInv, TokensIssued
<1>4. CallsTyped'
  BY <1>1, <1>2, <1>3, RequestTypes DEF SessionInv, CallsTyped, SessionTypeOK, sessionVars, bootVars
<1>5. TokensSuffice'
  BY <1>1, <1>2, NoLoginMore DEF sessionVars
<1>6. TokenInv'
  BY <1>1, <1>2, <1>3, TokensKept
<1>7. StartupInv'
  BY <1>1, RequestKeepsStartup DEF bootVars, HasAdmin
<1> QED BY <1>4, <1>5, <1>6, <1>7 DEF SessionInv

(* Time only runs down what is left of the live sessions.                     *)
LEMMA TimePassesInv == SessionInv /\ TimePasses => SessionInv'
<1> SUFFICES ASSUME SessionInv, TimePasses PROVE SessionInv'
  OBVIOUS
<1>1. UNCHANGED <<bootVars, owner, issued, loggedOut, cookie, call, dbErrors, lostReplies>>
  BY DEF TimePasses
<1>2. /\ left' \in [Tokens -> 0..sessionTTL]
      /\ \A k \in Tokens : left[k] = 0 => left'[k] = 0
  BY SessionAssumption DEF TimePasses, SessionInv, CallsTyped, SessionTypeOK, Live
<1>3. CallsTyped'
  BY <1>1, <1>2 DEF SessionInv, CallsTyped, SessionTypeOK, bootVars, schemaVars
<1>4. LoginTabs' = LoginTabs
  BY <1>1 DEF LoginTabs
<1>5. TokensSuffice'
  BY <1>1, <1>4 DEF SessionInv, TokensSuffice
<1>6. TokenInv'
  <2>1. \A k \in 1..issued : k \in Tokens
    BY SessionAssumption DEF SessionInv, CallsTyped, SessionTypeOK, Tokens
  <2> QED BY <1>1, <1>2, <2>1 DEF SessionInv, TokenInv, TokensIssued, IssuedKept, LoggedOutGone
<1>7. StartupInv'
  BY <1>1, RequestKeepsStartup DEF bootVars, HasAdmin
<1> QED BY <1>3, <1>5, <1>6, <1>7 DEF SessionInv

LEMMA SessionInductive == SessionInv /\ [Next]_vars => SessionInv'
<1> SUFFICES ASSUME SessionInv, [Next]_vars PROVE SessionInv'
  OBVIOUS
<1>1. CASE UNCHANGED vars
  <2>1. UNCHANGED <<bootVars, sessionVars, cookie, call, dbErrors, lostReplies>>
    BY <1>1 DEF vars
  <2>2. CallsTyped'
    BY <2>1 DEF SessionInv, CallsTyped, SessionTypeOK, bootVars, schemaVars, sessionVars
  <2>3. TokensSuffice' /\ TokenInv'
    BY <2>1, StartupKeepsSessions
  <2>4. StartupInv'
    BY <2>1, RequestKeepsStartup DEF bootVars, HasAdmin
  <2> QED BY <2>2, <2>3, <2>4 DEF SessionInv
<1>2. CASE Next
  BY <1>2, StartupStepInv, SendInv, LoginCheckInv, InsertSessionInv, LogoutInv,
     AuthenticateInv, CreateUserInv, AnswerInv, TimePassesInv
  DEF Next, Handle
<1> QED BY <1>1, <1>2

----------------------------------------------------------------------------
(* The theorems.                                                              *)

(* SessionInv holds in every state: through races of replicas at start-up,    *)
(* failing statements, lost answers and requests that overlap.                *)
THEOREM SessionsCorrect == SessionSpec => []SessionInv
<1>1. Init => SessionInv
  BY SessionInitInv
<1>2. SessionInv /\ [Next]_vars => SessionInv'
  BY SessionInductive
<1> QED BY <1>1, <1>2, PTL DEF SessionSpec

(* Types, among them that logins under way never run out of tokens.           *)
THEOREM SessionTypesCorrect == SessionSpec => []SessionTypeOK
<1>1. SessionInv => SessionTypeOK
  BY DEF SessionInv, CallsTyped
<1> QED BY <1>1, SessionsCorrect, PTL

(* However many replicas start together, race for the columns and for the     *)
(* first administrator, and fail half-way (EnsureSchema,                      *)
(* EnsureBootstrapAdmin): one serves only on a complete schema with an        *)
(* administrator.                                                             *)
THEOREM ServesOnlyWhenReady == SessionSpec => []ReadyBeforeServing
<1>1. SessionInv => ReadyBeforeServing
  BY DEF SessionInv, StartupInv, PastSchema, PastBootstrap, ReadyBeforeServing, Serving, HasAdmin
<1> QED BY <1>1, SessionsCorrect, PTL

(* The browser's cookie names a row until it expires or is logged out: no     *)
(* order of logins, logouts, clean-ups and lost answers of the tabs takes it  *)
(* away (handleLogin, handleLogout).                                          *)
THEOREM SignedInUntilLogout == SessionSpec => []SignedInStays
<1>1. SessionInv => SignedInStays
  <2> SUFFICES ASSUME SessionInv, cookie # 0
               PROVE  Live(cookie) \/ left[cookie] = 0 \/ cookie \in loggedOut
    BY DEF SignedInStays
  <2>1. cookie \in 1..issued /\ cookie \in Tokens /\ left[cookie] \in Nat
    BY SessionAssumption DEF SessionInv, CallsTyped, SessionTypeOK, TokenInv, TokensIssued, Tokens
  <2> QED BY <2>1 DEF SessionInv, TokenInv, IssuedKept, Live
<1> QED BY <1>1, SessionsCorrect, PTL

(* Only requireAuth lets a request through, and only with a live row.         *)
LEMMA LetThroughIsLive ==
    ASSUME SessionInv, Next, NEW t \in Tabs, call[t].at = "server", call'[t].at = "serve"
    PROVE  Live(call[t].token)
<1> USE DEF SessionInv, CallsTyped
<1>1. CASE UNCHANGED call
  BY <1>1
<1>2. ASSUME NEW u \in Tabs, Refuse(u) PROVE FALSE
  BY <1>2, NoHandlerType, SessionAssumption DEF Refuse
<1>3. ASSUME NEW u \in Tabs, NEW k \in 0..MaxTokens, SetCookie(u, k) PROVE FALSE
  BY <1>3, NoHandlerType DEF SetCookie
<1>4. ASSUME NEW u \in Tabs, Answer(u) PROVE FALSE
  BY <1>4 DEF Answer, Idle, NoHandler
<1>5. ASSUME NEW u \in Tabs, NEW kind, Send(u, kind) PROVE FALSE
  BY <1>5 DEF Send
<1>6. ASSUME NEW u \in Tabs, LoginCheck(u) PROVE FALSE
  <2>1. CASE \E e \in Emails : call' = [call EXCEPT ![u].at = "insert", ![u].user = e]
    BY <2>1
  <2> QED BY <1>2, <1>6, <2>1 DEF LoginCheck
<1>7. ASSUME NEW u \in Tabs, InsertSession(u) PROVE FALSE
  <2>1. issued + 1 \in 0..MaxTokens \/ Refuse(u)
    <3>1. u \in LoginTabs /\ Cardinality(LoginTabs) \in Nat \ {0}
      <4>1. u \in LoginTabs
        BY <1>7 DEF InsertSession, LoginTabs
      <4> QED BY <4>1, LoginTabsFinite, FS_EmptySet
    <3> QED BY <3>1, SessionAssumption DEF TokensSuffice, SessionTypeOK
  <2> QED BY <1>2, <1>3, <1>7, <2>1 DEF InsertSession
<1>8. ASSUME NEW u \in Tabs, Logout(u) PROVE FALSE
  BY <1>3, <1>8, SessionAssumption DEF Logout
<1>9. ASSUME NEW u \in Tabs, CreateUser(u) PROVE FALSE
  BY <1>2, <1>9 DEF CreateUser
<1>10. ASSUME NEW u \in Tabs, Authenticate(u) PROVE Live(call[t].token)
  BY <1>2, <1>10 DEF Authenticate
<1>11. ASSUME NEW r \in Replicas, Startup(r) PROVE UNCHANGED call
  BY <1>11 DEF Startup, ReadColumns, AddColumn, CountAdmins, InsertAdmin, RestartReplica
<1>12. TimePasses => UNCHANGED call
  BY DEF TimePasses
<1> QED
  BY <1>1, <1>4, <1>5, <1>6, <1>7, <1>8, <1>9, <1>10, <1>11, <1>12 DEF Next, Handle

(* A logout is final: no request is ever let through with a token whose       *)
(* logout succeeded, whoever still holds it (requireAuth, handleLogout).      *)
THEOREM LoggedOutStaysOut == SessionSpec => LogoutIsFinal
<1>1. SessionInv /\ [Next]_vars =>
        [\A t \in Tabs : call[t].at = "server" /\ call'[t].at = "serve"
                              => call[t].token \notin loggedOut]_vars
  <2> SUFFICES ASSUME SessionInv, Next,
                      NEW t \in Tabs, call[t].at = "server", call'[t].at = "serve"
               PROVE  call[t].token \notin loggedOut
    OBVIOUS
  <2>1. Live(call[t].token)
    BY LetThroughIsLive
  <2> QED BY <2>1 DEF SessionInv, TokenInv, LoggedOutGone, Live
<1> QED BY <1>1, SessionsCorrect, PTL DEF SessionSpec, LogoutIsFinal
=============================================================================
