------------------------------ MODULE Firewall ------------------------------
(* Blocking one IP address: handleSecurityBlock and recordFirewallResult     *)
(* (security.go), FirewallClient.request (firewall_client.go), the host's    *)
(* firewall agent (cmd/firewall-agent) and the kernel's ipset and DROP rule. *)
(* What the dashboard shows (the row of firewall_blocks) and what the kernel *)
(* enforces (the ipset entry) are two states that no transaction spans: each *)
(* request changes the second through the agent, then the first by what it   *)
(* was told.  The kernel's state can also change behind both.                *)
(*                                                                           *)
(* One address stands for all: no step touches two.  Time is kept as what is *)
(* left of a block; Forever is a block without timeout.                      *)
EXTENDS Naturals, FiniteSets

CONSTANTS
    MaxRequests,     \* bound: requests the administrators make
    Duration,        \* length of a block with a timeout, in clock steps
    MaxFaults        \* bound: kinds of fault that happen, each once

ASSUME FirewallAssumption ==
    Duration \in Nat \ {0} /\ MaxFaults \in Nat /\ MaxRequests \in Nat

VARIABLES
    row,        \* durable: firewall_blocks; active, and then what is left of it
    ipset,      \* the kernel's entry: what is left of the block, 0 is none
    req,        \* request -> its action and where its handler is
    agent,      \* request -> where the agent's goroutine for it is
    audit,      \* security_audit_log: the requests recorded, with the outcome
    rule,       \* is the rule that drops what the ipset matches in the chain?
    up,         \* does the agent listen on its socket?
    overlapped, \* history: did two requests run at the same time?
    faults      \* history: the faults so far

hostVars == <<rule, up>>
faultVars == <<overlapped, faults>>
firewallVars == <<row, ipset, req, agent, audit, hostVars, faultVars>>

Fault(kind) ==
    /\ kind \notin faults /\ Cardinality(faults) < MaxFaults
    /\ faults' = faults \cup {kind}

Requests == 1..MaxRequests
Forever == Duration + 1
Actions == {[op |-> "block", left |-> Duration], [op |-> "block", left |-> Forever],
            [op |-> "unblock", left |-> 0]}
NoAction == [op |-> "none", left |-> 0]
Inactive == [active |-> FALSE, left |-> 0]

----------------------------------------------------------------------------
(* Some request is under way.                                                 *)
Busy == \E r \in Requests : req[r].at \notin {"new", "done"}

(* A handler is through: its action matters only to a goroutine of the agent   *)
(* that has yet to carry it out.                                              *)
Finished(r) == [at |-> "done", act |-> IF agent[r] = "received" THEN req[r].act ELSE NoAction]

(* Requests are numbered in the order in which they are made.                 *)
IsNext(r) == req[r].at = "new" /\ \A q \in 1..(r - 1) : req[q].at # "new"

(* handleSecurityBlock passes its checks and the client sends the request.    *)
SendRequest(r) ==
    /\ IsNext(r) /\ up
    /\ \E a \in Actions : req' = [req EXCEPT ![r] = [at |-> "waiting", act |-> a]]
    /\ agent' = [agent EXCEPT ![r] = "received"]
    /\ overlapped' = (overlapped \/ Busy)
    /\ UNCHANGED <<row, ipset, audit, hostVars, faults>>

(* Nobody listens on the socket: the handler has its error at once.           *)
ConnectFails(r) ==
    /\ IsNext(r) /\ ~up
    /\ overlapped' = (overlapped \/ Busy)
    /\ \E a \in Actions : req' = [req EXCEPT ![r] = [at |-> "failed", act |-> a]]
    /\ UNCHANGED <<row, ipset, agent, audit, hostVars, faults>>

(* The agent runs ipset add -exist (which replaces the timeout) or ipset del. *)
IpsetTimeout(act) == act.left

AgentExecutes(r) ==
    /\ agent[r] = "received"
    /\ ipset' = IpsetTimeout(req[r].act)
    /\ agent' = [agent EXCEPT ![r] = "ok"]
    /\ UNCHANGED <<row, req, audit, hostVars, faultVars>>

(* The command fails, or the agent refuses the address: nothing changes.      *)
AgentFails(r) ==
    /\ agent[r] = "received" /\ Fault("failure")
    /\ agent' = [agent EXCEPT ![r] = "error"]
    /\ UNCHANGED <<row, ipset, req, audit, hostVars, overlapped>>

(* The client decodes the answer.                                             *)
ReadResponse(r) ==
    /\ req[r].at = "waiting" /\ agent[r] \in {"ok", "error"}
    /\ req' = [req EXCEPT ![r].at = IF agent[r] = "ok" THEN "succeeded" ELSE "failed"]
    /\ UNCHANGED <<row, ipset, agent, audit, hostVars, faultVars>>

(* The client's five seconds are over; the agent's goroutine goes on.         *)
RequestTimesOut(r) ==
    /\ req[r].at = "waiting" /\ Fault("timeout")
    /\ req' = [req EXCEPT ![r].at = "failed"]
    /\ UNCHANGED <<row, ipset, agent, audit, hostVars, overlapped>>

(* What is left of a timeout a clock step later.                              *)
LeftBelowZero(n) == IF n # Forever THEN n - 1 ELSE n             \* mutant
Left(n) == IF n \in 1..Duration THEN n - 1 ELSE n

(* recordFirewallResult: a block leaves the row active if it succeeded and    *)
(* inactive if it did not; an unblock leaves the row inactive either way.     *)
(* The expiry is counted from now, not from the agent's command; a row that is *)
(* not active has none here, since a sweep only asks for it of active rows.   *)
(* The row and the audit entry are one transaction.                           *)
AlwaysSucceeded(r) == TRUE                                       \* mutant
Succeeded(r) == req[r].at = "succeeded"
ExpiryOfRequest(act) == Left(act.left)                           \* mutant
Expiry(act) == act.left
BlocksOnly(r) ==                                                 \* mutant
    {[request |-> x, success |-> TRUE] : x \in {y \in {r} : req[y].act.op = "block"}}
AuditEntry(r) == {[request |-> r, success |-> Succeeded(r)]}

recordFirewallResult(r) ==
    LET act == req[r].act
    IN /\ req[r].at \in {"succeeded", "failed"}
       /\ row' = IF act.op = "block" /\ Succeeded(r)
                 THEN [active |-> TRUE, left |-> Expiry(act)] ELSE Inactive
       /\ audit' = audit \cup AuditEntry(r)
       /\ req' = [req EXCEPT ![r] = Finished(r)]
       /\ UNCHANGED <<ipset, agent, hostVars, faultVars>>

(* The API dies before it records the result, or PostgreSQL refuses it.       *)
ResultLost(r) ==
    /\ req[r].at \in {"waiting", "succeeded", "failed"} /\ Fault("lost")
    /\ req' = [req EXCEPT ![r] = Finished(r)]
    /\ UNCHANGED <<row, ipset, agent, audit, hostVars, overlapped>>

(* A clock step: the kernel drops an entry whose timeout is over.             *)
TimePasses ==
    /\ ipset' = Left(ipset)
    /\ row' = [row EXCEPT !.left = Left(@)]
    /\ <<ipset', row'>> # <<ipset, row>>
    /\ UNCHANGED <<req, agent, audit, hostVars, faultVars>>

----------------------------------------------------------------------------
(* The host.  ensureFirewall creates what is missing and keeps what is there:  *)
(* the sets, and the rule if iptables -C does not find it.                    *)
CreateSetsOnly == UNCHANGED rule                                 \* mutant
ensureFirewall == rule' = TRUE

(* The agent's main, when systemd or an administrator starts it.              *)
AgentStarts ==
    /\ ~up
    /\ ensureFirewall
    /\ up' = TRUE
    /\ UNCHANGED <<row, ipset, req, agent, audit, faultVars>>

(* The goroutines that have not run their command yet are gone with it.       *)
Aborted == [r \in Requests |-> IF agent[r] = "received" THEN "error" ELSE agent[r]]

(* The agent ends: main waits for no goroutine, so one that has run its command *)
(* may be gone before it answers, and its handler finds the connection closed. *)
(* The unit file has no Restart.  The kernel's state stays.                   *)
Answering == {r \in Requests : agent[r] = "ok" /\ req[r].at = "waiting"}

AgentStops ==
    /\ up /\ Fault("stop")
    /\ up' = FALSE /\ agent' = Aborted
    /\ \E unanswered \in SUBSET Answering :
         req' = [r \in Requests |-> IF r \in unanswered THEN [req[r] EXCEPT !.at = "failed"]
                                    ELSE req[r]]
    /\ UNCHANGED <<row, ipset, rule, audit, overlapped>>

(* The host reboots: sets and rules are gone, and so are the agent, the API    *)
(* and its requests.  The rows stay, and nobody adds their blocks again.      *)
Reboot ==
    /\ Fault("reboot")
    /\ ipset' = 0 /\ rule' = FALSE /\ up' = FALSE /\ agent' = Aborted
    /\ req' = [r \in Requests |-> IF req[r].at = "new" THEN req[r]
                                  ELSE [at |-> "done", act |-> NoAction]]
    /\ UNCHANGED <<row, audit, overlapped>>

(* Another program rewrites the chain (a firewall reload, Docker).            *)
RulesReloaded ==
    /\ Fault("reload")
    /\ rule' = FALSE
    /\ UNCHANGED <<row, ipset, req, agent, audit, up, overlapped>>

(* handleSecurity first closes the rows whose expiry is over, and at the end   *)
(* asks the agent for its status, which ensures the firewall again.           *)
NotSwept == FALSE                                                \* mutant
RowExpired == row.active /\ row.left = 0

handleSecurity ==
    /\ row' = IF RowExpired THEN Inactive ELSE row
    /\ IF up THEN ensureFirewall ELSE UNCHANGED rule
    /\ UNCHANGED <<ipset, req, agent, audit, up, faultVars>>

FirewallInit ==
    /\ row = Inactive /\ ipset = 0
    /\ req = [r \in Requests |-> [at |-> "new", act |-> NoAction]]
    /\ agent = [r \in Requests |-> "idle"]
    /\ audit = {} /\ rule = TRUE /\ up = TRUE /\ overlapped = FALSE /\ faults = {}

FirewallNext ==
    \/ \E r \in Requests :
         \/ SendRequest(r) \/ ConnectFails(r)
         \/ AgentExecutes(r) \/ AgentFails(r)
         \/ ReadResponse(r) \/ RequestTimesOut(r)
         \/ recordFirewallResult(r) \/ ResultLost(r)
    \/ TimePasses \/ handleSecurity
    \/ AgentStarts \/ AgentStops \/ Reboot \/ RulesReloaded

(* Handlers and agent goroutines finish what they began, the clock goes on    *)
(* and the dashboard is looked at.  Nothing restarts a stopped agent.         *)
FirewallFairness ==
    /\ \A r \in Requests : /\ WF_firewallVars(AgentExecutes(r) \/ AgentFails(r))
                           /\ WF_firewallVars(ReadResponse(r) \/ RequestTimesOut(r))
                           /\ WF_firewallVars(recordFirewallResult(r))
    /\ WF_firewallVars(TimePasses) /\ WF_firewallVars(handleSecurity)

FirewallSpec == FirewallInit /\ [][FirewallNext]_firewallVars /\ FirewallFairness

----------------------------------------------------------------------------
(* Properties.                                                               *)

(* The types of row, kernel entry, requests and agent; what is left of a block *)
(* never runs below zero.                                                     *)
FirewallTypeOK ==
    /\ row \in [active : BOOLEAN, left : 0..Forever]
    /\ ipset \in 0..Forever
    /\ req \in [Requests -> [at : {"new", "waiting", "succeeded", "failed", "done"},
                             act : Actions \cup {NoAction}]]
    /\ agent \in [Requests -> {"idle", "received", "ok", "error"}]
    /\ audit \subseteq [request : Requests, success : BOOLEAN]
    /\ rule \in BOOLEAN /\ up \in BOOLEAN /\ overlapped \in BOOLEAN
    /\ faults \subseteq {"failure", "timeout", "lost", "stop", "reboot", "reload"}

(* No request is under way, and those made so far came one after the other,    *)
(* were answered in time and recorded; the host has not rebooted.             *)
Quiet == ~Busy /\ ~overlapped /\ faults \cap {"timeout", "lost", "reboot"} = {}

(* An address shown as permanently blocked is: requests made one after the    *)
(* other whose answers arrive in time, even if commands fail or the agent is   *)
(* down, never leave the dashboard claiming a block the kernel does not have. *)
ActiveIsEnforced == Quiet /\ row.active /\ row.left = Forever => ipset = Forever

(* "Blocked IPs" (page.tsx:722): an address the kernel blocks is shown as      *)
(* blocked, so that an administrator can unblock it.                          *)
EnforcedIsShown == Quiet /\ ipset # 0 => row.active

(* What recordFirewallResult does guarantee: that holds while no command       *)
(* fails, also when the row expires and when blocks are renewed.              *)
ShownWhileReliable == faults \cap {"failure", "stop"} = {} => EnforcedIsShown

(* Nothing is done behind the audit log's back: each command the agent has    *)
(* carried out is recorded in the end, whatever answer came back and however   *)
(* requests overlapped, unless the API died on the way.                       *)
EveryCommandAudited ==
    []<>(\/ faults \cap {"lost", "reboot"} # {}
         \/ \A r \in Requests : agent[r] = "ok" => \E a \in audit : a.request = r)

(* A timed block ends, in the kernel and on the dashboard, unless it is made  *)
(* permanent; whatever was lost, late or concurrent on the way.  (Requests    *)
(* are finitely many, so no block is renewed for ever.)                       *)
TimedBlocksEnd ==
    /\ []<>(ipset \in {0, Forever})
    /\ []<>(~row.active \/ row.left = Forever)

(* A set nobody matches against blocks nothing: while the agent runs, the      *)
(* DROP rule comes back, whoever removed it and when.                         *)
RuleReturns == []<>(rule \/ ~up)
=============================================================================
