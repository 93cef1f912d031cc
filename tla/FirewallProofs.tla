--------------------------- MODULE FirewallProofs ---------------------------
(* Theorems about blocking and unblocking an address, for any number of      *)
(* requests and faults and any length of a block.                            *)
EXTENDS Firewall, TLAPS

ReqState == [at : {"new", "waiting", "succeeded", "failed", "done"},
             act : Actions \cup {NoAction}]
UnderWay(r) == req[r].at \in {"waiting", "succeeded", "failed"}

(* The kernel has what the request asked for, and the row is yet to follow.   *)
Carried(r) == UnderWay(r) /\ agent[r] = "ok"

(* Requests came one after the other, were answered in time and recorded, and *)
(* the host has not rebooted.                                                 *)
Orderly == ~overlapped /\ faults \cap {"timeout", "lost", "reboot"} = {}
Reliable == Orderly /\ faults \cap {"failure", "stop"} = {}

(* Handler and goroutine of a request are in step: nobody executes a command  *)
(* whose handler is gone, and a handler told of success is told the truth.    *)
(* (One told of a failure may not be: an agent that stops can run a command   *)
(* and not answer.)                                                           *)
InStep ==
    \A r \in Requests :
        /\ req[r].at = "new" => agent[r] = "idle"
        /\ req[r].at = "done" => agent[r] # "received"
        /\ req[r].at = "succeeded" => agent[r] = "ok"
        /\ req[r].at = "failed" => agent[r] # "received"
OneAtATime == \A r, q \in Requests : UnderWay(r) /\ UnderWay(q) => r = q

(* A request under way carries what the administrator asked for.              *)
Asked == \A r \in Requests : UnderWay(r) => req[r].act \in Actions

(* The row agrees with the kernel, but for the one request whose command has  *)
(* been carried out and not recorded: then the kernel agrees with that.       *)
Enforced ==
    /\ \A r \in Requests : Carried(r) /\ req[r].act.left = Forever => ipset = Forever
    /\ (\A r \in Requests : ~Carried(r)) /\ row.active /\ row.left = Forever => ipset = Forever

(* The row outlives the kernel's entry, while every command succeeds.         *)
Shown ==
    /\ up
    /\ \A r \in Requests : req[r].at # "failed" /\ agent[r] # "error"
    /\ \A r \in Requests : Carried(r) => ipset <= req[r].act.left
    /\ (\A r \in Requests : ~Carried(r)) /\ ipset # 0 => row.active /\ ipset <= row.left

FirewallInv ==
    /\ FirewallTypeOK /\ Asked
    /\ Orderly => InStep /\ OneAtATime /\ Enforced
    /\ Reliable => Shown

----------------------------------------------------------------------------
LEMMA ActionTypes ==
    /\ Forever \in Nat /\ Forever > Duration /\ Duration \in Nat /\ Duration > 0
    /\ NoAction.left = 0
    /\ \A a \in Actions : /\ a.left \in 0..Forever
                          /\ a.op = "block" => a.left \in {Duration, Forever}
                          /\ a.op # "block" => a.left = 0
    /\ \A a \in Actions \cup {NoAction} : a.left \in 0..Forever
BY FirewallAssumption DEF Forever, Actions, NoAction

(* A clock step keeps what has no timeout and the order of what is left.      *)
LEMMA LeftProperties ==
    ASSUME NEW m \in 0..Forever, NEW n \in 0..Forever
    PROVE  /\ Left(m) \in 0..Forever /\ Left(m) <= m
           /\ (m <= n => Left(m) <= Left(n))
           /\ (Left(m) = Forever <=> m = Forever)
BY FirewallAssumption DEF Left, Forever

LEMMA FirewallInitInv == FirewallInit => FirewallInv
<1> SUFFICES ASSUME FirewallInit PROVE FirewallInv
  OBVIOUS
<1>1. /\ NoAction \in Actions \cup {NoAction}
      /\ 0 \in 0..Forever /\ Forever # 0
  BY ActionTypes
<1>2. \A r \in Requests : /\ req[r] = [at |-> "new", act |-> NoAction]
                          /\ req[r].at = "new" /\ agent[r] = "idle"
  BY DEF FirewallInit
<1>3. req \in [Requests -> ReqState]
  BY <1>1 DEF FirewallInit, ReqState
<1>4. FirewallTypeOK
  BY <1>1, <1>3 DEF FirewallInit, FirewallTypeOK, ReqState, Inactive
<1>5. Asked /\ InStep /\ OneAtATime
  BY <1>2 DEF Asked, InStep, OneAtATime, UnderWay
<1>6. Enforced /\ Shown
  BY <1>2 DEF FirewallInit, Enforced, Shown, Carried, UnderWay, Inactive
<1> QED BY <1>4, <1>5, <1>6 DEF FirewallInv

(* Faults are not undone.                                                     *)
LEMMA StaysOrderly ==
    ASSUME faults \subseteq faults', overlapped => overlapped'
    PROVE  (Orderly' => Orderly) /\ (Reliable' => Reliable)
BY DEF Orderly, Reliable

----------------------------------------------------------------------------
(* One lemma per step.                                                       *)

LEMMA SendRequestInv ==
    ASSUME FirewallInv, NEW r \in Requests, SendRequest(r)
    PROVE  FirewallInv'
<1>1. PICK a \in Actions : req' = [req EXCEPT ![r] = [at |-> "waiting", act |-> a]]
  BY DEF SendRequest
<1>2. /\ agent' = [agent EXCEPT ![r] = "received"]
      /\ overlapped' = (overlapped \/ Busy)
      /\ UNCHANGED <<row, ipset, audit, rule, up, faults>>
      /\ req[r].at = "new"
  BY DEF SendRequest, IsNext, hostVars
<1>3. /\ req \in [Requests -> ReqState] /\ agent \in [Requests -> {"idle", "received", "ok", "error"}]
      /\ overlapped \in BOOLEAN
  BY DEF FirewallInv, FirewallTypeOK, ReqState
<1>4. /\ req' \in [Requests -> ReqState]
      /\ req'[r].at = "waiting" /\ req'[r].act = a /\ agent'[r] = "received"
      /\ \A q \in Requests : q # r => req'[q] = req[q] /\ agent'[q] = agent[q]
  BY <1>1, <1>2, <1>3 DEF ReqState
<1>5. FirewallTypeOK'
  BY <1>2, <1>3, <1>4 DEF FirewallInv, FirewallTypeOK, ReqState
<1>6. Asked'
  BY <1>4 DEF FirewallInv, Asked, UnderWay
<1>7. (Orderly' => Orderly) /\ (Reliable' => Reliable)
  BY <1>2, StaysOrderly
<1>8. \A q \in Requests : Carried(q)' = Carried(q)
  BY <1>2, <1>4 DEF Carried, UnderWay
<1>9. Orderly' => ~Busy
  BY <1>2, <1>3 DEF Orderly
<1>10. Orderly' => (InStep /\ OneAtATime)'
  <2> SUFFICES ASSUME Orderly' PROVE (InStep /\ OneAtATime)'
    OBVIOUS
  <2>1. \A q \in Requests : q # r => ~UnderWay(q)'
    BY <1>4, <1>9 DEF UnderWay, Busy
  <2>2. OneAtATime'
    BY <2>1 DEF OneAtATime
  <2>3. InStep'
    BY <1>4, <1>7 DEF FirewallInv, InStep
  <2> QED BY <2>2, <2>3
<1>11. Orderly' => Enforced'
  BY <1>2, <1>4, <1>7, <1>8 DEF FirewallInv, Enforced, Carried, UnderWay
<1>12. Reliable' => Shown'
  BY <1>2, <1>4, <1>7, <1>8 DEF FirewallInv, Shown, Carried, UnderWay
<1> QED BY <1>5, <1>6, <1>10, <1>11, <1>12 DEF FirewallInv

LEMMA ConnectFailsInv ==
    ASSUME FirewallInv, NEW r \in Requests, ConnectFails(r)
    PROVE  FirewallInv'
<1>1. PICK a \in Actions : req' = [req EXCEPT ![r] = [at |-> "failed", act |-> a]]
  BY DEF ConnectFails
<1>2. /\ overlapped' = (overlapped \/ Busy)
      /\ UNCHANGED <<row, ipset, agent, audit, rule, up, faults>>
      /\ req[r].at = "new" /\ ~up
  BY DEF ConnectFails, IsNext, hostVars
<1>3. req \in [Requests -> ReqState] /\ overlapped \in BOOLEAN
  BY DEF FirewallInv, FirewallTypeOK, ReqState
<1>4. /\ req' \in [Requests -> ReqState]
      /\ req'[r].at = "failed" /\ req'[r].act = a
      /\ \A q \in Requests : q # r => req'[q] = req[q]
  BY <1>1, <1>3 DEF ReqState
<1>5. FirewallTypeOK'
  BY <1>2, <1>3, <1>4 DEF FirewallInv, FirewallTypeOK, ReqState
<1>6. Asked'
  BY <1>4 DEF FirewallInv, Asked, UnderWay
<1>7. (Orderly' => Orderly) /\ (Reliable' => Reliable)
  BY <1>2, StaysOrderly
<1>8. Orderly => \A q \in Requests : Carried(q)' = Carried(q)
  BY <1>2, <1>4 DEF FirewallInv, InStep, Carried, UnderWay
<1>9. Orderly' => ~Busy
  BY <1>2, <1>3 DEF Orderly
<1>10. Orderly' => (InStep /\ OneAtATime)'
  <2> SUFFICES ASSUME Orderly' PROVE (InStep /\ OneAtATime)'
    OBVIOUS
  <2>1. \A q \in Requests : q # r => ~UnderWay(q)'
    BY <1>4, <1>9 DEF UnderWay, Busy
  <2>2. OneAtATime'
    BY <2>1 DEF OneAtATime
  <2>3. agent[r] # "received"
    BY <1>2, <1>7 DEF FirewallInv, InStep
  <2>4. InStep'
    BY <1>2, <1>4, <1>7, <2>3 DEF FirewallInv, InStep
  <2> QED BY <2>2, <2>4
<1>11. Orderly' => Enforced'
  BY <1>2, <1>4, <1>7, <1>8 DEF FirewallInv, Enforced, Carried, UnderWay
<1>12. ~Reliable'
  BY <1>2, <1>7 DEF FirewallInv, Shown
<1> QED BY <1>5, <1>6, <1>10, <1>11, <1>12 DEF FirewallInv

LEMMA AgentExecutesInv ==
    ASSUME FirewallInv, NEW r \in Requests, AgentExecutes(r)
    PROVE  FirewallInv'
<1>1. /\ agent' = [agent EXCEPT ![r] = "ok"] /\ agent[r] = "received"
      /\ ipset' = req[r].act.left
      /\ UNCHANGED <<row, req, audit, rule, up, overlapped, faults>>
  BY DEF AgentExecutes, IpsetTimeout, hostVars, faultVars
<1>2. /\ req \in [Requests -> ReqState] /\ agent \in [Requests -> {"idle", "received", "ok", "error"}]
      /\ ipset \in 0..Forever
  BY DEF FirewallInv, FirewallTypeOK, ReqState
<1>3. /\ agent' \in [Requests -> {"idle", "received", "ok", "error"}] /\ agent'[r] = "ok"
      /\ \A q \in Requests : q # r => agent'[q] = agent[q]
  BY <1>1, <1>2
<1>4. ipset' \in 0..Forever
  BY <1>1, <1>2, ActionTypes DEF ReqState
<1>5. FirewallTypeOK'
  BY <1>1, <1>3, <1>4 DEF FirewallInv, FirewallTypeOK
<1>6. Asked'
  BY <1>1 DEF FirewallInv, Asked, UnderWay
<1>7. (Orderly' => Orderly) /\ (Reliable' => Reliable)
  BY <1>1, StaysOrderly
<1>8. Orderly => req[r].at = "waiting" /\ \A q \in Requests : q # r => ~UnderWay(q)
  BY <1>1, <1>2 DEF FirewallInv, InStep, OneAtATime, UnderWay, ReqState
<1>9. Orderly' => (InStep /\ OneAtATime)'
  BY <1>1, <1>3, <1>7, <1>8 DEF FirewallInv, InStep, OneAtATime, UnderWay
<1>10. Orderly => Carried(r)' /\ \A q \in Requests : q # r => ~Carried(q)'
  BY <1>1, <1>3, <1>8 DEF Carried, UnderWay
<1>11. Orderly' => Enforced'
  BY <1>1, <1>7, <1>10 DEF Enforced
<1>12. Reliable' => Shown'
  <2> SUFFICES ASSUME Reliable' PROVE Shown'
    OBVIOUS
  <2>1. Shown /\ Orderly
    BY <1>7 DEF FirewallInv, Reliable
  <2>2. ipset' <= req[r].act.left
    BY <1>1, <1>4
  <2> QED BY <1>1, <1>3, <1>10, <2>1, <2>2 DEF Shown
<1> QED BY <1>5, <1>6, <1>9, <1>11, <1>12 DEF FirewallInv

LEMMA AgentFailsInv ==
    ASSUME FirewallInv, NEW r \in Requests, AgentFails(r)
    PROVE  FirewallInv'
<1>1. /\ agent' = [agent EXCEPT ![r] = "error"] /\ agent[r] = "received"
      /\ faults' = faults \cup {"failure"}
      /\ UNCHANGED <<row, ipset, req, audit, rule, up, overlapped>>
  BY DEF AgentFails, Fault, hostVars
<1>2. req \in [Requests -> ReqState] /\ agent \in [Requests -> {"idle", "received", "ok", "error"}]
  BY DEF FirewallInv, FirewallTypeOK, ReqState
<1>3. /\ agent' \in [Requests -> {"idle", "received", "ok", "error"}] /\ agent'[r] = "error"
      /\ \A q \in Requests : q # r => agent'[q] = agent[q]
  BY <1>1, <1>2
<1>4. FirewallTypeOK'
  BY <1>1, <1>3 DEF FirewallInv, FirewallTypeOK
<1>5. Asked'
  BY <1>1 DEF FirewallInv, Asked, UnderWay
<1>6. (Orderly' => Orderly) /\ ~Reliable'
  BY <1>1 DEF Orderly, Reliable
<1>7. \A q \in Requests : Carried(q)' = Carried(q)
  BY <1>1, <1>3 DEF Carried, UnderWay
<1>8. Orderly' => (InStep /\ OneAtATime)'
  BY <1>1, <1>3, <1>6 DEF FirewallInv, InStep, OneAtATime, UnderWay
<1>9. Orderly' => Enforced'
  BY <1>1, <1>6, <1>7 DEF FirewallInv, Enforced
<1> QED BY <1>4, <1>5, <1>6, <1>8, <1>9 DEF FirewallInv

LEMMA ReadResponseInv ==
    ASSUME FirewallInv, NEW r \in Requests, ReadResponse(r)
    PROVE  FirewallInv'
<1>1. /\ req' = [req EXCEPT ![r].at = IF agent[r] = "ok" THEN "succeeded" ELSE "failed"]
      /\ req[r].at = "waiting" /\ agent[r] \in {"ok", "error"}
      /\ UNCHANGED <<row, ipset, agent, audit, rule, up, overlapped, faults>>
  BY DEF ReadResponse, hostVars, faultVars
<1>2. req \in [Requests -> ReqState]
  BY DEF FirewallInv, FirewallTypeOK, ReqState
<1>3. /\ req' \in [Requests -> ReqState]
      /\ req'[r].at = IF agent[r] = "ok" THEN "succeeded" ELSE "failed"
      /\ req'[r].act = req[r].act
      /\ \A q \in Requests : q # r => req'[q] = req[q]
  BY <1>1, <1>2 DEF ReqState
<1>4. FirewallTypeOK'
  BY <1>1, <1>3 DEF FirewallInv, FirewallTypeOK, ReqState
<1>5. \A q \in Requests : UnderWay(q)' = UnderWay(q) /\ Carried(q)' = Carried(q)
                           /\ req'[q].act = req[q].act
  BY <1>1, <1>3 DEF UnderWay, Carried
<1>6. Asked'
  BY <1>5 DEF FirewallInv, Asked
<1>7. (Orderly' => Orderly) /\ (Reliable' => Reliable)
  BY <1>1, StaysOrderly
<1>8. Orderly' => (InStep /\ OneAtATime)'
  BY <1>1, <1>3, <1>5, <1>7 DEF FirewallInv, InStep, OneAtATime
<1>9. Orderly' => Enforced'
  BY <1>1, <1>5, <1>7 DEF FirewallInv, Enforced
<1>10. Reliable' => Shown'
  BY <1>1, <1>3, <1>5, <1>7 DEF FirewallInv, Shown
<1> QED BY <1>4, <1>6, <1>8, <1>9, <1>10 DEF FirewallInv

(* Handlers that give up leave an orderly run.                                *)
LEMMA RequestTimesOutInv ==
    ASSUME FirewallInv, NEW r \in Requests, RequestTimesOut(r)
    PROVE  FirewallInv'
<1>1. /\ req' = [req EXCEPT ![r].at = "failed"] /\ req[r].at = "waiting"
      /\ faults' = faults \cup {"timeout"}
      /\ UNCHANGED <<row, ipset, agent, audit, rule, up, overlapped>>
  BY DEF RequestTimesOut, Fault, hostVars
<1>2. /\ req' \in [Requests -> ReqState]
      /\ \A q \in Requests : UnderWay(q)' = UnderWay(q) /\ req'[q].act = req[q].act
  BY <1>1 DEF FirewallInv, FirewallTypeOK, ReqState, UnderWay
<1>3. FirewallTypeOK'
  BY <1>1, <1>2 DEF FirewallInv, FirewallTypeOK, ReqState
<1>4. Asked'
  BY <1>2 DEF FirewallInv, Asked
<1>5. ~Orderly' /\ ~Reliable'
  BY <1>1 DEF Orderly, Reliable
<1> QED BY <1>3, <1>4, <1>5 DEF FirewallInv

LEMMA FinishedType ==
    ASSUME FirewallInv, NEW r \in Requests
    PROVE  Finished(r) \in ReqState /\ Finished(r).at = "done"
BY DEF FirewallInv, FirewallTypeOK, Finished, ReqState

LEMMA ResultLostInv ==
    ASSUME FirewallInv, NEW r \in Requests, ResultLost(r)
    PROVE  FirewallInv'
<1>1. /\ req' = [req EXCEPT ![r] = Finished(r)]
      /\ faults' = faults \cup {"lost"}
      /\ UNCHANGED <<row, ipset, agent, audit, rule, up, overlapped>>
  BY DEF ResultLost, Fault, hostVars
<1>2. /\ req' \in [Requests -> ReqState] /\ req'[r].at = "done"
      /\ \A q \in Requests : q # r => req'[q] = req[q]
  BY <1>1, FinishedType DEF FirewallInv, FirewallTypeOK, ReqState
<1>3. FirewallTypeOK'
  BY <1>1, <1>2 DEF FirewallInv, FirewallTypeOK, ReqState
<1>4. Asked'
  BY <1>2 DEF FirewallInv, Asked, UnderWay
<1>5. ~Orderly' /\ ~Reliable'
  BY <1>1 DEF Orderly, Reliable
<1> QED BY <1>3, <1>4, <1>5 DEF FirewallInv

(* The step in which the row catches up with the kernel.                      *)
LEMMA recordFirewallResultInv ==
    ASSUME FirewallInv, NEW r \in Requests, recordFirewallResult(r)
    PROVE  FirewallInv'
<1> DEFINE act == req[r].act
<1>1. /\ req[r].at \in {"succeeded", "failed"}
      /\ row' = IF act.op = "block" /\ Succeeded(r)
                THEN [active |-> TRUE, left |-> act.left] ELSE Inactive
      /\ audit' = audit \cup {[request |-> r, success |-> Succeeded(r)]}
      /\ req' = [req EXCEPT ![r] = Finished(r)]
      /\ UNCHANGED <<ipset, agent, rule, up, overlapped, faults>>
  BY DEF recordFirewallResult, Expiry, AuditEntry, hostVars, faultVars
<1>2. /\ req' \in [Requests -> ReqState] /\ req'[r].at = "done"
      /\ \A q \in Requests : q # r => req'[q] = req[q]
  BY <1>1, FinishedType DEF FirewallInv, FirewallTypeOK, ReqState
<1>3. act \in Actions
  BY <1>1 DEF FirewallInv, Asked, UnderWay
<1> HIDE DEF act
<1>4. row \in [active : BOOLEAN, left : 0..Forever] /\ Succeeded(r) \in BOOLEAN
  BY DEF FirewallInv, FirewallTypeOK, Succeeded
<1>5. /\ row' \in [active : BOOLEAN, left : 0..Forever]
      /\ row'.active <=> act.op = "block" /\ req[r].at = "succeeded"
      /\ row'.active => row'.left = act.left
  BY <1>1, <1>3, <1>4, ActionTypes DEF Succeeded, Inactive
<1>6. audit' \subseteq [request : Requests, success : BOOLEAN]
  BY <1>1, <1>4 DEF FirewallInv, FirewallTypeOK
<1>7. FirewallTypeOK'
  BY <1>1, <1>2, <1>5, <1>6 DEF FirewallInv, FirewallTypeOK, ReqState
<1>8. Asked'
  BY <1>2 DEF FirewallInv, Asked, UnderWay
<1>9. (Orderly' => Orderly) /\ (Reliable' => Reliable)
  BY <1>1, StaysOrderly
<1>10. Orderly' => (InStep /\ OneAtATime)'
  BY <1>1, <1>2, <1>9 DEF FirewallInv, InStep, OneAtATime, UnderWay
<1>11. Orderly' => \A q \in Requests : ~Carried(q)'
  BY <1>1, <1>2, <1>9 DEF FirewallInv, OneAtATime, UnderWay, Carried
<1>12. Orderly' /\ req[r].at = "succeeded" => Carried(r)
  BY <1>9 DEF FirewallInv, InStep, Carried, UnderWay
<1>13. Orderly' => Enforced'
  BY <1>1, <1>5, <1>9, <1>11, <1>12 DEF FirewallInv, Enforced, act
<1>14. Reliable' => Shown'
  <2> SUFFICES ASSUME Reliable' PROVE Shown'
    OBVIOUS
  <2>1. Shown /\ Orderly' /\ req[r].at = "succeeded"
    BY <1>1, <1>9 DEF FirewallInv, Reliable, Shown
  <2>2. ipset <= act.left /\ ipset \in 0..Forever
    BY <1>12, <2>1 DEF Shown, act, FirewallInv, FirewallTypeOK
  <2>3. ipset # 0 => act.op = "block"
    BY <1>3, <2>2, ActionTypes
  <2> QED BY <1>1, <1>2, <1>5, <1>11, <2>1, <2>2, <2>3 DEF Shown
<1> QED BY <1>7, <1>8, <1>10, <1>13, <1>14 DEF FirewallInv

LEMMA TimePassesInv == FirewallInv /\ TimePasses => FirewallInv'
<1> SUFFICES ASSUME FirewallInv, TimePasses PROVE FirewallInv'
  OBVIOUS
<1>1. /\ ipset' = Left(ipset) /\ row' = [row EXCEPT !.left = Left(row.left)]
      /\ UNCHANGED <<req, agent, audit, rule, up, overlapped, faults>>
  BY DEF TimePasses, hostVars, faultVars
<1>2. row \in [active : BOOLEAN, left : 0..Forever] /\ ipset \in 0..Forever
  BY DEF FirewallInv, FirewallTypeOK
<1>3. /\ ipset' \in 0..Forever /\ ipset' <= ipset /\ (ipset' = Forever <=> ipset = Forever)
      /\ Left(row.left) \in 0..Forever /\ (Left(row.left) = Forever <=> row.left = Forever)
      /\ (ipset <= row.left => ipset' <= Left(row.left))
  BY <1>1, <1>2, LeftProperties
<1>4. /\ row' \in [active : BOOLEAN, left : 0..Forever]
      /\ row'.active = row.active /\ row'.left = Left(row.left)
  BY <1>1, <1>2, <1>3
<1>5. FirewallTypeOK'
  BY <1>1, <1>3, <1>4 DEF FirewallInv, FirewallTypeOK
<1>6. Asked'
  BY <1>1 DEF FirewallInv, Asked, UnderWay
<1>7. (Orderly' => Orderly) /\ (Reliable' => Reliable)
  BY <1>1, StaysOrderly
<1>8. \A q \in Requests : UnderWay(q)' = UnderWay(q) /\ Carried(q)' = Carried(q)
  BY <1>1 DEF UnderWay, Carried
<1>9. Orderly' => (InStep /\ OneAtATime)'
  BY <1>1, <1>7, <1>8 DEF FirewallInv, InStep, OneAtATime
<1>10. Orderly' => Enforced'
  BY <1>1, <1>3, <1>4, <1>7, <1>8 DEF FirewallInv, Enforced
<1>11. Reliable' => Shown'
  <2> SUFFICES ASSUME Reliable' PROVE Shown'
    OBVIOUS
  <2>1. Shown
    BY <1>7 DEF FirewallInv
  <2>2. \A q \in Requests : Carried(q)' => ipset' <= req'[q].act.left
    <3> SUFFICES ASSUME NEW q \in Requests, Carried(q) PROVE ipset' <= req[q].act.left
      BY <1>1, <1>8
    <3>1. req[q].act.left \in 0..Forever /\ ipset <= req[q].act.left
      BY <2>1, ActionTypes DEF Shown, FirewallInv, FirewallTypeOK
    <3> QED BY <1>2, <1>3, <3>1, ActionTypes
  <2>3. (\A q \in Requests : ~Carried(q)') /\ ipset' # 0 => row'.active /\ ipset' <= row'.left
    BY <1>2, <1>3, <1>4, <1>8, <2>1 DEF Shown
  <2> QED BY <1>1, <2>1, <2>2, <2>3 DEF Shown
<1> QED BY <1>5, <1>6, <1>9, <1>10, <1>11 DEF FirewallInv

(* The sweep closes a row only after the kernel's entry is gone.              *)
LEMMA handleSecurityInv == FirewallInv /\ handleSecurity => FirewallInv'
<1> SUFFICES ASSUME FirewallInv, handleSecurity PROVE FirewallInv'
  OBVIOUS
<1>1. /\ row' = IF RowExpired THEN Inactive ELSE row
      /\ rule' \in {rule, TRUE}
      /\ UNCHANGED <<ipset, req, agent, audit, up, overlapped, faults>>
  BY DEF handleSecurity, ensureFirewall, faultVars
<1>2. /\ row \in [active : BOOLEAN, left : 0..Forever] /\ ipset \in 0..Forever
      /\ rule \in BOOLEAN
  BY DEF FirewallInv, FirewallTypeOK
<1>3. /\ row' \in [active : BOOLEAN, left : 0..Forever]
      /\ row'.left = row.left /\ (row'.active <=> row.active /\ row.left # 0)
  BY <1>1, <1>2, ActionTypes DEF RowExpired, Inactive
<1>4. FirewallTypeOK'
  BY <1>1, <1>2, <1>3 DEF FirewallInv, FirewallTypeOK
<1>5. Asked'
  BY <1>1 DEF FirewallInv, Asked, UnderWay
<1>6. (Orderly' => Orderly) /\ (Reliable' => Reliable)
  BY <1>1, StaysOrderly
<1>7. \A q \in Requests : UnderWay(q)' = UnderWay(q) /\ Carried(q)' = Carried(q)
  BY <1>1 DEF UnderWay, Carried
<1>8. Orderly' => (InStep /\ OneAtATime)'
  BY <1>1, <1>6, <1>7 DEF FirewallInv, InStep, OneAtATime
<1>9. Orderly' => Enforced'
  BY <1>1, <1>3, <1>6, <1>7 DEF FirewallInv, Enforced
<1>10. Reliable' => Shown'
  BY <1>1, <1>2, <1>3, <1>6, <1>7 DEF FirewallInv, Shown
<1> QED BY <1>4, <1>5, <1>8, <1>9, <1>10 DEF FirewallInv

(* What happens to the rule and to the agent's socket is no concern of the    *)
(* row, as long as a stopped agent counts as a fault.                         *)
LEMMA HostInv ==
    ASSUME FirewallInv, UNCHANGED <<row, ipset, req, agent, audit, overlapped>>,
           rule' \in BOOLEAN, up' \in {up, TRUE}, faults \subseteq faults',
           faults' \subseteq {"failure", "timeout", "lost", "stop", "reboot", "reload"}
    PROVE  FirewallInv'
<1>1. FirewallTypeOK'
  BY DEF FirewallInv, FirewallTypeOK
<1>2. Asked'
  BY DEF FirewallInv, Asked, UnderWay
<1>3. (Orderly' => Orderly) /\ (Reliable' => Reliable)
  BY StaysOrderly
<1>4. \A q \in Requests : UnderWay(q)' = UnderWay(q) /\ Carried(q)' = Carried(q)
  BY DEF UnderWay, Carried
<1>5. Orderly' => (InStep /\ OneAtATime)'
  BY <1>3, <1>4 DEF FirewallInv, InStep, OneAtATime
<1>6. Orderly' => Enforced'
  BY <1>3, <1>4 DEF FirewallInv, Enforced
<1>7. Reliable' => Shown'
  BY <1>3, <1>4 DEF FirewallInv, Shown
<1> QED BY <1>1, <1>2, <1>5, <1>6, <1>7 DEF FirewallInv

LEMMA AgentStopsInv == FirewallInv /\ AgentStops => FirewallInv'
<1> SUFFICES ASSUME FirewallInv, AgentStops PROVE FirewallInv'
  OBVIOUS
<1>1. /\ up' = FALSE /\ faults' = faults \cup {"stop"}
      /\ agent' = [r \in Requests |-> IF agent[r] = "received" THEN "error" ELSE agent[r]]
      /\ UNCHANGED <<row, ipset, rule, audit, overlapped>>
  BY DEF AgentStops, Aborted, Fault
<1>2. PICK unanswered \in SUBSET Answering :
         req' = [r \in Requests |-> IF r \in unanswered THEN [req[r] EXCEPT !.at = "failed"]
                                    ELSE req[r]]
  BY DEF AgentStops
<1>3. /\ req \in [Requests -> ReqState] /\ agent \in [Requests -> {"idle", "received", "ok", "error"}]
      /\ unanswered \subseteq Requests
      /\ \A r \in unanswered : agent[r] = "ok" /\ req[r].at = "waiting"
  BY DEF FirewallInv, FirewallTypeOK, ReqState, Answering
<1>4. agent' \in [Requests -> {"idle", "received", "ok", "error"}]
  BY <1>1, <1>3
<1>5. req' \in [Requests -> ReqState]
  BY <1>2, <1>3 DEF ReqState
<1>6. FirewallTypeOK'
  BY <1>1, <1>4, <1>5 DEF FirewallInv, FirewallTypeOK, ReqState
<1>7. \A r \in Requests : /\ r \notin unanswered => req'[r] = req[r]
                          /\ r \in unanswered => req'[r].at = "failed"
                          /\ req'[r].act = req[r].act
                          /\ agent'[r] = IF agent[r] = "received" THEN "error" ELSE agent[r]
  BY <1>1, <1>2, <1>3 DEF ReqState
<1>8. \A r \in Requests : UnderWay(r)' = UnderWay(r) /\ Carried(r)' = Carried(r)
  BY <1>3, <1>7 DEF UnderWay, Carried
<1>9. Asked'
  BY <1>7, <1>8 DEF FirewallInv, Asked
<1>10. (Orderly' => Orderly) /\ ~Reliable'
  BY <1>1 DEF Orderly, Reliable
<1>11. Orderly' => (InStep /\ OneAtATime)'
  BY <1>3, <1>7, <1>8, <1>10 DEF FirewallInv, InStep, OneAtATime
<1>12. Orderly' => Enforced'
  BY <1>1, <1>7, <1>8, <1>10 DEF FirewallInv, Enforced
<1> QED BY <1>6, <1>9, <1>10, <1>11, <1>12 DEF FirewallInv

LEMMA RebootInv == FirewallInv /\ Reboot => FirewallInv'
<1> SUFFICES ASSUME FirewallInv, Reboot PROVE FirewallInv'
  OBVIOUS
<1>1. /\ up' = FALSE /\ rule' = FALSE /\ ipset' = 0 /\ faults' = faults \cup {"reboot"}
      /\ agent' = [r \in Requests |-> IF agent[r] = "received" THEN "error" ELSE agent[r]]
      /\ req' = [r \in Requests |-> IF req[r].at = "new" THEN req[r]
                                    ELSE [at |-> "done", act |-> NoAction]]
      /\ UNCHANGED <<row, audit, overlapped>>
  BY DEF Reboot, Aborted, Fault
<1>2. /\ req' \in [Requests -> ReqState] /\ \A q \in Requests : ~UnderWay(q)'
      /\ agent' \in [Requests -> {"idle", "received", "ok", "error"}]
  BY <1>1 DEF FirewallInv, FirewallTypeOK, ReqState, UnderWay
<1>3. FirewallTypeOK'
  BY <1>1, <1>2, ActionTypes DEF FirewallInv, FirewallTypeOK, ReqState
<1>4. Asked'
  BY <1>2 DEF Asked
<1>5. ~Orderly' /\ ~Reliable'
  BY <1>1 DEF Orderly, Reliable
<1> QED BY <1>3, <1>4, <1>5 DEF FirewallInv

LEMMA FirewallInductive == FirewallInv /\ [FirewallNext]_firewallVars => FirewallInv'
<1> SUFFICES ASSUME FirewallInv, [FirewallNext]_firewallVars PROVE FirewallInv'
  OBVIOUS
<1>1. /\ rule \in BOOLEAN
      /\ faults \subseteq {"failure", "timeout", "lost", "stop", "reboot", "reload"}
  BY DEF FirewallInv, FirewallTypeOK
<1>2. CASE AgentStarts
  BY <1>1, <1>2, HostInv DEF AgentStarts, ensureFirewall, faultVars
<1>3. CASE RulesReloaded
  BY <1>1, <1>3, HostInv DEF RulesReloaded, Fault
<1>4. CASE UNCHANGED firewallVars
  BY <1>1, <1>4, HostInv DEF firewallVars, hostVars, faultVars
<1> QED
  BY <1>2, <1>3, <1>4, SendRequestInv, ConnectFailsInv, AgentExecutesInv, AgentFailsInv,
     ReadResponseInv, RequestTimesOutInv, recordFirewallResultInv, ResultLostInv,
     TimePassesInv, handleSecurityInv, AgentStopsInv, RebootInv
  DEF FirewallNext

----------------------------------------------------------------------------
(* The theorems.                                                             *)

(* FirewallInv holds in every state, whatever overlaps, fails, times out, is  *)
(* lost or is changed behind the agent.                                       *)
THEOREM FirewallCorrect == FirewallSpec => []FirewallInv
<1>1. FirewallInit => FirewallInv
  BY FirewallInitInv
<1>2. FirewallInv /\ [FirewallNext]_firewallVars => FirewallInv'
  BY FirewallInductive
<1> QED BY <1>1, <1>2, PTL DEF FirewallSpec

(* Type correctness of the row, the kernel's entry, the requests, the agent   *)
(* and the audit log: in particular no timeout runs below zero.               *)
THEOREM FirewallTypesCorrect == FirewallSpec => []FirewallTypeOK
<1>1. FirewallInv => FirewallTypeOK
  BY DEF FirewallInv
<1> QED BY <1>1, FirewallCorrect, PTL

(* Without a request under way nothing is carried out and unrecorded.         *)
LEMMA QuietIsRecorded ==
    ASSUME FirewallInv, Quiet
    PROVE  Orderly /\ \A r \in Requests : ~Carried(r)
BY DEF Quiet, Busy, Orderly, Carried, UnderWay

(* A permanent block the dashboard shows is in the kernel, however commands   *)
(* failed and whether or not the agent was up, if requests come one after the *)
(* other and are answered in time (recordFirewallResult, handleSecurityBlock).*)
THEOREM ShownBlocksAreEnforced == FirewallSpec => []ActiveIsEnforced
<1>1. FirewallInv => ActiveIsEnforced
  BY QuietIsRecorded DEF FirewallInv, ActiveIsEnforced, Enforced
<1> QED BY <1>1, FirewallCorrect, PTL

(* While no command fails, the dashboard shows every address the kernel       *)
(* blocks, also when blocks are renewed and expire: the row's expiry is never *)
(* before the kernel's.                                                       *)
THEOREM EnforcedBlocksAreShown == FirewallSpec => []ShownWhileReliable
<1>1. FirewallInv => ShownWhileReliable
  BY QuietIsRecorded DEF FirewallInv, ShownWhileReliable, EnforcedIsShown, Reliable, Shown
<1> QED BY <1>1, FirewallCorrect, PTL
=============================================================================
