--------------------------- MODULE NginxDetection ---------------------------
(* Brute-force detection on the nginx access log: persistNginxEvent,         *)
(* updateNginxDetection and flagSecurityOffender (nginx_security.go), with   *)
(* handleSecurityDismiss (security.go).  Each event is one transaction that  *)
(* also moves the checkpoint, so a failed one leaves nothing behind and is   *)
(* applied again by the next run: here an event is applied once.             *)
EXTENDS Naturals, Sequences, FiniteSets

CONSTANTS
    IPs,
    Threshold404, Window404,     \* Consecutive404Threshold and its window
    ThresholdAuth, WindowAuth,   \* AuthFailureThreshold and its window
    MaxTime, MaxEvents, MaxDismissals   \* bounds

ASSUME DetectionAssumption ==
    /\ Threshold404 \in Nat \ {0} /\ ThresholdAuth \in Nat \ {0}
    /\ Window404 \in Nat /\ WindowAuth \in Nat
    /\ MaxTime \in Nat /\ MaxEvents \in Nat /\ MaxDismissals \in Nat

VARIABLES
    history,     \* the events applied, in log order
    detection,   \* nginx_ip_detection_state; an absent row has lastStatus 0
    offenders,   \* security_offenders; an absent row has no attempts
    dismissals,  \* answers "dismissed" so far
    audited      \* the "dismiss" entries of security_audit_log

detectVars == <<history, detection, offenders, dismissals, audited>>

NotFound == 404
Event ==
    {e \in [ip : IPs, status : {200, 401, NotFound}, ignored : BOOLEAN, ts : 0..MaxTime] :
        e.ignored => e.status = NotFound}
NoState == [consecutive |-> 0, started |-> 0, lastSeen |-> 0, lastStatus |-> 0]
NoOffence == [reason |-> "", attempts |-> 0, flagged |-> FALSE]

----------------------------------------------------------------------------
(* The upsert of a 404: the streak goes on only within the window counted     *)
(* from its first response, and only if time did not go back.                 *)
StreakLater(d, e) ==                                             \* mutant
    IF d.lastStatus = NotFound /\ e.ts > d.lastSeen /\ e.ts <= d.started + Window404
    THEN [d EXCEPT !.consecutive = @ + 1, !.lastSeen = e.ts]
    ELSE [consecutive |-> 1, started |-> e.ts, lastSeen |-> e.ts, lastStatus |-> NotFound]
Streak(d, e) ==
    IF /\ d.lastStatus = NotFound
       /\ e.ts >= d.lastSeen
       /\ e.ts <= d.started + Window404
    THEN [d EXCEPT !.consecutive = @ + 1, !.lastSeen = e.ts]
    ELSE [consecutive |-> 1, started |-> e.ts, lastSeen |-> e.ts, lastStatus |-> NotFound]

(* The update of any other response: it touches an existing row only.         *)
NoReset(d, e) == d                                               \* mutant
Reset(d, e) ==
    IF d.lastStatus = 0 THEN d
    ELSE [consecutive |-> 0, started |-> 0, lastSeen |-> e.ts, lastStatus |-> e.status]

(* The SELECT counts the 401/403 events BETWEEN ts - window AND ts, the new   *)
(* event included.                                                            *)
EverFailed(ts, now) == ts <= now                                 \* mutant
WithinLess(ts, now) == ts <= now /\ ts + WindowAuth > now        \* mutant
WithinWindow(ts, now) == ts <= now /\ ts + WindowAuth >= now

AuthFailures(e) ==
    LET log == Append(history, e)
    IN Cardinality({i \in 1..Len(log) : /\ log[i].ip = e.ip /\ log[i].status = 401
                                        /\ WithinWindow(log[i].ts, e.ts)})

flagSecurityOffender(ip, why, n) ==
    offenders' = [offenders EXCEPT ![ip] = [reason |-> why, attempts |-> n, flagged |-> TRUE]]

(* updateNginxDetection.                                                      *)
updateNginxDetection(e) ==
    LET d == detection[e.ip]
        streak == Streak(d, e)
    IN \/ /\ e.status = NotFound
          /\ detection' = [detection EXCEPT ![e.ip] = streak]
          /\ IF streak.consecutive >= Threshold404
             THEN flagSecurityOffender(e.ip, "consecutive_404", streak.consecutive)
             ELSE UNCHANGED offenders
       \/ /\ e.status # NotFound
          /\ detection' = [detection EXCEPT ![e.ip] = Reset(d, e)]
          /\ IF e.status = 401 /\ AuthFailures(e) >= ThresholdAuth
             THEN flagSecurityOffender(e.ip, "authentication_failures", AuthFailures(e))
             ELSE UNCHANGED offenders

(* persistNginxEvent: a 404 on an ignored path is stored and nothing more.    *)
persistNginxEvent(e) ==
    /\ Len(history) < MaxEvents
    /\ history' = Append(history, e)
    /\ \/ e.ignored /\ UNCHANGED <<detection, offenders>>
       \/ ~e.ignored /\ updateNginxDetection(e)
    /\ UNCHANGED <<dismissals, audited>>

(* handleSecurityDismiss of a known offender; an unknown one is a 404 answer. *)
(* An error of the audit entry's INSERT is ignored.                           *)
handleSecurityDismiss(ip) ==
    /\ offenders[ip].attempts > 0 /\ dismissals < MaxDismissals
    /\ offenders' = [offenders EXCEPT ![ip].flagged = FALSE]
    /\ dismissals' = dismissals + 1
    /\ audited' \in {audited, audited + 1}
    /\ UNCHANGED <<history, detection>>

DetectInit ==
    /\ history = <<>> /\ dismissals = 0 /\ audited = 0
    /\ detection = [ip \in IPs |-> NoState]
    /\ offenders = [ip \in IPs |-> NoOffence]

DetectNext ==
    \/ \E e \in Event : persistNginxEvent(e)
    \/ \E ip \in IPs : handleSecurityDismiss(ip)

DetectSpec == DetectInit /\ [][DetectNext]_detectVars

----------------------------------------------------------------------------
(* Properties.                                                               *)

(* The responses of one IP that detection looks at, by their place in the     *)
(* log.                                                                       *)
Seen(ip) == {i \in 1..Len(history) : history[i].ip = ip /\ ~history[i].ignored}
Between(ip, a, k) == {i \in Seen(ip) : a <= i /\ i <= k}

(* Those from the a-th line of the log to the k-th are 404s in order of time, *)
(* the last no more than the window after the first; n of them are a burst.   *)
Scan(ip, a, k) ==
    /\ \A i \in Between(ip, a, k) : history[i].status = NotFound
    /\ \A i, j \in Between(ip, a, k) : i < j => history[i].ts <= history[j].ts
    /\ history[k].ts <= history[a].ts + Window404
Burst(ip, k, n) ==
    \E a \in Between(ip, 1, k) : Scan(ip, a, k) /\ Cardinality(Between(ip, a, k)) = n

(* The counter of an IP is no more than what its last responses show: that    *)
(* many 404s in a row, within one window, whatever order events of other IPs, *)
(* ignored paths and late timestamps come in.                                 *)
StreakIsReal ==
    \A ip \in IPs : detection[ip].consecutive > 0 =>
        \E k \in Seen(ip) : /\ \A i \in Seen(ip) : i <= k
                            /\ Burst(ip, k, detection[ip].consecutive)

(* The authentication failures of an IP up to the k-th line that are no older *)
(* than the window.                                                           *)
Failures(ip, k) ==
    {i \in Between(ip, 1, k) : /\ history[i].status = 401
                               /\ history[i].ts <= history[k].ts
                               /\ history[i].ts + WindowAuth >= history[k].ts}

(* Nobody is accused without cause: an offender's log holds a burst of 404s,  *)
(* or of authentication failures, that reaches the threshold within the       *)
(* window, as many as the attempts shown to the administrator.                *)
OffendersOffended ==
    \A ip \in IPs : LET n == offenders[ip].attempts
                    IN n > 0 =>
        \/ /\ offenders[ip].reason = "consecutive_404" /\ n >= Threshold404
           /\ \E k \in Seen(ip) : Burst(ip, k, n)
        \/ /\ offenders[ip].reason = "authentication_failures" /\ n >= ThresholdAuth
           /\ \E k \in Seen(ip) : Cardinality(Failures(ip, k)) = n

(* "Ten 401/403 responses within five minutes are also flagged" (README): no  *)
(* such burst escapes, whatever responses come in between, if the address's    *)
(* responses are logged in order of time.                                     *)
InOrderOfTime(ip) ==
    \A i, j \in Seen(ip) : i < j => history[i].ts <= history[j].ts
FailuresFrom(ip, k) ==
    {i \in Seen(ip) : /\ history[i].status = 401
                      /\ history[i].ts >= history[k].ts
                      /\ history[i].ts <= history[k].ts + WindowAuth}
AuthBurstFlagged ==
    \A ip \in IPs :
        /\ InOrderOfTime(ip)
        /\ \E k \in Seen(ip) : Cardinality(FailuresFrom(ip, k)) >= ThresholdAuth
        => offenders[ip].attempts > 0

(* What the anchored window does guarantee: 2 * threshold - 1 consecutive     *)
(* 404s within one window always get an IP flagged.                           *)
LongScanFlagged ==
    \A ip \in IPs : (\E k \in Seen(ip) : Burst(ip, k, 2 * Threshold404 - 1))
                       => offenders[ip].attempts > 0

(* "It flags an IP after 10 consecutive 404 responses within two minutes"     *)
(* (README.md:88): every burst of threshold 404s does.                        *)
ScanFlagged ==
    \A ip \in IPs : (\E k \in Seen(ip) : Burst(ip, k, Threshold404))
                       => offenders[ip].attempts > 0
=============================================================================
