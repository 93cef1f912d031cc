---------------------------- MODULE NginxProofs ----------------------------
(* Proofs about brute-force detection (NginxDetection) and about the access   *)
(* log pipeline in front of it (NginxIngest), for any set of addresses, any   *)
(* thresholds and windows and any number of lines, files, truncations and     *)
(* faults: first what detection makes of its events, then what a retry, a     *)
(* restart or a rotation can do to the events it counts.                      *)
EXTENDS NginxIngest, FollowerProofs, FiniteSetTheorems

DetectionState == [consecutive : Nat, started : Nat, lastSeen : Nat, lastStatus : Nat]
Offence == [reason : {"", "consecutive_404", "authentication_failures"},
            attempts : Nat, flagged : BOOLEAN]

(* The types of the tables.                                                   *)
DetectTypes ==
    /\ history \in Seq(Event)
    /\ detection \in [IPs -> DetectionState]
    /\ offenders \in [IPs -> Offence]

IsLast(ip, k) == k \in Seen(ip) /\ \A i \in Seen(ip) : i <= k

(* The row of an address tells its last response: after a 404, when it was    *)
(* and where in the log the streak it ends began; after any other, nothing.   *)
TellsStreak(ip, a, k) ==
    /\ IsLast(ip, k)
    /\ detection[ip].lastStatus = NotFound
    /\ detection[ip].lastSeen = history[k].ts
    /\ detection[ip].started = history[a].ts
    /\ Scan(ip, a, k)
    /\ Cardinality(Between(ip, a, k)) = detection[ip].consecutive
TellsNone(ip) ==
    /\ detection[ip].lastStatus # NotFound /\ detection[ip].consecutive = 0
    /\ \/ Seen(ip) = {}
       \/ \E k \in Seen(ip) : IsLast(ip, k) /\ history[k].status # NotFound
RowIsCurrent(ip) ==
    \/ \E k \in Seen(ip) : \E a \in Between(ip, 1, k) : TellsStreak(ip, a, k)
    \/ TellsNone(ip)

(* While an address is not flagged, its counter falls short of the threshold, *)
(* and short of the scan it is in by at most one streak: one cut off by the   *)
(* window, after the scan had begun.                                          *)
Counted(ip, a, k) ==
    \/ Cardinality(Between(ip, a, k)) <= detection[ip].consecutive
    \/ /\ history[a].ts <= detection[ip].started
       /\ Cardinality(Between(ip, a, k)) < detection[ip].consecutive + Threshold404
MissesOneStreak(ip) ==
    offenders[ip].attempts = 0 =>
        /\ detection[ip].consecutive < Threshold404
        /\ \A k \in Seen(ip) : \A a \in Between(ip, 1, k) :
                IsLast(ip, k) /\ Scan(ip, a, k) => Counted(ip, a, k)

DetectInv ==
    /\ DetectTypes
    /\ \A ip \in IPs : RowIsCurrent(ip) /\ MissesOneStreak(ip)
    /\ OffendersOffended /\ AuthBurstFlagged /\ LongScanFlagged

----------------------------------------------------------------------------
(* The log grows at its end.                                                  *)

Place == Len(history) + 1
Looks(ip, e) == e.ip = ip /\ ~e.ignored

(* What an event is made of; only a 404 is ever ignored.                      *)
LEMMA EventFields ==
    ASSUME DetectionAssumption, NEW e \in Event
    PROVE  /\ e.ip \in IPs /\ e.status \in Nat /\ e.ts \in Nat
           /\ e.ignored => e.status = NotFound
BY DEF Event, NotFound, DetectionAssumption

(* The places detection looks at hold events, and there are finitely many.    *)
LEMMA SeenPlaces ==
    ASSUME DetectionAssumption, history \in Seq(Event), NEW ip
    PROVE  /\ Len(history) \in Nat
           /\ Seen(ip) \subseteq 1..Len(history) /\ IsFiniteSet(Seen(ip))
           /\ \A i \in Seen(ip) : /\ i \in Nat /\ history[i] \in Event
                                  /\ history[i].ts \in Nat /\ history[i].status \in Nat
           /\ \A a, k : Between(ip, a, k) \subseteq Seen(ip) /\ IsFiniteSet(Between(ip, a, k))
<1>1. Len(history) \in Nat
  OBVIOUS
<1>2. Seen(ip) \subseteq 1..Len(history)
  BY DEF Seen
<1>3. IsFiniteSet(1..Len(history))
  BY <1>1, FS_Interval
<1>4. IsFiniteSet(Seen(ip))
  BY <1>2, <1>3, FS_Subset
<1>5. \A i \in Seen(ip) : i \in Nat /\ history[i] \in Event
  BY <1>1, <1>2
<1>6. \A i \in Seen(ip) : history[i].ts \in Nat /\ history[i].status \in Nat
  BY <1>5, EventFields
<1>7. \A a, k : Between(ip, a, k) \subseteq Seen(ip)
  BY DEF Between
<1>8. \A a, k : IsFiniteSet(Between(ip, a, k))
  BY <1>7, <1>4, FS_Subset
<1>. QED
  BY <1>1, <1>2, <1>4, <1>5, <1>6, <1>7, <1>8

(* An event leaves the lines before it, and is looked at by its own address.  *)
LEMMA LogGrows ==
    ASSUME history \in Seq(Event), NEW e \in Event, history' = Append(history, e), NEW ip
    PROVE  /\ history' \in Seq(Event)
           /\ \A i \in 1..Len(history) : history'[i] = history[i]
           /\ history'[Place] = e
           /\ \A i \in Seen(ip) : i \in Nat /\ i < Place /\ history'[i] = history[i]
           /\ Seen(ip)' = IF Looks(ip, e) THEN Seen(ip) \cup {Place} ELSE Seen(ip)
<1>1. /\ Len(history) \in Nat /\ Len(history') = Len(history) + 1
      /\ history' \in Seq(Event)
      /\ \A i \in 1..Len(history) : history'[i] = history[i]
      /\ history'[Place] = e
  BY DEF Place
<1>2. \A i \in Seen(ip) : i \in Nat /\ i < Place /\ history'[i] = history[i]
  BY <1>1 DEF Seen, Place
<1>3. Seen(ip)' = {i \in 1..Len(history') : history'[i].ip = ip /\ ~history'[i].ignored}
  BY DEF Seen
<1>4. 1..Len(history') = (1..Len(history)) \cup {Place} /\ Place \notin 1..Len(history)
  BY <1>1 DEF Place
<1>. QED
  BY <1>1, <1>2, <1>3, <1>4 DEF Seen, Looks

(* Whatever was true of the lines up to an earlier one still is.              *)
LEMMA PastIsKept ==
    ASSUME DetectionAssumption,
           history \in Seq(Event), NEW e \in Event, history' = Append(history, e),
           NEW ip, NEW k \in Seen(ip)
    PROVE  /\ k \in Seen(ip)'
           /\ \A a : Between(ip, a, k)' = Between(ip, a, k)
           /\ \A a \in Between(ip, 1, k) : Scan(ip, a, k)' <=> Scan(ip, a, k)
           /\ \A n : Burst(ip, k, n)' <=> Burst(ip, k, n)
           /\ Failures(ip, k)' = Failures(ip, k)
<1>1. /\ \A i \in Seen(ip) : i \in Nat /\ i < Place /\ history'[i] = history[i]
      /\ \/ Seen(ip)' = Seen(ip)
         \/ Seen(ip)' = Seen(ip) \cup {Place}
  BY LogGrows, Zenon
<1>2. k \in Nat /\ Place \in Nat
  BY <1>1 DEF Place
<1>3. k \in Seen(ip)'
  BY <1>1
<1>4. ASSUME NEW a PROVE Between(ip, a, k)' = Between(ip, a, k)
  <2>1. Between(ip, a, k)' = {i \in Seen(ip)' : a <= i /\ i <= k}
    BY DEF Between
  <2>2. ~(Place <= k)
    BY <1>1, <1>2
  <2>. QED
    BY <1>1, <2>1, <2>2 DEF Between
<1>5. ASSUME NEW a \in Between(ip, 1, k) PROVE Scan(ip, a, k)' <=> Scan(ip, a, k)
  <2>1. /\ \A i \in Between(ip, a, k) : history'[i] = history[i]
        /\ history'[k] = history[k] /\ history'[a] = history[a]
    BY <1>1 DEF Between
  <2>2. Scan(ip, a, k)' <=>
            /\ \A i \in Between(ip, a, k) : history'[i].status = NotFound
            /\ \A i, j \in Between(ip, a, k) : i < j => history'[i].ts <= history'[j].ts
            /\ history'[k].ts <= history'[a].ts + Window404
    <3>1. Scan(ip, a, k)' <=>
            /\ \A i \in Between(ip, a, k)' : history'[i].status = NotFound
            /\ \A i, j \in Between(ip, a, k)' : i < j => history'[i].ts <= history'[j].ts
            /\ history'[k].ts <= history'[a].ts + Window404
      BY Zenon DEF Scan, NotFound
    <3>. QED
      BY <1>4, <3>1, Zenon
  <2>. QED
    BY <2>1, <2>2 DEF Scan
<1>6. ASSUME NEW n PROVE Burst(ip, k, n)' <=> Burst(ip, k, n)
  <2>1. Burst(ip, k, n)' <=> \E a \in Between(ip, 1, k)' :
                              Scan(ip, a, k)' /\ Cardinality(Between(ip, a, k)') = n
    BY DEF Burst
  <2>. QED
    BY <1>4, <1>5, <2>1, Zenon DEF Burst
<1>7. Failures(ip, k)' = Failures(ip, k)
  <2>1. Failures(ip, k)' = {i \in Between(ip, 1, k)' :
            /\ history'[i].status = 401 /\ history'[i].ts <= history'[k].ts
            /\ history'[i].ts + WindowAuth >= history'[k].ts}
    BY DEF Failures
  <2>2. /\ \A i \in Between(ip, 1, k) : history'[i] = history[i]
        /\ history'[k] = history[k]
    BY <1>1 DEF Between
  <2>3. Failures(ip, k)' = {i \in Between(ip, 1, k) :
            /\ history'[i].status = 401 /\ history'[i].ts <= history'[k].ts
            /\ history'[i].ts + WindowAuth >= history'[k].ts}
    BY <2>1, <1>4
  <2>4. ASSUME NEW i \in Between(ip, 1, k)
        PROVE  i \in Failures(ip, k)' <=> i \in Failures(ip, k)
    <3>1. history'[i] = history[i] /\ history'[k] = history[k]
      BY <2>2
    <3>. QED
      BY <2>3, <3>1, Zenon DEF Failures
  <2>. QED
    BY <2>3, <2>4, Zenon DEF Failures
<1>. QED
  BY <1>3, <1>4, <1>5, <1>6, <1>7

----------------------------------------------------------------------------
(* What a new response of an address does to its scans.                       *)

(* The new response is the last one, and on its own it is a scan if a 404.    *)
LEMMA NewestAlone ==
    ASSUME DetectionAssumption,
           history \in Seq(Event), NEW e \in Event, history' = Append(history, e),
           NEW p, p = Place, NEW ip, Looks(ip, e)
    PROVE  /\ p \in Seen(ip)' /\ p \in Between(ip, 1, p)'
           /\ IsLast(ip, p)' /\ \A k : IsLast(ip, k)' => k = p
           /\ Between(ip, p, p)' = {p}
           /\ Cardinality(Between(ip, p, p)') = 1
           /\ Scan(ip, p, p)' <=> e.status = NotFound
<1>1. /\ \A i \in Seen(ip) : i \in Nat /\ i < p /\ history'[i] = history[i]
      /\ Seen(ip)' = Seen(ip) \cup {p}
      /\ history'[p] = e
  BY LogGrows, Zenon
<1>2. p \in Nat /\ 1 <= p /\ p <= p
  BY DEF Place
<1>3. p \in Seen(ip)' /\ p \in Between(ip, 1, p)'
  BY <1>1, <1>2 DEF Between
<1>4. /\ \A i \in Seen(ip)' : i <= p
      /\ \A k \in Seen(ip)' : p <= k => k = p
  BY <1>1, <1>2
<1>5. /\ IsLast(ip, p)'
      /\ \A k : IsLast(ip, k)' => k = p
  BY <1>3, <1>4 DEF IsLast
<1>6. Between(ip, p, p)' = {p}
  <2>1. Between(ip, p, p)' = {i \in Seen(ip)' : p <= i /\ i <= p}
    BY DEF Between
  <2>. QED
    BY <2>1, <1>2, <1>3, <1>4
<1>7. Cardinality(Between(ip, p, p)') = 1
  BY <1>6, FS_Singleton
<1>8. Scan(ip, p, p)' <=> e.status = NotFound
  <2>1. Scan(ip, p, p)' <=>
            /\ \A i \in Between(ip, p, p)' : history'[i].status = NotFound
            /\ \A i, j \in Between(ip, p, p)' :
                    i < j => history'[i].ts <= history'[j].ts
            /\ history'[p].ts <= history'[p].ts + Window404
    BY Zenon DEF Scan, NotFound
  <2>2. e.ts \in Nat /\ Window404 \in Nat
    BY EventFields DEF DetectionAssumption
  <2>3. e.ts <= e.ts + Window404 /\ ~(p < p)
    BY <2>2, <1>2
  <2>4. /\ \A i \in {p} : history'[i].status = NotFound <=> e.status = NotFound
        /\ \A i, j \in {p} : ~(i < j)
    BY <2>3, <1>1
  <2>. QED
    BY <2>1, <2>3, <2>4, <1>1, <1>6
<1>. QED
  BY <1>3, <1>5, <1>6, <1>7, <1>8

(* A scan that began before goes on with the new response if that is a 404,   *)
(* not earlier than the one before and within the window.                     *)
LEMMA ScanGoesOn ==
    ASSUME DetectionAssumption,
           history \in Seq(Event), NEW e \in Event, history' = Append(history, e),
           NEW p, p = Place, NEW ip, Looks(ip, e),
           NEW k \in Seen(ip), IsLast(ip, k), NEW a \in Between(ip, 1, k)
    PROVE  /\ a \in Between(ip, 1, p)'
           /\ Cardinality(Between(ip, a, k)) \in Nat
           /\ Cardinality(Between(ip, a, p)') = Cardinality(Between(ip, a, k)) + 1
           /\ Scan(ip, a, p)' <=>
                /\ Scan(ip, a, k) /\ e.status = NotFound
                /\ history[k].ts <= e.ts /\ e.ts <= history[a].ts + Window404
<1>1. /\ \A i \in Seen(ip) : i \in Nat /\ i < p /\ history'[i] = history[i]
      /\ Seen(ip)' = Seen(ip) \cup {p}
      /\ history'[p] = e
  BY LogGrows, Zenon
<1>2. p \in Nat
  BY DEF Place
<1>3. /\ a \in Seen(ip) /\ a \in Nat /\ k \in Nat /\ 1 <= a /\ a <= k /\ a < p /\ k < p
      /\ \A i \in Seen(ip) : i <= k
  BY <1>1 DEF Between, IsLast
<1>4. a \in Between(ip, 1, p)'
  BY <1>1, <1>2, <1>3 DEF Between
<1>5. Between(ip, a, p)' = Between(ip, a, k) \cup {p}
  <2>1. Between(ip, a, p)' = {i \in Seen(ip)' : a <= i /\ i <= p}
    BY DEF Between
  <2>2. /\ a <= p /\ p <= p
        /\ \A i \in Seen(ip) : i <= p
        /\ \A i \in Seen(ip) : i <= k
    <3>1. a <= p /\ p <= p
      BY <1>2, <1>3
    <3>2. ASSUME NEW i \in Seen(ip) PROVE i <= p
      <4>1. i \in Nat /\ i < p
        BY <1>1
      <4>. QED
        BY <4>1, <1>2
    <3>. QED
      BY <3>1, <3>2, <1>3
  <2>. QED
    BY <2>1, <2>2, <1>1 DEF Between
<1>6. IsFiniteSet(Between(ip, a, k)) /\ Between(ip, a, k) \subseteq Seen(ip)
  BY SeenPlaces
<1>7. p \notin Between(ip, a, k)
  BY <1>6, <1>1, <1>2
<1>8. /\ Cardinality(Between(ip, a, k)) \in Nat
      /\ Cardinality(Between(ip, a, p)') = Cardinality(Between(ip, a, k)) + 1
  BY <1>5, <1>6, <1>7, FS_AddElement, FS_CardinalityType
<1>9. Scan(ip, a, p)' <=>
        /\ Scan(ip, a, k) /\ e.status = NotFound
        /\ history[k].ts <= e.ts /\ e.ts <= history[a].ts + Window404
  <2>1. Scan(ip, a, p)' <=>
            /\ \A i \in Between(ip, a, p)' : history'[i].status = NotFound
            /\ \A i, j \in Between(ip, a, p)' :
                    i < j => history'[i].ts <= history'[j].ts
            /\ history'[p].ts <= history'[a].ts + Window404
    BY Zenon DEF Scan, NotFound
  <2>2. /\ \A i \in Between(ip, a, k) : /\ history'[i] = history[i] /\ i < p
                                        /\ i \in Nat /\ i <= k /\ history[i].ts \in Nat
        /\ history'[a] = history[a] /\ k \in Between(ip, a, k)
        /\ e.ts \in Nat /\ history[k].ts \in Nat /\ history[a].ts \in Nat
        /\ Window404 \in Nat
    BY <1>1, <1>3, <1>6, SeenPlaces, EventFields DEF Between, DetectionAssumption
  <2>3. (\A i \in Between(ip, a, p)' : history'[i].status = NotFound) <=>
        (\A i \in Between(ip, a, k) : history[i].status = NotFound) /\ e.status = NotFound
    BY <1>1, <1>5, <2>2
  <2>4. (\A i, j \in Between(ip, a, p)' : i < j => history'[i].ts <= history'[j].ts) <=>
        /\ \A i, j \in Between(ip, a, k) : i < j => history[i].ts <= history[j].ts
        /\ \A i \in Between(ip, a, k) : history[i].ts <= e.ts
    <3>1. ASSUME NEW i \in Between(ip, a, k)
          PROVE  /\ history'[i].ts = history[i].ts /\ history'[p].ts = e.ts
                 /\ i < p /\ ~(p < i) /\ ~(p < p)
      <4>1. i \in Nat /\ i < p /\ history'[i] = history[i] /\ history'[p] = e
        BY <1>1, <2>2
      <4>2. ~(p < i) /\ ~(p < p)
        BY <4>1, <1>2
      <4>. QED
        BY <4>1, <4>2
    <3>. QED
      BY <3>1, <1>5, <2>2, ZenonT(40)
  <2>5. ASSUME \A i, j \in Between(ip, a, k) : i < j => history[i].ts <= history[j].ts
        PROVE  (\A i \in Between(ip, a, k) : history[i].ts <= e.ts) <=> history[k].ts <= e.ts
    <3>1. \A i \in Between(ip, a, k) : i = k \/ i < k
      BY <2>2, <1>3
    <3>2. \A i \in Between(ip, a, k) : history[i].ts <= history[k].ts
      BY <3>1, <2>2, <2>5
    <3>. QED
      BY <3>2, <2>2
  <2>6. history[k].ts <= e.ts /\ e.ts <= history[a].ts + Window404
            => history[k].ts <= history[a].ts + Window404
    <3>1. history[k].ts \in Nat /\ e.ts \in Nat /\ history[a].ts + Window404 \in Nat
      BY <2>2
    <3>. QED
      BY <3>1
  <2>7. history'[p].ts <= history'[a].ts + Window404 <=> e.ts <= history[a].ts + Window404
    BY <1>1, <2>2
  <2>. QED
    BY <2>1, <2>3, <2>4, <2>5, <2>6, <2>7, Zenon DEF Scan
<1>. QED
  BY <1>4, <1>8, <1>9

----------------------------------------------------------------------------
(* The steps.                                                                 *)

(* The tables keep their types.                                               *)
LEMMA AuthFailuresType ==
    ASSUME history \in Seq(Event), NEW e \in Event
    PROVE  AuthFailures(e) \in Nat
<1>. DEFINE log == Append(history, e)
            F == {i \in 1..Len(log) : /\ log[i].ip = e.ip /\ log[i].status = 401
                                      /\ WithinWindow(log[i].ts, e.ts)}
<1>1. Len(log) \in Nat
  OBVIOUS
<1>2. IsFiniteSet(1..Len(log)) /\ F \subseteq 1..Len(log)
  BY <1>1, FS_Interval
<1>3. Cardinality(F) \in Nat
  BY <1>2, FS_Subset, FS_CardinalityType
<1>. QED
  BY <1>3 DEF AuthFailures

(* What the upsert of a 404 and the update of another response leave.         *)
LEMMA StreakType ==
    ASSUME DetectionAssumption, NEW d \in DetectionState, NEW e \in Event
    PROVE  Streak(d, e) \in DetectionState /\ Reset(d, e) \in DetectionState
<1>1. e.ts \in Nat /\ e.status \in Nat /\ NotFound \in Nat
  BY EventFields DEF NotFound
<1>2. Reset(d, e) \in DetectionState
  BY <1>1 DEF Reset, DetectionState
<1>3. d.consecutive + 1 \in Nat
  BY DEF DetectionState
<1>4. /\ [d EXCEPT !.consecutive = @ + 1, !.lastSeen = e.ts] \in DetectionState
      /\ [consecutive |-> 1, started |-> e.ts, lastSeen |-> e.ts,
           lastStatus |-> NotFound] \in DetectionState
  BY <1>1, <1>3 DEF DetectionState
<1>. QED
  BY <1>2, <1>4, Zenon DEF Streak

(* An event changes the rows of its own address only; once flagged, an        *)
(* address keeps its attempts.                                                *)
LEMMA EventStep ==
    ASSUME DetectionAssumption, DetectTypes, NEW e \in Event, persistNginxEvent(e)
    PROVE  /\ history' = Append(history, e) /\ DetectTypes'
           /\ \A ip \in IPs : offenders[ip].attempts > 0 => offenders'[ip].attempts > 0
           /\ \A ip \in IPs : ~Looks(ip, e) => /\ detection'[ip] = detection[ip]
                                               /\ offenders'[ip] = offenders[ip]
<1>1. history' = Append(history, e) /\ history' \in Seq(Event)
  BY DEF persistNginxEvent, DetectTypes
<1>2. e.ip \in IPs /\ AuthFailures(e) \in Nat
  BY EventFields, AuthFailuresType DEF DetectTypes
<1>3. CASE e.ignored
  <2>1. detection' = detection /\ offenders' = offenders
    BY <1>3 DEF persistNginxEvent
  <2>. QED
    BY <2>1, <1>1 DEF DetectTypes
<1>4. CASE ~e.ignored /\ e.status = NotFound
  <2>. DEFINE streak == Streak(detection[e.ip], e)
  <2>1. streak \in DetectionState
    BY <1>2, StreakType DEF DetectTypes
  <2>2. /\ detection' = [detection EXCEPT ![e.ip] = streak]
        /\ \/ /\ streak.consecutive >= Threshold404
              /\ offenders' = [offenders EXCEPT ![e.ip] =
                    [reason |-> "consecutive_404", attempts |-> streak.consecutive,
                     flagged |-> TRUE]]
           \/ offenders' = offenders
    BY <1>4 DEF persistNginxEvent, updateNginxDetection, flagSecurityOffender
  <2>. HIDE DEF streak
  <2>3. streak.consecutive \in Nat
    BY <2>1 DEF DetectionState
  <2>4. streak.consecutive >= Threshold404 => streak.consecutive > 0
    BY <2>3 DEF DetectionAssumption
  <2>5. detection' \in [IPs -> DetectionState] /\ offenders' \in [IPs -> Offence]
    <3>1. [reason |-> "consecutive_404", attempts |-> streak.consecutive, flagged |-> TRUE] \in Offence
      BY <2>3 DEF Offence
    <3>. QED
      BY <1>2, <2>1, <2>2, <3>1 DEF DetectTypes
  <2>6. \A ip \in IPs : offenders[ip].attempts > 0 => offenders'[ip].attempts > 0
    BY <1>2, <2>2, <2>4 DEF DetectTypes
  <2>7. \A ip \in IPs : ip # e.ip => /\ detection'[ip] = detection[ip]
                                    /\ offenders'[ip] = offenders[ip]
    BY <1>2, <2>2 DEF DetectTypes
  <2>. QED
    BY <1>1, <1>4, <2>5, <2>6, <2>7 DEF DetectTypes, Looks
<1>5. CASE ~e.ignored /\ e.status # NotFound
  <2>. DEFINE row == Reset(detection[e.ip], e)
              n == AuthFailures(e)
  <2>1. row \in DetectionState
    BY <1>2, StreakType DEF DetectTypes
  <2>2. /\ detection' = [detection EXCEPT ![e.ip] = row]
        /\ \/ /\ n >= ThresholdAuth
              /\ offenders' = [offenders EXCEPT ![e.ip] =
                    [reason |-> "authentication_failures", attempts |-> n, flagged |-> TRUE]]
           \/ offenders' = offenders
    BY <1>5 DEF persistNginxEvent, updateNginxDetection, flagSecurityOffender
  <2>. HIDE DEF row, n
  <2>3. n \in Nat
    BY <1>2 DEF n
  <2>4. n >= ThresholdAuth => n > 0
    BY <2>3 DEF DetectionAssumption
  <2>5. detection' \in [IPs -> DetectionState] /\ offenders' \in [IPs -> Offence]
    <3>1. [reason |-> "authentication_failures", attempts |-> n, flagged |-> TRUE] \in Offence
      BY <2>3 DEF Offence
    <3>. QED
      BY <1>2, <2>1, <2>2, <3>1 DEF DetectTypes
  <2>6. \A ip \in IPs : offenders[ip].attempts > 0 => offenders'[ip].attempts > 0
    BY <1>2, <2>2, <2>4 DEF DetectTypes
  <2>7. \A ip \in IPs : ip # e.ip => /\ detection'[ip] = detection[ip]
                                    /\ offenders'[ip] = offenders[ip]
    BY <1>2, <2>2 DEF DetectTypes
  <2>. QED
    BY <1>1, <1>5, <2>5, <2>6, <2>7 DEF DetectTypes, Looks
<1>. QED
  BY <1>3, <1>4, <1>5

(* A new response leaves the row current.                                     *)
LEMMA RowStep ==
    ASSUME DetectionAssumption, DetectTypes, NEW e \in Event, persistNginxEvent(e),
           NEW ip \in IPs, Looks(ip, e), RowIsCurrent(ip)
    PROVE  RowIsCurrent(ip)'
<1>. DEFINE d == detection[ip]
<1>1. PICK p : p = Place
  OBVIOUS
<1>2. /\ history' = Append(history, e) /\ history \in Seq(Event)
      /\ history'[p] = e /\ d \in DetectionState
      /\ \A i \in Seen(ip) : history'[i] = history[i]
  BY <1>1, EventStep, LogGrows, Zenon DEF DetectTypes
<1>3. CASE e.status = NotFound
  <2>1. detection'[ip] = Streak(d, e)
    BY <1>3 DEF persistNginxEvent, updateNginxDetection, Looks, DetectTypes
  <2>2. CASE d.lastStatus = NotFound /\ e.ts >= d.lastSeen /\ e.ts <= d.started + Window404
    <3>1. PICK k \in Seen(ip) : \E a \in Between(ip, 1, k) : TellsStreak(ip, a, k)
      BY <2>2 DEF RowIsCurrent, TellsNone
    <3>2. PICK a \in Between(ip, 1, k) :
                /\ IsLast(ip, k)
                /\ d.lastSeen = history[k].ts /\ d.started = history[a].ts
                /\ Scan(ip, a, k)
                /\ Cardinality(Between(ip, a, k)) = d.consecutive
      BY <3>1 DEF TellsStreak
    <3>3. /\ detection'[ip].lastStatus = NotFound /\ detection'[ip].lastSeen = e.ts
          /\ detection'[ip].started = d.started
          /\ detection'[ip].consecutive = d.consecutive + 1
      BY <1>2, <2>1, <2>2 DEF Streak, DetectionState
    <3>4. /\ a \in Between(ip, 1, p)' /\ p \in Seen(ip)' /\ IsLast(ip, p)'
          /\ Cardinality(Between(ip, a, p)') = d.consecutive + 1
      BY <1>1, <1>2, <3>2, ScanGoesOn, NewestAlone
    <3>5. history[k].ts <= e.ts /\ e.ts <= history[a].ts + Window404
      <4>1. d.lastSeen \in Nat /\ e.ts \in Nat
        BY <1>2, EventFields DEF DetectionState
      <4>. QED
        BY <4>1, <2>2, <3>2
    <3>6. Scan(ip, a, p)'
      BY <1>1, <1>2, <1>3, <3>2, <3>5, ScanGoesOn
    <3>7. a \in Seen(ip) /\ history'[a] = history[a]
      BY <1>2 DEF Between
    <3>8. TellsStreak(ip, a, p)'
      BY <1>2, <3>2, <3>3, <3>4, <3>6, <3>7 DEF TellsStreak, NotFound
    <3>. QED
      BY <3>4, <3>8, Zenon DEF RowIsCurrent
  <2>3. CASE ~(d.lastStatus = NotFound /\ e.ts >= d.lastSeen /\ e.ts <= d.started + Window404)
    <3>1. /\ detection'[ip].lastStatus = NotFound /\ detection'[ip].lastSeen = e.ts
          /\ detection'[ip].started = e.ts /\ detection'[ip].consecutive = 1
      BY <2>1, <2>3 DEF Streak
    <3>2. /\ p \in Seen(ip)' /\ p \in Between(ip, 1, p)' /\ IsLast(ip, p)'
          /\ Cardinality(Between(ip, p, p)') = 1 /\ Scan(ip, p, p)'
      BY <1>1, <1>2, <1>3, NewestAlone
    <3>3. TellsStreak(ip, p, p)'
      BY <1>2, <3>1, <3>2 DEF TellsStreak, NotFound
    <3>. QED
      BY <3>2, <3>3, Zenon DEF RowIsCurrent
  <2>. QED
    BY <2>2, <2>3
<1>4. CASE e.status # NotFound
  <2>1. detection'[ip] = Reset(d, e)
    BY <1>4 DEF persistNginxEvent, updateNginxDetection, Looks, DetectTypes
  <2>2. d.lastStatus = 0 => d.consecutive = 0
    BY DEF RowIsCurrent, TellsStreak, TellsNone, NotFound
  <2>3. detection'[ip].lastStatus # NotFound /\ detection'[ip].consecutive = 0
    BY <1>4, <2>1, <2>2 DEF Reset, NotFound
  <2>4. p \in Seen(ip)' /\ IsLast(ip, p)' /\ history'[p].status # NotFound
    BY <1>1, <1>2, <1>4, NewestAlone
  <2>5. TellsNone(ip)'
    BY <2>3, <2>4, ZenonT(40) DEF TellsNone, NotFound
  <2>. QED
    BY <2>5 DEF RowIsCurrent
<1>. QED
  BY <1>3, <1>4

(* An address that escapes the new response still misses one streak at most:  *)
(* when the window cuts the streak off, the scans it began before are out of  *)
(* the window too.                                                            *)
LEMMA MissesStep ==
    ASSUME DetectionAssumption, DetectTypes, NEW e \in Event, persistNginxEvent(e),
           NEW ip \in IPs, Looks(ip, e), RowIsCurrent(ip), MissesOneStreak(ip)
    PROVE  MissesOneStreak(ip)'
<1>. SUFFICES ASSUME offenders'[ip].attempts = 0
              PROVE  /\ detection'[ip].consecutive < Threshold404
                     /\ \A k \in Seen(ip)' : \A a \in Between(ip, 1, k)' :
                          IsLast(ip, k)' /\ Scan(ip, a, k)' => Counted(ip, a, k)'
  BY Zenon DEF MissesOneStreak
<1>. DEFINE d == detection[ip]
            c == detection'[ip].consecutive
<1>1. PICK p : p = Place
  OBVIOUS
<1>2. /\ history' = Append(history, e) /\ history \in Seq(Event)
      /\ history'[p] = e /\ d \in DetectionState /\ detection'[ip] \in DetectionState
      /\ \A i \in Seen(ip) : i \in Nat /\ i < p /\ history'[i] = history[i]
      /\ Seen(ip)' = Seen(ip) \cup {p} /\ p \in Nat
  BY <1>1, EventStep, LogGrows DEF DetectTypes, Place
<1>3. /\ e.ts \in Nat /\ Threshold404 \in Nat /\ Threshold404 > 0 /\ Window404 \in Nat
      /\ d.consecutive \in Nat /\ d.started \in Nat /\ d.lastSeen \in Nat /\ c \in Nat
  <2>1. e.ts \in Nat
    BY EventFields
  <2>2. Threshold404 \in Nat /\ Threshold404 > 0 /\ Window404 \in Nat
    BY DEF DetectionAssumption
  <2>3. \A s \in DetectionState : s.consecutive \in Nat /\ s.started \in Nat /\ s.lastSeen \in Nat
    BY DEF DetectionState
  <2>4. d \in DetectionState /\ detection'[ip] \in DetectionState
    BY <1>2
  <2>. HIDE DEF d
  <2>. QED
    BY <2>1, <2>2, <2>3, <2>4
<1>4. /\ offenders[ip].attempts = 0
      /\ d.consecutive < Threshold404
      /\ \A k \in Seen(ip) : \A a \in Between(ip, 1, k) :
            IsLast(ip, k) /\ Scan(ip, a, k) => Counted(ip, a, k)
  <2>1. offenders[ip].attempts \in Nat /\ ~(offenders[ip].attempts > 0)
    <3>1. offenders[ip].attempts > 0 => offenders'[ip].attempts > 0
      BY EventStep, Zenon
    <3>2. ~(offenders'[ip].attempts > 0)
      OBVIOUS
    <3>3. offenders[ip] \in Offence
      BY DEF DetectTypes
    <3>4. offenders[ip].attempts \in Nat
      BY <3>3 DEF Offence
    <3>. QED
      BY <3>1, <3>2, <3>4
  <2>2. offenders[ip].attempts = 0
    BY <2>1
  <2>. QED
    BY <2>2, Zenon DEF MissesOneStreak
<1>5. CASE e.status = NotFound
  <2>1. detection'[ip] = Streak(d, e)
    BY <1>5 DEF persistNginxEvent, updateNginxDetection, Looks, DetectTypes
  <2>2. c < Threshold404
    <3>1. c >= Threshold404 => offenders'[ip].attempts = c
      BY <1>5, <2>1 DEF persistNginxEvent, updateNginxDetection, flagSecurityOffender,
                        Looks, DetectTypes
    <3>. QED
      BY <3>1, <1>3
  <2>3. SUFFICES ASSUME NEW a \in Between(ip, 1, p)', Scan(ip, a, p)'
                 PROVE  Counted(ip, a, p)'
    BY <1>1, <1>2, <2>2, NewestAlone
  <2>4. CASE a = p
    <3>1. Cardinality(Between(ip, p, p)') = 1
      BY <1>1, <1>2, NewestAlone
    <3>2. c >= 1
      BY <1>3, <2>1 DEF Streak, DetectionState
    <3>. QED
      BY <1>3, <2>4, <3>1, <3>2 DEF Counted
  <2>5. CASE a # p
    <3>1. a \in Seen(ip) /\ a \in Nat /\ a < p /\ 1 <= a
      BY <1>2, <2>5 DEF Between
    <3>2. history'[a] = history[a] /\ history[a].ts \in Nat
      BY <1>2, <3>1, SeenPlaces
    <3>3. PICK k \in Seen(ip) : \E b \in Between(ip, 1, k) : TellsStreak(ip, b, k)
      <4>1. SUFFICES ASSUME TellsNone(ip) PROVE FALSE
        BY DEF RowIsCurrent
      <4>2. PICK k \in Seen(ip) : IsLast(ip, k) /\ history[k].status # NotFound
        BY <3>1, <4>1 DEF TellsNone
      <4>3. k \in Nat /\ k < p /\ a <= k /\ k \in Seen(ip)' /\ history'[k] = history[k]
        BY <1>2, <3>1, <4>2 DEF IsLast
      <4>4. k \in Between(ip, a, p)'
        BY <1>2, <4>3 DEF Between
      <4>5. history'[k].status = NotFound
        BY <4>4, <2>3 DEF Scan, NotFound
      <4>. QED
        BY <4>2, <4>3, <4>5
    <3>4. /\ IsLast(ip, k) /\ k \in Nat /\ a \in Between(ip, 1, k) /\ d.lastStatus = NotFound
          /\ d.lastSeen = history[k].ts
      BY <1>2, <3>1, <3>3 DEF TellsStreak, IsLast, Between
    <3>. DEFINE n == Cardinality(Between(ip, a, k))
    <3>5. /\ n \in Nat /\ Cardinality(Between(ip, a, p)') = n + 1
          /\ Scan(ip, a, k) /\ d.lastSeen <= e.ts /\ e.ts <= history[a].ts + Window404
      BY <1>1, <1>2, <2>3, <3>4, ScanGoesOn, SMTT(30)
    <3>6. n <= d.consecutive \/ (history[a].ts <= d.started /\ n < d.consecutive + Threshold404)
      BY <1>4, <3>3, <3>4, <3>5 DEF Counted
    <3>7. history[a].ts <= e.ts
      <4>1. a \in Between(ip, a, p)' /\ p \in Between(ip, a, p)'
        BY <1>2, <3>1 DEF Between
      <4>2. history'[a].ts <= history'[p].ts
        BY <2>3, <3>1, <4>1 DEF Scan
      <4>. QED
        BY <1>2, <3>2, <4>2
    <3>. DEFINE s == detection'[ip].started
    <3>8. \/ c = d.consecutive + 1 /\ s = d.started
          \/ ~(e.ts <= d.started + Window404) /\ c = 1 /\ s = e.ts
      <4>1. e.ts >= d.lastSeen
        BY <1>3, <3>5
      <4>. QED
        BY <1>2, <2>1, <3>4, <4>1 DEF Streak, DetectionState
    <3>. HIDE DEF n, s, c, d
    <3>9. n + 1 <= c \/ (history[a].ts <= s /\ n + 1 < c + Threshold404)
      <4>1. CASE c = d.consecutive + 1 /\ s = d.started
        BY <4>1, <1>3, <3>2, <3>5, <3>6
      <4>2. CASE ~(e.ts <= d.started + Window404) /\ c = 1 /\ s = e.ts
        <5>1. n <= d.consecutive /\ d.consecutive < Threshold404
          BY <4>2, <1>3, <1>4, <3>2, <3>5, <3>6 DEF d
        <5>. QED
          BY <4>2, <5>1, <1>3, <3>2, <3>5, <3>7
      <4>. QED
        BY <3>8, <4>1, <4>2
    <3>. QED
      BY <3>2, <3>5, <3>9 DEF Counted, s, c
  <2>. QED
    BY <2>4, <2>5
<1>6. CASE e.status # NotFound
  <2>1. c = 0
    <3>1. detection'[ip] = Reset(d, e)
      BY <1>6 DEF persistNginxEvent, updateNginxDetection, Looks, DetectTypes
    <3>2. d.lastStatus = 0 => d.consecutive = 0
      BY DEF RowIsCurrent, TellsStreak, TellsNone, NotFound
    <3>. QED
      BY <3>1, <3>2 DEF Reset
  <2>2. ASSUME NEW a \in Between(ip, 1, p)' PROVE ~Scan(ip, a, p)'
    <3>1. p \in Between(ip, a, p)'
      BY <1>2 DEF Between
    <3>2. Scan(ip, a, p)' => history'[p].status = NotFound
      BY <3>1 DEF Scan, NotFound
    <3>. QED
      BY <1>2, <1>6, <3>2
  <2>3. \A k : IsLast(ip, k)' => k = p
    BY <1>1, <1>2, NewestAlone
  <2>. QED
    BY <1>3, <2>1, <2>2, <2>3
<1>. QED
  BY <1>5, <1>6

(* The failures an event counts are those the log then shows at its place.    *)
LEMMA FailuresCounted ==
    ASSUME DetectionAssumption, history \in Seq(Event), NEW e \in Event,
           history' = Append(history, e), NEW p, p = Place
    PROVE  /\ IsFiniteSet(Failures(e.ip, p)')
           /\ AuthFailures(e) = Cardinality(Failures(e.ip, p)')
<1>. DEFINE F == {i \in 1..Len(history') : /\ history'[i].ip = e.ip
                                           /\ history'[i].status = 401
                                           /\ WithinWindow(history'[i].ts, e.ts)}
            G == Failures(e.ip, p)'
<1>1. /\ history' \in Seq(Event) /\ Len(history') = p /\ p \in Nat /\ history'[p] = e
  BY LogGrows DEF Place
<1>2. AuthFailures(e) = Cardinality(F)
  BY DEF AuthFailures
<1>3. \A i \in 1..p : history'[i].ignored => history'[i].status # 401
  BY <1>1, EventFields DEF NotFound
<1>4. Seen(e.ip)' = {i \in 1..p : history'[i].ip = e.ip /\ ~history'[i].ignored}
  BY <1>1 DEF Seen
<1>5. Between(e.ip, 1, p)' = Seen(e.ip)'
  BY <1>1, <1>4 DEF Between
<1>6. G = {i \in Between(e.ip, 1, p)' : /\ history'[i].status = 401
                                        /\ history'[i].ts <= history'[p].ts
                                        /\ history'[i].ts + WindowAuth >= history'[p].ts}
  BY DEF Failures
<1>7. G = F
  BY <1>1, <1>3, <1>4, <1>5, <1>6 DEF WithinWindow
<1>8. G \subseteq 1..p
  BY <1>4, <1>5, <1>6
<1>9. IsFiniteSet(G)
  <2>1. IsFiniteSet(1..p)
    BY <1>1, FS_Interval
  <2>. QED
    BY <1>8, <2>1, FS_Subset
<1>. QED
  BY <1>2, <1>7, <1>9

(* An event accuses nobody without cause.                                     *)
LEMMA OffendedStep ==
    ASSUME DetectionAssumption, DetectTypes, NEW e \in Event, persistNginxEvent(e),
           \A ip \in IPs : RowIsCurrent(ip), OffendersOffended
    PROVE  OffendersOffended'
<1>. SUFFICES ASSUME NEW ip \in IPs, NEW n, n = offenders'[ip].attempts, n > 0
              PROVE  \/ /\ offenders'[ip].reason = "consecutive_404" /\ n >= Threshold404
                        /\ \E k \in Seen(ip)' : Burst(ip, k, n)'
                     \/ /\ offenders'[ip].reason = "authentication_failures"
                        /\ n >= ThresholdAuth
                        /\ \E k \in Seen(ip)' : Cardinality(Failures(ip, k)') = n
  BY DEF OffendersOffended
<1>1. PICK p : p = Place
  OBVIOUS
<1>2. history' = Append(history, e) /\ history \in Seq(Event)
  BY EventStep DEF DetectTypes
<1>3. CASE offenders'[ip] = offenders[ip]
  <2>1. \/ /\ offenders[ip].reason = "consecutive_404" /\ n >= Threshold404
           /\ \E k \in Seen(ip) : Burst(ip, k, n)
        \/ /\ offenders[ip].reason = "authentication_failures" /\ n >= ThresholdAuth
           /\ \E k \in Seen(ip) : Cardinality(Failures(ip, k)) = n
    BY <1>3 DEF OffendersOffended
  <2>2. \A k \in Seen(ip) : /\ k \in Seen(ip)' /\ Failures(ip, k)' = Failures(ip, k)
                            /\ Burst(ip, k, n) => Burst(ip, k, n)'
    BY <1>2, PastIsKept, Zenon
  <2>. QED
    BY <1>3, <2>1, <2>2, Zenon
<1>4. CASE offenders'[ip] # offenders[ip]
  <2>1. Looks(ip, e)
    BY <1>4, EventStep
  <2>2. p \in Seen(ip)'
    BY <1>1, <1>2, <2>1, NewestAlone
  <2>3. CASE e.status = NotFound
    <3>1. /\ offenders'[ip].reason = "consecutive_404"
          /\ n = detection'[ip].consecutive /\ n >= Threshold404
      BY <1>4, <2>1, <2>3 DEF persistNginxEvent, updateNginxDetection,
                              flagSecurityOffender, Looks, DetectTypes
    <3>2. RowIsCurrent(ip)'
      BY <2>1, RowStep
    <3>3. ~TellsNone(ip)'
      BY <3>1 DEF TellsNone
    <3>4. PICK k \in Seen(ip)' : \E a \in Between(ip, 1, k)' : TellsStreak(ip, a, k)'
      BY <3>2, <3>3, Zenon DEF RowIsCurrent
    <3>5. Burst(ip, k, n)'
      BY <3>1, <3>4 DEF TellsStreak, Burst
    <3>. QED
      BY <3>1, <3>4, <3>5, Zenon
  <2>4. CASE e.status # NotFound
    <3>1. /\ offenders'[ip].reason = "authentication_failures"
          /\ n = AuthFailures(e)
          /\ AuthFailures(e) >= ThresholdAuth
      BY <1>4, <2>1, <2>4 DEF persistNginxEvent, updateNginxDetection,
                              flagSecurityOffender, Looks, DetectTypes
    <3>2. AuthFailures(e) = Cardinality(Failures(ip, p)')
      BY <1>1, <1>2, <2>1, FailuresCounted DEF Looks
    <3>. QED
      BY <2>2, <3>1, <3>2, Zenon
  <2>. QED
    BY <2>3, <2>4
<1>. QED
  BY <1>3, <1>4

(* No long scan escapes.                                                      *)
LEMMA LongScanStep ==
    ASSUME DetectionAssumption, DetectTypes, NEW e \in Event, persistNginxEvent(e),
           \A ip \in IPs : RowIsCurrent(ip) /\ MissesOneStreak(ip), LongScanFlagged
    PROVE  LongScanFlagged'
<1>. DEFINE long == 2 * Threshold404 - 1
<1>. SUFFICES ASSUME NEW ip \in IPs, NEW k \in Seen(ip)', Burst(ip, k, long)'
              PROVE  offenders'[ip].attempts > 0
  BY DEF LongScanFlagged
<1>1. PICK p : p = Place
  OBVIOUS
<1>2. /\ history' = Append(history, e) /\ history \in Seq(Event)
      /\ offenders[ip].attempts > 0 => offenders'[ip].attempts > 0
      /\ Seen(ip)' = IF Looks(ip, e) THEN Seen(ip) \cup {p} ELSE Seen(ip)
  BY <1>1, EventStep, LogGrows, Zenon DEF DetectTypes
<1>3. CASE k \in Seen(ip)
  <2>1. Burst(ip, k, long)
    BY <1>2, <1>3, PastIsKept
  <2>. QED
    BY <1>2, <1>3, <2>1 DEF LongScanFlagged
<1>4. CASE k \notin Seen(ip)
  <2>1. Looks(ip, e) /\ k = p
    BY <1>2, <1>4
  <2>2. IsLast(ip, p)'
    BY <1>1, <1>2, <2>1, NewestAlone
  <2>3. MissesOneStreak(ip)'
    BY <2>1, MissesStep
  <2>4. PICK a \in Between(ip, 1, p)' :
            Scan(ip, a, p)' /\ Cardinality(Between(ip, a, p)') = long
    BY <2>1, Zenon DEF Burst
  <2>5. ASSUME offenders'[ip].attempts = 0 PROVE FALSE
    <3>. DEFINE c == detection'[ip].consecutive
    <3>1. c < Threshold404 /\ Counted(ip, a, p)'
      BY <2>1, <2>2, <2>3, <2>4, <2>5, Zenon DEF MissesOneStreak
    <3>2. c \in Nat /\ Threshold404 \in Nat
      BY EventStep DEF DetectTypes, DetectionState, DetectionAssumption
    <3>3. long <= c \/ long < c + Threshold404
      BY <2>4, <3>1 DEF Counted
    <3>. HIDE DEF c
    <3>4. c < Threshold404
      BY <3>1 DEF c
    <3>. QED
      BY <3>2, <3>3, <3>4
  <2>6. offenders'[ip].attempts \in Nat
    BY EventStep DEF DetectTypes, Offence
  <2>. QED
    BY <2>5, <2>6
<1>. QED
  BY <1>3, <1>4

(* No burst of authentication failures escapes: one that the new event belongs *)
(* to is among what the event counts, and one that it does not belong to was   *)
(* there before.                                                              *)
LEMMA AuthBurstStep ==
    ASSUME DetectionAssumption, DetectTypes, NEW e \in Event, persistNginxEvent(e),
           AuthBurstFlagged
    PROVE  AuthBurstFlagged'
<1>. SUFFICES ASSUME NEW ip \in IPs, InOrderOfTime(ip)', NEW k \in Seen(ip)',
                     Cardinality(FailuresFrom(ip, k)') >= ThresholdAuth
              PROVE  offenders'[ip].attempts > 0
  BY DEF AuthBurstFlagged
<1>1. PICK p : p = Place
  OBVIOUS
<1>2. /\ history' = Append(history, e) /\ history \in Seq(Event) /\ history' \in Seq(Event)
      /\ history'[p] = e
      /\ offenders[ip].attempts > 0 => offenders'[ip].attempts > 0
      /\ Seen(ip)' = IF Looks(ip, e) THEN Seen(ip) \cup {p} ELSE Seen(ip)
      /\ \A i \in Seen(ip) : i \in Nat /\ i < p /\ history'[i] = history[i]
  BY <1>1, EventStep, LogGrows, Zenon DEF DetectTypes
<1>3. p \in Nat /\ ThresholdAuth \in Nat /\ ThresholdAuth > 0 /\ WindowAuth \in Nat
  BY <1>1, <1>2 DEF Place, DetectionAssumption
<1>4. \A i \in Seen(ip) : history[i].ts \in Nat
  BY <1>2, SeenPlaces
<1>5. /\ \A i \in Seen(ip)' : i \in Nat /\ i <= p /\ history'[i].ts \in Nat
      /\ \A i, j \in Seen(ip)' : i < j => history'[i].ts <= history'[j].ts
      /\ e.ts \in Nat
  <2>1. e.ts \in Nat
    BY EventFields
  <2>2. ASSUME NEW i \in Seen(ip)' PROVE i \in Nat /\ i <= p /\ history'[i].ts \in Nat
    <3>1. CASE i = p
      BY <2>1, <3>1, <1>2, <1>3
    <3>2. CASE i \in Seen(ip)
      <4>1. i \in Nat /\ i < p /\ history'[i].ts \in Nat
        BY <3>2, <1>2, <1>4
      <4>. QED
        BY <4>1, <1>3
    <3>. QED
      BY <3>1, <3>2, <1>2
  <2>. QED
    BY <2>1, <2>2 DEF InOrderOfTime
<1>6. InOrderOfTime(ip)
  BY <1>2, <1>5 DEF InOrderOfTime
<1>. DEFINE F == FailuresFrom(ip, k)'
<1>7. /\ F = {i \in Seen(ip)' : /\ history'[i].status = 401
                                /\ history'[i].ts >= history'[k].ts
                                /\ history'[i].ts <= history'[k].ts + WindowAuth}
      /\ Cardinality(F) >= ThresholdAuth
  BY DEF FailuresFrom
<1>. HIDE DEF F
<1>8. \A i \in Seen(ip) : IsFiniteSet(FailuresFrom(ip, i))
  <2>1. \A i : FailuresFrom(ip, i) \subseteq Seen(ip)
    BY DEF FailuresFrom
  <2>. QED
    BY <2>1, <1>2, SeenPlaces, FS_Subset
<1>9. ASSUME NEW j \in Seen(ip), F \subseteq FailuresFrom(ip, j)
      PROVE  offenders'[ip].attempts > 0
  <2>1. /\ Cardinality(F) \in Nat /\ Cardinality(FailuresFrom(ip, j)) \in Nat
        /\ Cardinality(F) <= Cardinality(FailuresFrom(ip, j))
    BY <1>8, <1>9, FS_Subset, FS_CardinalityType
  <2>2. Cardinality(FailuresFrom(ip, j)) >= ThresholdAuth
    BY <2>1, <1>3, <1>7
  <2>. QED
    BY <1>2, <1>6, <2>2 DEF AuthBurstFlagged
<1>10. p \notin Seen(ip)
  <2>1. SUFFICES ASSUME p \in Seen(ip) PROVE FALSE
    OBVIOUS
  <2>2. p < p
    BY <2>1, <1>2
  <2>. QED
    BY <2>2, <1>3
<1>11. CASE p \in F
  <2>1. /\ Looks(ip, e) /\ e.status = 401
        /\ e.ts <= history'[k].ts + WindowAuth
    <3>1. /\ p \in Seen(ip)' /\ history'[p].status = 401
          /\ history'[p].ts <= history'[k].ts + WindowAuth
      BY <1>7, <1>11
    <3>. QED
      BY <1>2, <1>10, <3>1
  <2>2. ASSUME NEW i \in F PROVE i \in Failures(ip, p)'
    <3>1. /\ i \in Seen(ip)' /\ p \in Seen(ip)' /\ i \in Nat /\ 1 <= i /\ i <= p
          /\ history'[i].ts \in Nat /\ history'[k].ts \in Nat
      <4>1. i \in Seen(ip)' /\ p \in Seen(ip)' /\ i <= p
        BY <1>5, <1>7, <1>11
      <4>2. i \in 1..Len(history')
        BY <4>1 DEF Seen
      <4>. QED
        BY <4>1, <4>2, <1>5
    <3>2. /\ history'[i].status = 401 /\ history'[i].ts >= history'[k].ts
      BY <1>7
    <3>3. history'[i].ts <= e.ts
      <4>1. CASE i = p
        BY <4>1, <1>2, <1>5
      <4>2. CASE i < p
        BY <4>2, <1>2, <1>5, <3>1
      <4>. QED
        BY <4>1, <4>2, <3>1, <1>3
    <3>4. history'[i].ts + WindowAuth >= e.ts
      BY <1>3, <1>5, <2>1, <3>1, <3>2
    <3>5. i \in Between(ip, 1, p)'
      BY <3>1 DEF Between
    <3>. QED
      BY <1>2, <3>2, <3>3, <3>4, <3>5 DEF Failures
  <2>3. /\ AuthFailures(e) = Cardinality(Failures(ip, p)') /\ IsFiniteSet(Failures(ip, p)')
    BY <1>1, <1>2, <2>1, FailuresCounted DEF Looks
  <2>4. AuthFailures(e) \in Nat /\ Cardinality(F) \in Nat /\ Cardinality(F) <= AuthFailures(e)
    BY <2>2, <2>3, FS_Subset, FS_CardinalityType
  <2>5. AuthFailures(e) >= ThresholdAuth /\ AuthFailures(e) > 0
    BY <1>3, <1>7, <2>4
  <2>6. offenders'[ip].attempts = AuthFailures(e)
    BY <2>1, <2>5 DEF persistNginxEvent, updateNginxDetection, flagSecurityOffender,
                      Looks, DetectTypes, NotFound
  <2>. QED
    BY <2>5, <2>6
<1>12. CASE p \notin F
  <2>1. F \subseteq Seen(ip)
    <3>1. ASSUME NEW i \in F PROVE i \in Seen(ip)
      <4>1. i \in Seen(ip)' /\ i # p
        BY <1>7, <1>12
      <4>. QED
        BY <1>2, <4>1
    <3>. QED
      BY <3>1
  <2>2. CASE k \in Seen(ip)
    <3>1. F \subseteq FailuresFrom(ip, k)
      <4>1. ASSUME NEW i \in F PROVE i \in FailuresFrom(ip, k)
        <5>1. /\ i \in Seen(ip) /\ history'[i].status = 401
              /\ history'[i].ts >= history'[k].ts
              /\ history'[i].ts <= history'[k].ts + WindowAuth
          BY <1>7, <2>1
        <5>2. history'[i] = history[i] /\ history'[k] = history[k]
          BY <1>2, <2>2, <5>1, ZenonT(40)
        <5>. QED
          BY <5>1, <5>2 DEF FailuresFrom
      <4>. QED
        BY <4>1
    <3>. QED
      BY <1>9, <2>2, <3>1
  <2>3. CASE k \notin Seen(ip)
    <3>1. k = p
      BY <1>2, <2>3
    <3>2. PICK j : j \in F
      <4>1. SUFFICES ASSUME F = {} PROVE FALSE
        OBVIOUS
      <4>2. Cardinality(F) = 0
        BY <4>1, FS_EmptySet
      <4>. QED
        BY <4>2, <1>3, <1>7
    <3>3. F \subseteq FailuresFrom(ip, j)
      <4>1. ASSUME NEW i \in F PROVE i \in Seen(ip) /\ history[i].ts = e.ts
                                    /\ history[i].status = 401
        <5>1. i \in Seen(ip) /\ i \in Seen(ip)' /\ p \in Seen(ip)' /\ i < p
          BY <1>2, <2>1, <3>1
        <5>2. /\ history'[i].ts \in Nat /\ history'[i].ts <= history'[p].ts
              /\ history'[i].ts >= history'[p].ts /\ history'[i].status = 401
          BY <1>5, <1>7, <3>1, <5>1
        <5>. QED
          <6>1. history'[i] = history[i] /\ history'[p] = e
            BY <1>2, <5>1
          <6>. QED
            BY <1>5, <5>1, <5>2, <6>1
      <4>2. history[j].ts = e.ts /\ e.ts >= e.ts /\ e.ts <= e.ts + WindowAuth
        BY <4>1, <3>2, <1>3, <1>5
      <4>. QED
        BY <4>1, <4>2 DEF FailuresFrom
    <3>. QED
      BY <1>9, <2>1, <3>2, <3>3
  <2>. QED
    BY <2>2, <2>3
<1>. QED
  BY <1>11, <1>12

(* What is known of an address that a step does not concern stays known.      *)
LEMMA Unconcerned ==
    ASSUME NEW ip \in IPs, Seen(ip)' = Seen(ip),
           detection'[ip] = detection[ip],
           offenders'[ip].attempts = offenders[ip].attempts,
           \A k \in Seen(ip) :
                /\ history'[k] = history[k]
                /\ \A a : Between(ip, a, k)' = Between(ip, a, k)
                /\ \A a \in Between(ip, 1, k) : Scan(ip, a, k)' <=> Scan(ip, a, k),
           RowIsCurrent(ip), MissesOneStreak(ip)
    PROVE  RowIsCurrent(ip)' /\ MissesOneStreak(ip)'
<1>1. \A k : IsLast(ip, k)' <=> IsLast(ip, k)
  BY DEF IsLast
<1>2. \A k \in Seen(ip) : \A a \in Between(ip, 1, k) : a \in Seen(ip)
  BY DEF Between
<1>3. RowIsCurrent(ip)'
  <2>1. CASE \E k \in Seen(ip) : \E a \in Between(ip, 1, k) : TellsStreak(ip, a, k)
    <3>0. PICK k \in Seen(ip) : \E a \in Between(ip, 1, k) : TellsStreak(ip, a, k)
      BY <2>1
    <3>1. PICK a \in Between(ip, 1, k) : TellsStreak(ip, a, k)
      BY <3>0
    <3>2. TellsStreak(ip, a, k)'
      BY <1>1, <1>2, <3>1 DEF TellsStreak, NotFound
    <3>3. k \in Seen(ip)' /\ a \in Between(ip, 1, k)'
      BY <3>1
    <3>. QED
      BY <3>2, <3>3, Zenon DEF RowIsCurrent
  <2>2. CASE TellsNone(ip)
    <3>1. TellsNone(ip)'
      BY <1>1, <2>2 DEF TellsNone, NotFound
    <3>. QED
      BY <3>1 DEF RowIsCurrent
  <2>. QED
    BY <2>1, <2>2 DEF RowIsCurrent
<1>4. MissesOneStreak(ip)'
  <2>1. SUFFICES ASSUME offenders'[ip].attempts = 0
                 PROVE  /\ detection'[ip].consecutive < Threshold404
                        /\ \A k \in Seen(ip)' : \A a \in Between(ip, 1, k)' :
                             IsLast(ip, k)' /\ Scan(ip, a, k)' => Counted(ip, a, k)'
    BY Zenon DEF MissesOneStreak
  <2>2. /\ detection[ip].consecutive < Threshold404
        /\ \A k \in Seen(ip) : \A a \in Between(ip, 1, k) :
              IsLast(ip, k) /\ Scan(ip, a, k) => Counted(ip, a, k)
    BY <2>1, Zenon DEF MissesOneStreak
  <2>3. \A k \in Seen(ip) : \A a \in Between(ip, 1, k) :
            Counted(ip, a, k) => Counted(ip, a, k)'
    BY <1>2 DEF Counted
  <2>. QED
    BY <1>1, <2>2, <2>3
<1>. QED
  BY <1>3, <1>4

LEMMA DetectInitially == ASSUME DetectionAssumption, DetectInit PROVE DetectInv
<1>1. \A ip : Seen(ip) = {}
  BY DEF DetectInit, Seen
<1>2. /\ \A ip \in IPs : detection[ip] = NoState
      /\ \A ip \in IPs : offenders[ip] = NoOffence
      /\ Threshold404 \in Nat /\ 0 < Threshold404
  BY DEF DetectInit, DetectionAssumption
<1>3. DetectTypes
  <2>1. NoState \in DetectionState /\ NoOffence \in Offence
    BY DEF NoState, NoOffence, DetectionState, Offence
  <2>. QED
    BY <2>1 DEF DetectTypes, DetectInit
<1>4. \A ip \in IPs : RowIsCurrent(ip) /\ MissesOneStreak(ip)
  BY <1>1, <1>2 DEF RowIsCurrent, TellsNone, MissesOneStreak, NoState, NotFound
<1>5. OffendersOffended /\ AuthBurstFlagged /\ LongScanFlagged
  <2>1. \A ip \in IPs : ~(offenders[ip].attempts > 0)
    <3>1. NoOffence.attempts = 0 /\ ~(0 > 0)
      BY DEF NoOffence
    <3>. QED
      BY <1>2, <3>1, Zenon
  <2>2. OffendersOffended
    BY <2>1, Zenon DEF OffendersOffended
  <2>3. AuthBurstFlagged /\ LongScanFlagged
    BY <1>1 DEF AuthBurstFlagged, LongScanFlagged
  <2>. QED
    BY <2>2, <2>3
<1>. QED
  BY <1>3, <1>4, <1>5 DEF DetectInv

LEMMA EventKeeps ==
    ASSUME DetectionAssumption, DetectInv, NEW e \in Event, persistNginxEvent(e)
    PROVE  DetectInv'
<1>1. DetectTypes /\ \A ip \in IPs : RowIsCurrent(ip) /\ MissesOneStreak(ip)
  BY DEF DetectInv
<1>2. ASSUME NEW ip \in IPs PROVE RowIsCurrent(ip)' /\ MissesOneStreak(ip)'
  <2>1. CASE Looks(ip, e)
    BY <1>1, <2>1, RowStep, MissesStep
  <2>2. CASE ~Looks(ip, e)
    <3>1. /\ history' = Append(history, e) /\ history \in Seq(Event)
          /\ detection'[ip] = detection[ip] /\ offenders'[ip] = offenders[ip]
      BY <1>1, <2>2, EventStep DEF DetectTypes
    <3>2. Seen(ip)' = Seen(ip) /\ \A k \in Seen(ip) : history'[k] = history[k]
      BY <2>2, <3>1, LogGrows
    <3>3. \A k \in Seen(ip) :
                /\ \A a : Between(ip, a, k)' = Between(ip, a, k)
                /\ \A a \in Between(ip, 1, k) : Scan(ip, a, k)' <=> Scan(ip, a, k)
      BY <3>1, PastIsKept, Zenon
    <3>. QED
      BY <1>1, <3>1, <3>2, <3>3, Unconcerned, Zenon
  <2>. QED
    BY <2>1, <2>2
<1>3. DetectTypes'
  BY <1>1, EventStep
<1>4. OffendersOffended' /\ AuthBurstFlagged' /\ LongScanFlagged'
  BY <1>1, OffendedStep, AuthBurstStep, LongScanStep DEF DetectInv
<1>. QED
  BY <1>2, <1>3, <1>4 DEF DetectInv

(* Dismissing an offender, or nothing at all, leaves the log, the counters    *)
(* and the attempts.                                                          *)
LEMMA DismissKeeps ==
    ASSUME DetectionAssumption, DetectInv, history' = history, detection' = detection,
           \/ offenders' = offenders
           \/ \E ip \in IPs : offenders' = [offenders EXCEPT ![ip].flagged = FALSE]
    PROVE  DetectInv'
<1>1. DetectTypes /\ \A ip \in IPs : RowIsCurrent(ip) /\ MissesOneStreak(ip)
  BY DEF DetectInv
<1>2. /\ offenders' \in [IPs -> Offence]
      /\ \A ip \in IPs : /\ offenders'[ip].attempts = offenders[ip].attempts
                         /\ offenders'[ip].reason = offenders[ip].reason
  <2>1. CASE offenders' = offenders
    BY <1>1, <2>1 DEF DetectTypes
  <2>2. ASSUME NEW x \in IPs, offenders' = [offenders EXCEPT ![x].flagged = FALSE]
        PROVE  <1>2!:
    <3>1. offenders[x] \in Offence
      BY <1>1 DEF DetectTypes
    <3>2. PICK r : r = [offenders[x] EXCEPT !.flagged = FALSE]
      OBVIOUS
    <3>3. r \in Offence /\ r.attempts = offenders[x].attempts /\ r.reason = offenders[x].reason
      BY <3>1, <3>2 DEF Offence
    <3>4. offenders' = [offenders EXCEPT ![x] = r]
      BY <2>2, <3>2
    <3>. QED
      BY <1>1, <3>3, <3>4 DEF DetectTypes
  <2>. QED
    BY <2>1, <2>2
<1>3. /\ \A ip : Seen(ip)' = Seen(ip)
      /\ \A ip, a, k : Between(ip, a, k)' = Between(ip, a, k)
      /\ \A ip, a, k : Scan(ip, a, k)' <=> Scan(ip, a, k)
      /\ \A ip, k, n : Burst(ip, k, n)' <=> Burst(ip, k, n)
      /\ \A ip, k : Failures(ip, k)' = Failures(ip, k)
      /\ \A ip, k : FailuresFrom(ip, k)' = FailuresFrom(ip, k)
      /\ \A ip : InOrderOfTime(ip)' <=> InOrderOfTime(ip)
  BY DEF Seen, Between, Scan, Burst, Failures, FailuresFrom, InOrderOfTime, NotFound
<1>4. DetectTypes'
  BY <1>1, <1>2 DEF DetectTypes
<1>5. \A ip \in IPs : RowIsCurrent(ip)' /\ MissesOneStreak(ip)'
  BY <1>1, <1>2, <1>3, Unconcerned
<1>6. OffendersOffended'
  BY <1>2, <1>3 DEF DetectInv, OffendersOffended
<1>7. AuthBurstFlagged' /\ LongScanFlagged'
  BY <1>2, <1>3 DEF DetectInv, AuthBurstFlagged, LongScanFlagged
<1>. QED
  BY <1>4, <1>5, <1>6, <1>7 DEF DetectInv

----------------------------------------------------------------------------
(* The theorems.                                                              *)

(* persistNginxEvent and handleSecurityDismiss keep the inductive invariant:  *)
(* every row of nginx_ip_detection_state tells its address's last responses,  *)
(* and an address that is not flagged misses one streak at most.              *)
THEOREM DetectionCorrect == DetectSpec => []DetectInv
<1>1. DetectInit => DetectInv
  BY DetectInitially, DetectionAssumption
<1>2. DetectInv /\ [DetectNext]_detectVars => DetectInv'
  <2>. SUFFICES ASSUME DetectInv, [DetectNext]_detectVars PROVE DetectInv'
    OBVIOUS
  <2>1. ASSUME NEW e \in Event, persistNginxEvent(e) PROVE DetectInv'
    BY <2>1, EventKeeps, DetectionAssumption
  <2>2. ASSUME NEW ip \in IPs, handleSecurityDismiss(ip) PROVE DetectInv'
    BY <2>2, DismissKeeps, DetectionAssumption DEF handleSecurityDismiss
  <2>3. CASE UNCHANGED detectVars
    BY <2>3, DismissKeeps, DetectionAssumption DEF detectVars
  <2>. QED
    BY <2>1, <2>2, <2>3 DEF DetectNext
<1>. QED
  BY <1>1, <1>2, PTL DEF DetectSpec

(* The counter of an address is what its last responses show.                 *)
THEOREM CounterTellsTheLog == DetectSpec => []StreakIsReal
<1>1. DetectInv => StreakIsReal
  <2>. SUFFICES ASSUME DetectInv, NEW ip \in IPs, detection[ip].consecutive > 0
                PROVE  \E k \in Seen(ip) : /\ \A i \in Seen(ip) : i <= k
                                           /\ Burst(ip, k, detection[ip].consecutive)
    BY DEF StreakIsReal
  <2>1. PICK k \in Seen(ip) : \E a \in Between(ip, 1, k) : TellsStreak(ip, a, k)
    BY DEF DetectInv, RowIsCurrent, TellsNone
  <2>. QED
    BY <2>1 DEF TellsStreak, Burst, IsLast
<1>. QED
  BY <1>1, DetectionCorrect, PTL

(* Nobody is accused without cause (flagSecurityOffender).                    *)
THEOREM AccusedWithCause == DetectSpec => []OffendersOffended
<1>1. DetectInv => OffendersOffended
  BY DEF DetectInv
<1>. QED
  BY <1>1, DetectionCorrect, PTL

(* No burst of authentication failures escapes, whatever the thresholds and   *)
(* the window, if the address's responses are logged in order of time.        *)
THEOREM AuthBurstsCaught == DetectSpec => []AuthBurstFlagged
<1>1. DetectInv => AuthBurstFlagged
  BY DEF DetectInv
<1>. QED
  BY <1>1, DetectionCorrect, PTL

(* No scan of 2 * threshold - 1 responses within one window escapes, though   *)
(* the window is anchored at the first response of a streak.                  *)
THEOREM LongScansCaught == DetectSpec => []LongScanFlagged
<1>1. DetectInv => LongScanFlagged
  BY DEF DetectInv
<1>. QED
  BY <1>1, DetectionCorrect, PTL

----------------------------------------------------------------------------
(* The records of the access log that were cut and not lost: those applied,   *)
(* those in the channel, and the one the follower is blocked on.              *)
Sent == IF fpc = "send" THEN Append(records, cut[Len(cut)]) ELSE records
Taken == applied \o Sent

NginxTypes ==
    /\ FollowerInv
    /\ applied \in Seq(lineRecord) /\ nginxCheckpoint \in Checkpoint

(* The checkpoint is the place of the last record applied.                    *)
CheckpointIsLast ==
    nginxCheckpoint = IF applied = <<>> THEN NoCheckpoint ELSE CheckpointOf(applied[Len(applied)])

NginxInv ==
    /\ NginxTypes
    /\ LogOrder /\ ReaderOrder /\ CutOrder(Taken)
    /\ CheckpointIsLast
    /\ fpc = "off" => records = <<>> /\ inode = NoFile

LEMMA SentType ==
    ASSUME FollowerInv
    PROVE  /\ Sent \in Seq(lineRecord) /\ Len(Sent) \in Nat /\ Len(records) \in Nat
           /\ Len(records) <= Len(Sent) /\ \A k \in 1..Len(records) : Sent[k] = records[k]
<1>1. records \in Seq(lineRecord) /\ Len(records) \in Nat /\ cut \in Seq(lineRecord)
  BY LenProperties DEF FollowerInv, FollowerTypeOK
<1>2. CASE fpc = "send"
  <2> DEFINE r == cut[Len(cut)]
             s == Append(records, r)
  <2>1. r \in lineRecord
    BY <1>1, <1>2, EmptySeq, ElementOfSeq DEF FollowerInv, FollowerTypeOK
  <2> HIDE DEF r
  <2>2. /\ s \in Seq(lineRecord) /\ Len(s) = Len(records) + 1
        /\ \A k \in 1..Len(records) : s[k] = records[k]
    BY <1>1, <2>1, AppendProperties
  <2>3. Sent = s
    BY <1>2 DEF Sent, r
  <2> HIDE DEF s
  <2> QED BY <1>1, <2>2, <2>3
<1>3. CASE fpc # "send"
  BY <1>1, <1>3 DEF Sent
<1> QED BY <1>2, <1>3

LEMMA TakenType ==
    ASSUME NginxTypes
    PROVE  /\ Taken \in Seq(lineRecord) /\ Len(Taken) \in Nat /\ Len(applied) \in Nat
           /\ Len(Taken) = Len(applied) + Len(Sent)
           /\ \A k \in 1..Len(applied) : k \in 1..Len(Taken) /\ Taken[k] = applied[k]
           /\ \A k \in 1..Len(Sent) : /\ Len(applied) + k \in 1..Len(Taken)
                                      /\ Taken[Len(applied) + k] = Sent[k]
<1>1. /\ applied \in Seq(lineRecord) /\ Sent \in Seq(lineRecord) /\ Len(Sent) \in Nat
      /\ Len(applied) \in Nat
  BY SentType, LenProperties DEF NginxTypes
<1>2. /\ Taken \in Seq(lineRecord) /\ Len(Taken) = Len(applied) + Len(Sent)
      /\ \A i \in 1..Len(Taken) : i <= Len(applied) => Taken[i] = applied[i]
      /\ \A i \in 1..Len(Taken) : i > Len(applied) => Taken[i] = Sent[i - Len(applied)]
  BY <1>1, Joined DEF Taken
<1>3. ASSUME NEW k \in 1..Len(Sent)
      PROVE  Len(applied) + k \in 1..Len(Taken) /\ Taken[Len(applied) + k] = Sent[k]
  <2> DEFINE j == Len(applied) + k
  <2>1. j \in 1..Len(Taken) /\ j > Len(applied) /\ j - Len(applied) = k
    BY <1>1, <1>2
  <2> HIDE DEF j
  <2>2. Taken[j] = Sent[k]
    BY <1>2, <2>1
  <2> QED BY <2>1, <2>2 DEF j
<1>4. ASSUME NEW k \in 1..Len(applied)
      PROVE  k \in 1..Len(Taken) /\ Taken[k] = applied[k]
  BY <1>1, <1>2
<1> QED BY <1>1, <1>2, <1>3, <1>4

(* Moving the first of b to the end of a changes nothing.                     *)
LEMMA ShiftJoin ==
    ASSUME NEW S, NEW a \in Seq(S), NEW b \in Seq(S), NEW d \in Seq(S), NEW x \in S,
           Len(b) = Len(d) + 1, b[1] = x, \A k \in 1..Len(d) : d[k] = b[k + 1]
    PROVE  Append(a, x) \o d = a \o b
<1> DEFINE c == Append(a, x)
           u == c \o d
           v == a \o b
<1>1. Len(a) \in Nat /\ Len(b) \in Nat /\ Len(d) \in Nat
  BY LenProperties
<1>2. /\ c \in Seq(S) /\ Len(c) = Len(a) + 1 /\ c[Len(a) + 1] = x
      /\ \A k \in 1..Len(a) : c[k] = a[k]
  BY AppendProperties
<1> HIDE DEF c
<1>3. /\ u \in Seq(S) /\ Len(u) = Len(c) + Len(d)
      /\ \A i \in 1..Len(u) : i <= Len(c) => u[i] = c[i]
      /\ \A i \in 1..Len(u) : i > Len(c) => u[i] = d[i - Len(c)]
  BY <1>2, Joined
<1>4. /\ v \in Seq(S) /\ Len(v) = Len(a) + Len(b)
      /\ \A i \in 1..Len(v) : i <= Len(a) => v[i] = a[i]
      /\ \A i \in 1..Len(v) : i > Len(a) => v[i] = b[i - Len(a)]
  BY Joined
<1> HIDE DEF u, v
<1>5. Len(u) = Len(v)
  BY <1>1, <1>2, <1>3, <1>4
<1>6. ASSUME NEW i \in 1..Len(u) PROVE u[i] = v[i]
  <2>1. CASE i <= Len(a)
    <3>1. i \in 1..Len(a) /\ i <= Len(c) /\ i \in 1..Len(v)
      BY <1>1, <1>2, <1>5, <2>1
    <3>2. u[i] = c[i] /\ c[i] = a[i]
      BY <1>2, <1>3, <3>1
    <3>3. v[i] = a[i]
      BY <1>4, <2>1, <3>1
    <3> QED BY <3>2, <3>3
  <2>2. CASE i = Len(a) + 1
    <3>1. u[i] = x
      BY <1>1, <1>2, <1>3, <2>2
    <3>2. i - Len(a) = 1 /\ i > Len(a) /\ i \in 1..Len(v)
      BY <1>1, <1>5, <2>2
    <3> QED BY <1>4, <3>1, <3>2
  <2>3. CASE i > Len(a) + 1
    <3> DEFINE k == i - Len(c)
    <3>1. k \in 1..Len(d) /\ i - Len(a) = k + 1 /\ i > Len(c) /\ i > Len(a) /\ i \in 1..Len(v)
      BY <1>1, <1>2, <1>3, <1>5, <2>3
    <3>2. u[i] = d[k]
      BY <1>3, <3>1
    <3>3. v[i] = b[i - Len(a)]
      BY <1>4, <3>1
    <3> HIDE DEF k
    <3> QED BY <3>1, <3>2, <3>3
  <2> QED BY <1>1, <2>1, <2>2, <2>3
<1> QED BY <1>3, <1>4, <1>5, <1>6, SeqEqual DEF u, v, c

----------------------------------------------------------------------------
(* The order of what was cut, one lemma per step of the pipeline.             *)

LEMMA NginxInitially == NginxInit => NginxInv
<1> SUFFICES ASSUME NginxInit PROVE NginxInv
  OBVIOUS
<1>1. FollowerInv /\ LogOrder
  BY FollowerInitInv, LogOrderInit DEF NginxInit
<1>2. /\ applied = <<>> /\ nginxCheckpoint = NoCheckpoint
      /\ fpc = "off" /\ records = <<>> /\ inode = NoFile
  BY DEF NginxInit, FollowerInit, FollowInit
<1>3. NginxTypes
  BY <1>1, <1>2, EmptySeq, FollowerAssumption DEF NginxTypes, NoCheckpoint, Checkpoint
<1>4. Sent = <<>> /\ Len(Sent) = 0 /\ Len(applied) = 0
  BY <1>2, EmptySeq DEF Sent
<1>5. Len(Taken) = 0
  BY <1>3, <1>4, TakenType
<1>6. CutOrder(Taken)
  BY <1>5 DEF CutOrder
<1>7. ReaderOrder
  BY <1>2 DEF ReaderOrder
<1> QED BY <1>1, <1>2, <1>3, <1>6, <1>7 DEF NginxInv, CheckpointIsLast

LEMMA LogMovesOrder == ASSUME NginxInv, LogMoves PROVE NginxInv'
<1>1. /\ NginxTypes /\ FollowerInv /\ LogOrder /\ ReaderOrder /\ CutOrder(Taken)
      /\ CheckpointIsLast /\ Environment
  BY DEF NginxInv, NginxTypes, LogMoves
<1>2. FollowerInv'
  BY <1>1, EnvironmentInv
<1>3. UNCHANGED <<fpc, inode, cut, records, applied, nginxCheckpoint>>
  BY DEF LogMoves, durableVars, Environment, Write, Rename, Create, WriterReopen, Truncate, followVars
<1>4. Taken' = Taken
  BY <1>3 DEF Taken, Sent
<1>5. Taken \in Seq(lineRecord)
  BY <1>1, TakenType
<1>6. LogOrder' /\ ReaderOrder'
  BY <1>1, <1>2, LogOrderKept, ReaderOrderKept
<1>7. CutOrder(Taken)'
  <2> DEFINE s == Taken
  <2>0. s \in Seq(lineRecord) /\ CutOrder(s)
    BY <1>1, <1>5
  <2>1. ASSUME NEW u, u = Taken PROVE CutOrder(u)'
    BY <1>1, <1>2, <2>0, <2>1, EnvironmentCut
  <2>2. ASSUME NEW u, u = Taken' PROVE CutOrder(u)'
    BY <1>4, <2>1, <2>2
  <2> QED BY <2>2 DEF CutOrder
<1> QED BY <1>1, <1>2, <1>3, <1>6, <1>7 DEF NginxInv, NginxTypes, CheckpointIsLast

LEMMA CutOrderNow ==
    ASSUME NEW u, Taken' = u, CutOrder(u)'
    PROVE  CutOrder(Taken)'
BY DEF CutOrder

LEMMA SameTaken ==
    ASSUME NginxInv, Taken' = Taken, UNCHANGED logVars,
           \A t : BeforeReader(t) => BeforeReader(t)'
    PROVE  CutOrder(Taken)'
<1>1. ASSUME NEW u, u = Taken PROVE CutOrder(u)'
  <2>1. CutOrder(u)
    BY <1>1 DEF NginxInv
  <2> QED BY <2>1, QuietCut
<1> QED BY <1>1, CutOrderNow

(* A record more is cut.                                                      *)
LEMMA ReadLineTaken ==
    ASSUME NginxInv, FollowerInv', ReadLine, UNCHANGED applied
    PROVE  /\ CutOrder(Taken)'
           /\ \E r \in lineRecord : cut' = Append(cut, r) /\ Taken' = Append(Taken, r)
<1>1. NginxTypes /\ FollowerInv /\ LogOrder /\ ReaderOrder /\ CutOrder(Taken)
  BY DEF NginxInv, NginxTypes
<1>2. /\ Taken \in Seq(lineRecord) /\ applied \in Seq(lineRecord)
      /\ records \in Seq(lineRecord) /\ cut \in Seq(lineRecord)
  BY <1>1, TakenType DEF NginxTypes, FollowerInv, FollowerTypeOK
<1>3. ASSUME NEW u, u = Taken
      PROVE  \E r \in lineRecord : cut' = Append(cut, r) /\ CutOrder(Append(u, r))'
  <2>1. u \in Seq(lineRecord) /\ CutOrder(u)
    BY <1>1, <1>2, <1>3
  <2> QED BY <1>1, <2>1, ReadLineCut
<1>4. PICK u : u = Taken
  OBVIOUS
<1>5. PICK r \in lineRecord : cut' = Append(cut, r) /\ CutOrder(Append(u, r))'
  BY <1>3, <1>4
<1>6. /\ fpc = "read" /\ fpc' = "send" /\ records' = records
  BY DEF ReadLine
<1>7. cut'[Len(cut')] = r
  BY <1>2, <1>5, AppendProperties, LenProperties
<1>8. Taken' = applied \o Append(records, r)
  BY <1>6, <1>7 DEF Taken, Sent
<1>9. u = applied \o records
  BY <1>4, <1>6 DEF Taken, Sent
<1>10. applied \o Append(records, r) = Append(applied \o records, r)
  <2> DEFINE a == applied \o Append(records, r)
             b == Append(applied \o records, r)
             c == applied \o records
             d == Append(records, r)
  <2>1. Len(applied) \in Nat /\ Len(records) \in Nat
    BY <1>2, LenProperties
  <2>2. /\ c \in Seq(lineRecord) /\ Len(c) = Len(applied) + Len(records)
        /\ \A i \in 1..Len(c) : i <= Len(applied) => c[i] = applied[i]
        /\ \A i \in 1..Len(c) : i > Len(applied) => c[i] = records[i - Len(applied)]
    BY <1>2, Joined
  <2>3. /\ d \in Seq(lineRecord) /\ Len(d) = Len(records) + 1 /\ d[Len(records) + 1] = r
        /\ \A k \in 1..Len(records) : d[k] = records[k]
    BY <1>2, AppendProperties
  <2> HIDE DEF c, d
  <2>4. /\ applied \o d \in Seq(lineRecord) /\ Len(applied \o d) = Len(applied) + Len(d)
        /\ \A i \in 1..Len(applied \o d) : i <= Len(applied) => (applied \o d)[i] = applied[i]
        /\ \A i \in 1..Len(applied \o d) : i > Len(applied) => (applied \o d)[i] = d[i - Len(applied)]
    BY <1>2, <2>3, Joined
  <2>5. /\ Append(c, r) \in Seq(lineRecord) /\ Len(Append(c, r)) = Len(c) + 1
        /\ Append(c, r)[Len(c) + 1] = r /\ \A k \in 1..Len(c) : Append(c, r)[k] = c[k]
    BY <2>2, AppendProperties
  <2>6. a = applied \o d /\ b = Append(c, r)
    BY DEF c, d
  <2> HIDE DEF a, b
  <2>7. /\ a \in Seq(lineRecord) /\ Len(a) = Len(applied) + Len(d)
        /\ \A i \in 1..Len(a) : i <= Len(applied) => a[i] = applied[i]
        /\ \A i \in 1..Len(a) : i > Len(applied) => a[i] = d[i - Len(applied)]
        /\ b \in Seq(lineRecord) /\ Len(b) = Len(c) + 1
        /\ b[Len(c) + 1] = r /\ \A k \in 1..Len(c) : b[k] = c[k]
    BY <2>4, <2>5, <2>6
  <2>8. Len(a) = Len(b)
    BY <2>1, <2>2, <2>3, <2>7
  <2>9. ASSUME NEW i \in 1..Len(a) PROVE a[i] = b[i]
    <3>1. CASE i <= Len(applied)
      <4>1. i \in 1..Len(c)
        BY <2>1, <2>2, <3>1
      <4> QED BY <2>2, <2>7, <3>1, <4>1
    <3>2. CASE i > Len(applied) /\ i <= Len(c)
      <4>1. i \in 1..Len(c) /\ i - Len(applied) \in 1..Len(records)
        BY <2>1, <2>2, <3>2
      <4>2. a[i] = d[i - Len(applied)]
        BY <2>7, <3>2
      <4>3. d[i - Len(applied)] = records[i - Len(applied)]
        BY <2>3, <4>1
      <4> QED BY <2>2, <2>7, <3>2, <4>1, <4>2, <4>3
    <3>3. CASE i > Len(c)
      <4>1. i = Len(c) + 1 /\ i - Len(applied) = Len(records) + 1 /\ i > Len(applied)
        <5>1. Len(a) = Len(applied) + (Len(records) + 1) /\ Len(c) = Len(applied) + Len(records)
          BY <2>2, <2>3, <2>7
        <5> QED BY <2>1, <3>3, <5>1
      <4>2. a[i] = d[i - Len(applied)]
        BY <2>7, <4>1
      <4> QED BY <2>3, <2>7, <4>1, <4>2
    <3> QED BY <2>1, <2>2, <3>1, <3>2, <3>3
  <2>10. a = b
    BY <2>7, <2>8, <2>9, SeqEqual
  <2> QED BY <2>10 DEF a, b
<1>11. Taken' = Append(u, r)
  BY <1>8, <1>9, <1>10
<1>12. ASSUME NEW v, v = Append(u, r) PROVE CutOrder(v)'
  BY <1>5, <1>12
<1>13. CutOrder(Taken)'
  BY <1>11, <1>12, CutOrderNow
<1>14. cut' = Append(cut, r) /\ Taken' = Append(Taken, r)
  BY <1>4, <1>5, <1>11
<1> QED BY <1>13, <1>14

(* The follower starts where the last record applied ends.                    *)
LEMMA OpenTaken ==
    ASSUME NginxInv, FollowerInv', FollowOpen(nginxCheckpoint), path # NoFile, UNCHANGED applied
    PROVE  ReaderOrder' /\ CutOrder(Taken)'
<1>1. /\ NginxTypes /\ FollowerInv /\ LogOrder /\ CutOrder(Taken)
      /\ nginxCheckpoint \in Checkpoint /\ applied \in Seq(lineRecord) /\ records = <<>>
  BY DEF NginxInv, NginxTypes, FollowOpen
<1>2. /\ openMailLog(nginxCheckpoint) /\ UNCHANGED logVars /\ fpc = "off" /\ fpc' = "read"
      /\ UNCHANGED <<records, cut>>
  BY DEF FollowOpen, OpenFails, openMailLog
<1>3. Sent = <<>> /\ Len(Sent) = 0 /\ Taken' = Taken
  BY <1>1, <1>2, EmptySeq DEF Sent, Taken
<1>4. /\ Taken \in Seq(lineRecord) /\ Len(Taken) = Len(applied) /\ Len(applied) \in Nat
      /\ \A k \in 1..Len(applied) : Taken[k] = applied[k]
  BY <1>1, <1>3, TakenType
<1>5. Taken = applied
  BY <1>1, <1>4, SeqEqual
<1>6. /\ applied # <<>> => /\ nginxCheckpoint.inode = applied[Len(applied)].Inode
                           /\ nginxCheckpoint.offset = applied[Len(applied)].Offset
  BY DEF NginxInv, CheckpointIsLast, CheckpointOf
<1>7. ASSUME NEW u, u = Taken PROVE CutOrder(u)'
  <2>1. /\ u \in Seq(lineRecord) /\ CutOrder(u)
        /\ u # <<>> => /\ nginxCheckpoint.inode = u[Len(u)].Inode
                       /\ nginxCheckpoint.offset = u[Len(u)].Offset
    BY <1>1, <1>5, <1>6, <1>7
  <2>2. ASSUME NEW ck, ck = nginxCheckpoint PROVE CutOrder(u)'
    <3>1. ck \in Checkpoint /\ openMailLog(ck)
      BY <1>1, <1>2, <2>2
    <3>2. u # <<>> => ck.inode = u[Len(u)].Inode /\ ck.offset = u[Len(u)].Offset
      BY <2>1, <2>2
    <3> QED BY <1>1, <1>2, <2>1, <3>1, <3>2, OpenedCut
  <2> QED BY <2>2
<1>8. ReaderOrder'
  BY <1>1, <1>2, OpenedOrder
<1> QED BY <1>3, <1>7, <1>8, CutOrderNow

LEMMA FollowKeepsOrder ==
    ASSUME NginxInv, Follow \/ FollowFails
    PROVE  NginxInv'
<1>1. /\ NginxTypes /\ FollowerInv /\ LogOrder /\ ReaderOrder /\ CutOrder(Taken)
      /\ CheckpointIsLast /\ nginxCheckpoint \in Checkpoint
  BY DEF NginxInv, NginxTypes
<1>2. UNCHANGED <<applied, nginxCheckpoint>>
  BY DEF Follow, FollowFails, durableVars
<1>3. ASSUME FollowerInv', UNCHANGED logVars, ReaderOrder', CutOrder(Taken)', fpc' # "off"
      PROVE  NginxInv'
  <2>1. LogOrder'
    BY <1>1, <1>3 DEF LogOrder, TodoShape, Completed, logVars
  <2> QED BY <1>1, <1>2, <1>3, <2>1 DEF NginxInv, NginxTypes, CheckpointIsLast
<1>4. CASE FollowOpen(nginxCheckpoint)
  <2>1. FollowerInv'
    BY <1>1, <1>4, MovesOnlyInv DEF MovesOnly
  <2>2. UNCHANGED logVars /\ fpc' # "off"
    BY <1>4 DEF FollowOpen, Fail, openMailLog
  <2>3. CASE path # NoFile
    BY <1>2, <1>3, <1>4, <2>1, <2>2, <2>3, OpenTaken
  <2>4. CASE path = NoFile
    <3>1. /\ UNCHANGED <<inode, offset, buffered, pendingText, cut, records>>
          /\ fpc = "off" /\ fpc' = "failed"
      BY <1>4, <2>4 DEF FollowOpen, OpenFails, Fail
    <3>2. Taken' = Taken
      BY <1>2, <3>1 DEF Taken, Sent
    <3>3. ReaderOrder' /\ \A t : BeforeReader(t) => BeforeReader(t)'
      BY <1>1, <2>2, <3>1, SameReader
    <3> QED BY <1>3, <2>1, <2>2, <3>2, <3>3, SameTaken
  <2> QED BY <2>3, <2>4
<1>5. CASE ReadLine
  <2>1. FollowerInv'
    BY <1>1, <1>5, ReadLineCuts
  <2>2. UNCHANGED logVars /\ fpc' # "off"
    BY <1>5 DEF ReadLine
  <2>3. ReaderOrder'
    BY <1>1, <1>5, <2>1, ReadLineOrder
  <2> QED BY <1>2, <1>3, <1>5, <2>1, <2>2, <2>3, ReadLineTaken
<1>6. CASE ReadEOF
  <2>1. FollowerInv'
    BY <1>1, <1>6, ReadEOFInv
  <2>2. UNCHANGED logVars /\ fpc = "read" /\ fpc' = "check" /\ UNCHANGED <<records, cut>>
    BY <1>6 DEF ReadEOF
  <2>3. ReaderOrder' /\ \A t : BeforeReader(t) => BeforeReader(t)'
    BY <1>1, <1>6, <2>1, ReadEOFOrder
  <2>4. Taken' = Taken
    BY <1>2, <2>2 DEF Taken, Sent
  <2> QED BY <1>3, <2>1, <2>2, <2>3, <2>4, SameTaken
<1>7. CASE SendRecord
  <2>1. FollowerInv'
    BY <1>1, <1>7, SendRecordInv
  <2>2. /\ fpc = "send" /\ fpc' = "read" /\ records' = Append(records, cut[Len(cut)])
    BY <1>7 DEF SendRecord, sequence
  <2>3. UNCHANGED logVars /\ ReaderOrder' /\ \A t : BeforeReader(t) => BeforeReader(t)'
    BY <1>1, <1>7, <2>1, FollowOrder
  <2>4. Taken' = Taken
    BY <1>2, <2>2 DEF Taken, Sent
  <2> QED BY <1>3, <2>1, <2>2, <2>3, <2>4, SameTaken
<1>8. CASE CheckRotation \/ Reopen \/ Poll \/ FollowError
  <2>1. FollowerInv' /\ cut' = cut /\ records' = records /\ fpc # "send" /\ fpc' # "send"
    BY <1>1, <1>8, MovesOnlyInv DEF MovesOnly
  <2>2. fpc' # "off"
    BY <1>8 DEF CheckRotation, Reopen, Poll, FollowError, Fail, openMailLog
  <2>3. UNCHANGED logVars /\ ReaderOrder' /\ \A t : BeforeReader(t) => BeforeReader(t)'
    BY <1>1, <1>8, <2>1, FollowOrder
  <2>4. Taken' = Taken
    BY <1>2, <2>1 DEF Taken, Sent
  <2> QED BY <1>3, <2>1, <2>2, <2>3, <2>4, SameTaken
<1> QED BY <1>4, <1>5, <1>6, <1>7, <1>8 DEF Follow, FollowFails, FollowStep

(* What the transaction does besides detection.                               *)
LEMMA ApplyMoves ==
    ASSUME NginxInv, records # <<>>, Apply(Head(records))
    PROVE  /\ Head(records) \in lineRecord /\ Head(records) = records[1]
           /\ Tail(records) \in Seq(lineRecord) /\ Len(records) \in Nat \ {0}
           /\ Len(Tail(records)) = Len(records) - 1
           /\ \A i \in 1..Len(Tail(records)) : Tail(records)[i] = records[i + 1]
           /\ applied' = Append(applied, Head(records))
           /\ applied' \in Seq(lineRecord) /\ Len(applied') = Len(applied) + 1
           /\ \A k \in 1..Len(applied) : applied'[k] = applied[k]
           /\ applied'[Len(applied) + 1] = Head(records)
           /\ nginxCheckpoint' \in Checkpoint /\ CheckpointIsLast'
<1> DEFINE r == Head(records)
<1>1. applied \in Seq(lineRecord) /\ records \in Seq(lineRecord) /\ Len(applied) \in Nat
  BY LenProperties DEF NginxInv, NginxTypes, FollowerInv, FollowerTypeOK
<1>2. /\ r \in lineRecord /\ Tail(records) \in Seq(lineRecord)
      /\ Len(Tail(records)) = Len(records) - 1 /\ Len(records) \in Nat \ {0}
      /\ \A i \in 1..Len(Tail(records)) : Tail(records)[i] = records[i + 1]
  BY <1>1, HeadTailProperties, EmptySeq
<1>3. r = records[1]
  OBVIOUS
<1>4. applied' = Append(applied, r) /\ nginxCheckpoint' = CheckpointOf(r)
  BY DEF Apply
<1> HIDE DEF r
<1>5. /\ applied' \in Seq(lineRecord) /\ Len(applied') = Len(applied) + 1 /\ applied' # <<>>
      /\ \A k \in 1..Len(applied) : applied'[k] = applied[k]
      /\ applied'[Len(applied) + 1] = r
  BY <1>1, <1>2, <1>4, AppendProperties
<1>6. nginxCheckpoint' \in Checkpoint
  <2>1. r.Inode \in Inodes /\ r.Offset \in Nat
    BY <1>2 DEF lineRecord
  <2>2. Inodes \subseteq 0..MaxInode
    BY FollowerAssumption DEF Inodes
  <2> QED BY <1>4, <2>1, <2>2 DEF CheckpointOf, Checkpoint
<1>7. CheckpointIsLast'
  BY <1>4, <1>5 DEF CheckpointIsLast
<1> QED BY <1>2, <1>3, <1>4, <1>5, <1>6, <1>7 DEF r

LEMMA PersistOrder == ASSUME NginxInv, Persist PROVE NginxInv' /\ Taken' = Taken
<1> DEFINE r == Head(records)
           rest == Tail(records)
           x == cut[Len(cut)]
<1>1. NginxTypes /\ FollowerInv /\ ReaderOrder /\ LogOrder
  BY DEF NginxInv, NginxTypes
<1>2. /\ records # <<>> /\ Apply(r) /\ records' = rest
      /\ UNCHANGED <<logVars, faults, followVars>>
  BY DEF Persist
<1>3. /\ UNCHANGED <<fpc, inode, offset, buffered, pendingText, rotatedAt, cut, interrupted>>
  BY <1>2 DEF followVars
<1>4. /\ r \in lineRecord /\ r = records[1] /\ rest \in Seq(lineRecord)
      /\ Len(rest) = Len(records) - 1 /\ Len(records) \in Nat \ {0}
      /\ \A i \in 1..Len(rest) : rest[i] = records[i + 1]
      /\ applied' = Append(applied, r) /\ applied' \in Seq(lineRecord)
      /\ nginxCheckpoint' \in Checkpoint /\ CheckpointIsLast'
  BY <1>2, ApplyMoves
<1>5. FollowerInv'
  BY <1>1, <1>2, <1>3, <1>4 DEF FollowerInv, FollowerTypeOK, logVars
<1>6. Taken' = Taken
  <2> DEFINE b == Sent
             d == IF fpc = "send" THEN Append(rest, x) ELSE rest
  <2>1. Sent' = d
    BY <1>2, <1>3 DEF Sent
  <2>2. /\ b \in Seq(lineRecord) /\ Len(b) \in Nat /\ Len(records) <= Len(b)
        /\ \A k \in 1..Len(records) : b[k] = records[k]
        /\ applied \in Seq(lineRecord)
    BY <1>1, SentType DEF NginxTypes
  <2>3. /\ d \in Seq(lineRecord) /\ Len(b) = Len(d) + 1 /\ \A k \in 1..Len(d) : d[k] = b[k + 1]
    <3>1. CASE fpc = "send"
      <4>1. x \in lineRecord /\ records \in Seq(lineRecord)
        BY <1>1, <3>1, EmptySeq, ElementOfSeq DEF FollowerInv, FollowerTypeOK
      <4>2. b = Append(records, x) /\ d = Append(rest, x)
        BY <3>1 DEF Sent
      <4> HIDE DEF x, rest, b, d
      <4>3. /\ Len(b) = Len(records) + 1 /\ b[Len(records) + 1] = x
        BY <4>1, <4>2, AppendProperties
      <4>4. /\ d \in Seq(lineRecord) /\ Len(d) = Len(rest) + 1 /\ d[Len(rest) + 1] = x
            /\ \A k \in 1..Len(rest) : d[k] = rest[k]
        BY <1>4, <4>1, <4>2, AppendProperties
      <4>5. Len(d) = Len(records) /\ Len(b) = Len(d) + 1 /\ Len(rest) \in Nat
        BY <1>4, <4>3, <4>4
      <4>6. ASSUME NEW k \in 1..Len(d) PROVE d[k] = b[k + 1]
        <5>1. CASE k \in 1..Len(rest)
          <6>1. d[k] = records[k + 1] /\ k + 1 \in 1..Len(records)
            BY <1>4, <4>4, <5>1
          <6> QED BY <2>2, <6>1
        <5>2. CASE k = Len(rest) + 1
          <6>1. k + 1 = Len(records) + 1
            BY <1>4, <5>2
          <6> QED BY <4>3, <4>4, <5>2, <6>1
        <5> QED BY <1>4, <4>4, <4>5, <5>1, <5>2
      <4> QED BY <4>4, <4>5, <4>6
    <3>2. CASE fpc # "send"
      <4>1. b = records /\ d = rest
        BY <3>2 DEF Sent
      <4> HIDE DEF b, d, rest
      <4> QED BY <1>4, <4>1
    <3> QED BY <3>1, <3>2
  <2>4. b[1] = r
    BY <1>4, <2>2
  <2> HIDE DEF b, d, r
  <2>5. Append(applied, r) \o d = applied \o b
    <3>1. /\ applied \in Seq(lineRecord) /\ b \in Seq(lineRecord) /\ d \in Seq(lineRecord)
          /\ r \in lineRecord /\ Len(b) = Len(d) + 1 /\ b[1] = r
          /\ \A k \in 1..Len(d) : d[k] = b[k + 1]
      BY <1>4, <2>2, <2>3, <2>4
    <3> QED BY <3>1, ShiftJoin, Zenon
  <2> QED BY <1>4, <2>1, <2>5 DEF Taken, b, r
<1>7. LogOrder' /\ ReaderOrder' /\ \A t : BeforeReader(t) => BeforeReader(t)'
  <2>1. UNCHANGED <<logVars, inode, offset, buffered, pendingText>>
    BY <1>2, <1>3
  <2>2. LogOrder' /\ ReaderOrder'
    BY <1>1, <2>1, SameReader
  <2>3. ASSUME NEW t, BeforeReader(t) PROVE BeforeReader(t)'
    <3>1. fpc = "reopen" => inode # NoFile
      BY <1>1, FollowerAssumption DEF FollowerInv, FollowerTypeOK, NoFile, Inodes
    <3>2. fpc' = "reopen" /\ path = inode => BeforeFile(t, inode)
      BY <1>3, <2>3, <3>1 DEF BeforeReader
    <3> QED BY <2>1, <2>3, <3>2, SameReader
  <2> QED BY <2>2, <2>3
<1>8. CutOrder(Taken)'
  BY <1>2, <1>6, <1>7, SameTaken
<1>9. fpc' = "off" => records' = <<>> /\ inode' = NoFile
  BY <1>2, <1>3 DEF NginxInv
<1> QED BY <1>4, <1>5, <1>6, <1>7, <1>8, <1>9 DEF NginxInv, NginxTypes

(* The run ends.                                                              *)
LEMMA StopOrder ==
    ASSUME NginxInv, UNCHANGED logVars, faults' \in 0..MaxFaults, Stop,
           \/ UNCHANGED <<applied, nginxCheckpoint>>
           \/ records # <<>> /\ Apply(Head(records))
    PROVE  /\ NginxInv' /\ Taken' = applied'
           /\ Len(applied') <= Len(Taken) /\ \A k \in 1..Len(applied') : applied'[k] = Taken[k]
<1>1. NginxTypes /\ FollowerInv /\ LogOrder /\ CutOrder(Taken) /\ CheckpointIsLast
  BY DEF NginxInv, NginxTypes
<1>2. /\ fpc' = "off" /\ inode' = NoFile /\ offset' = 0 /\ rotatedAt' = 0
      /\ buffered' = <<>> /\ pendingText' = <<>> /\ cut' = <<>> /\ records' = <<>>
  BY DEF Stop, StopFollower
<1>3. FollowerInv'
  <2>1. \A S : <<>> \in Seq(S)
    BY EmptySeq
  <2>2. interrupted' \in BOOLEAN
    BY Zenon DEF Stop, StopFollower
  <2> QED BY <1>1, <1>2, <2>1, <2>2, FollowerAssumption DEF FollowerInv, FollowerTypeOK, logVars, NoFile
<1>4. /\ nginxCheckpoint' \in Checkpoint /\ CheckpointIsLast' /\ applied' \in Seq(lineRecord)
      /\ Len(applied') <= Len(Taken) /\ \A k \in 1..Len(applied') : applied'[k] = Taken[k]
  <2>1. /\ Taken \in Seq(lineRecord) /\ Len(Taken) \in Nat /\ Len(applied) \in Nat
        /\ Len(Taken) = Len(applied) + Len(Sent)
        /\ \A k \in 1..Len(applied) : Taken[k] = applied[k]
        /\ \A k \in 1..Len(Sent) : Taken[Len(applied) + k] = Sent[k]
        /\ Len(Sent) \in Nat /\ Len(records) \in Nat /\ Len(records) <= Len(Sent)
        /\ \A k \in 1..Len(records) : Sent[k] = records[k]
    BY <1>1, TakenType, SentType
  <2>2. CASE UNCHANGED <<applied, nginxCheckpoint>>
    BY <1>1, <2>1, <2>2 DEF NginxTypes, CheckpointIsLast
  <2>3. CASE records # <<>> /\ Apply(Head(records))
    <3>1. /\ Head(records) = records[1] /\ Len(records) \in Nat \ {0}
          /\ applied' \in Seq(lineRecord) /\ Len(applied') = Len(applied) + 1
          /\ \A k \in 1..Len(applied) : applied'[k] = applied[k]
          /\ applied'[Len(applied) + 1] = Head(records)
          /\ nginxCheckpoint' \in Checkpoint /\ CheckpointIsLast'
      BY <2>3, ApplyMoves
    <3>2. 1 \in 1..Len(records) /\ 1 \in 1..Len(Sent) /\ Len(applied') <= Len(Taken)
      BY <2>1, <3>1
    <3>3. Taken[Len(applied) + 1] = records[1]
      BY <2>1, <3>2
    <3>4. ASSUME NEW k \in 1..Len(applied') PROVE applied'[k] = Taken[k]
      <4>1. k \in 1..Len(applied) \/ k = Len(applied) + 1
        BY <2>1, <3>1
      <4> QED BY <2>1, <3>1, <3>3, <4>1
    <3> QED BY <3>1, <3>2, <3>4
  <2> QED BY <2>2, <2>3
<1>5. LogOrder' /\ ReaderOrder'
  BY <1>1, <1>2 DEF LogOrder, TodoShape, Completed, logVars, ReaderOrder
<1>6. Taken' = applied'
  <2>1. Sent' = <<>> /\ Len(Sent') = 0
    BY <1>2, EmptySeq DEF Sent
  <2>2. applied' \o <<>> = applied'
    BY <1>4, ConcatEmptySeq
  <2> QED BY <2>1, <2>2 DEF Taken
<1>7. ASSUME NEW u, u = applied' PROVE CutOrder(u)'
  <2>1. PICK s : s = Taken
    OBVIOUS
  <2>2. s \in Seq(lineRecord) /\ CutOrder(s)
    BY <1>1, <2>1, TakenType
  <2>3. u \in Seq(lineRecord) /\ Len(u) <= Len(s) /\ \A k \in 1..Len(u) : u[k] = s[k]
    BY <1>4, <1>7, <2>1
  <2> QED BY <1>2, <2>2, <2>3, StoppedCut
<1>8. CutOrder(Taken)'
  BY <1>6, <1>7, CutOrderNow
<1>9. NginxInv'
  BY <1>2, <1>3, <1>4, <1>5, <1>8 DEF NginxInv, NginxTypes
<1> QED BY <1>4, <1>6, <1>9

LEMMA NginxInductive == NginxInv /\ [NginxNext]_nginxVars => NginxInv'
<1> SUFFICES ASSUME NginxInv, [NginxNext]_nginxVars PROVE NginxInv'
  OBVIOUS
<1>1. CASE Start \/ UNCHANGED nginxVars
  <2>1. UNCHANGED <<followerVars, durableVars>>
    BY <1>1 DEF Start, nginxVars
  <2>2. UNCHANGED <<logVars, faults, followVars, records, applied, nginxCheckpoint>>
    BY <2>1 DEF followerVars, durableVars
  <2>3. UNCHANGED <<fpc, inode, offset, buffered, pendingText, rotatedAt, cut, interrupted>>
    BY <2>2 DEF followVars
  <2>4. FollowerInv'
    BY <2>2, <2>3 DEF NginxInv, NginxTypes, FollowerInv, FollowerTypeOK, logVars
  <2>5. Taken' = Taken
    BY <2>2, <2>3 DEF Taken, Sent
  <2>6. LogOrder' /\ ReaderOrder'
    BY <2>2, <2>3, SameReader DEF NginxInv
  <2>7. ASSUME NEW t, BeforeReader(t) PROVE BeforeReader(t)'
    <3>1. fpc = "reopen" => inode # NoFile
      BY FollowerAssumption DEF NginxInv, NginxTypes, FollowerInv, FollowerTypeOK, NoFile, Inodes
    <3>2. fpc' = "reopen" /\ path = inode => BeforeFile(t, inode)
      BY <2>3, <2>7, <3>1 DEF BeforeReader
    <3> QED BY <2>2, <2>3, <2>7, <3>2, SameReader
  <2>8. CutOrder(Taken)'
    BY <2>2, <2>5, <2>7, SameTaken
  <2> QED BY <2>2, <2>3, <2>4, <2>6, <2>8 DEF NginxInv, NginxTypes, CheckpointIsLast
<1>2. CASE PersistRefused \/ PersistThenFail \/ Fails \/ FollowErrorSeen
  <2>1. faults \in 0..MaxFaults
    BY DEF NginxInv, NginxTypes, FollowerInv, FollowerTypeOK
  <2>2. UNCHANGED logVars /\ Stop /\ faults' \in 0..MaxFaults
    BY <1>2, <2>1, FollowerAssumption DEF PersistRefused, PersistThenFail, Fails, FollowErrorSeen
  <2>3. \/ UNCHANGED <<applied, nginxCheckpoint>>
        \/ records # <<>> /\ Apply(Head(records))
    BY <1>2 DEF PersistRefused, PersistThenFail, Fails, FollowErrorSeen, durableVars
  <2> QED BY <2>2, <2>3, StopOrder
<1> QED BY <1>1, <1>2, LogMovesOrder, FollowKeepsOrder, PersistOrder DEF NginxNext

(* Every record that is cut holds later lines of the access log than those    *)
(* cut before it, whatever is truncated, rotated, retried or run again, and   *)
(* the checkpoint is where the last one applied ends.                         *)
THEOREM NginxOrdered == NginxSpec => []NginxInv
<1>1. NginxInit => NginxInv
  BY NginxInitially
<1>2. NginxInv /\ [NginxNext]_nginxVars => NginxInv'
  BY NginxInductive
<1> QED BY <1>1, <1>2, PTL DEF NginxSpec

----------------------------------------------------------------------------
(* Each line is applied at most once, and in order.                           *)

(* The next record to be applied holds a later line than those applied, and a *)
(* finished one.                                                              *)
LEMMA NextIsLater ==
    ASSUME NginxInv, records # <<>>
    PROVE  /\ LineOf(Head(records)) \in 0..Completed /\ Completed \in Nat
           /\ \A k \in 1..Len(applied) :
                /\ LineOf(applied[k]) \in 0..Completed
                /\ LineOf(Head(records)) # 0 => LineOf(applied[k]) < LineOf(Head(records))
<1> DEFINE r == Head(records)
           n == Len(applied) + 1
<1>1. NginxTypes /\ FollowerInv /\ LogOrder /\ CutOrder(Taken)
  BY DEF NginxInv, NginxTypes
<1>2. /\ Taken \in Seq(lineRecord) /\ Len(Taken) \in Nat /\ Len(applied) \in Nat
      /\ Len(Taken) = Len(applied) + Len(Sent)
      /\ \A k \in 1..Len(applied) : k \in 1..Len(Taken) /\ Taken[k] = applied[k]
      /\ \A k \in 1..Len(Sent) : /\ Len(applied) + k \in 1..Len(Taken)
                                 /\ Taken[Len(applied) + k] = Sent[k]
      /\ Len(Sent) \in Nat /\ Len(records) \in Nat /\ Len(records) <= Len(Sent)
      /\ \A k \in 1..Len(records) : Sent[k] = records[k]
  BY <1>1, TakenType, SentType
<1>3. records \in Seq(lineRecord) /\ Len(records) \in Nat \ {0} /\ r = records[1]
  BY <1>1, EmptySeq DEF FollowerInv, FollowerTypeOK
<1>4. n \in 1..Len(Taken) /\ Taken[n] = r
  <2>1. 1 \in 1..Len(records) /\ 1 \in 1..Len(Sent)
    BY <1>2, <1>3
  <2> QED BY <1>2, <1>3, <2>1
<1>5. Completed \in Nat
  BY <1>1, CompletedType DEF LogOrder
<1>6. ASSUME NEW k \in 1..Len(Taken) PROVE LineOf(Taken[k]) \in 0..Completed
  <2>1. Settled(Taken[k].Text)
    BY <1>1 DEF CutOrder
  <2>2. CASE LineOf(Taken[k]) # 0
    <3>1. 1 \in 1..Len(Taken[k].Text) /\ Taken[k].Text[1] = LineOf(Taken[k])
      BY <2>2, LineOfText
    <3>2. LineOf(Taken[k]) \in 1..Completed
      BY <2>1, <3>1 DEF Settled
    <3> QED BY <1>5, <3>2
  <2> QED BY <1>5, <2>2
<1>7. ASSUME NEW k \in 1..Len(applied), LineOf(r) # 0 PROVE LineOf(applied[k]) < LineOf(r)
  <2>1. LineOf(r) \in 1..MaxLines /\ 1 \in 1..Len(r.Text) /\ r.Text[1] = LineOf(r)
    BY <1>7, LineOfText
  <2>2. CASE LineOf(applied[k]) = 0
    BY <2>1, <2>2, FollowerAssumption
  <2>3. CASE LineOf(applied[k]) # 0
    <3>1. 1 \in 1..Len(applied[k].Text) /\ applied[k].Text[1] = LineOf(applied[k])
      BY <2>3, LineOfText
    <3>2. k \in 1..(n - 1) /\ Taken[k] = applied[k]
      BY <1>2
    <3>3. Under(applied[k].Text, 1, Len(applied[k].Text), r.Text, 1, Len(r.Text))
      BY <1>1, <1>4, <3>2 DEF CutOrder
    <3>4. r.Text[1] # NL
      BY <1>7, <2>1 DEF NL
    <3> QED BY <2>1, <3>1, <3>3, <3>4 DEF Under
  <2> QED BY <2>2, <2>3
<1>8. ASSUME NEW k \in 1..Len(applied) PROVE LineOf(applied[k]) \in 0..Completed
  BY <1>2, <1>6
<1> QED BY <1>4, <1>5, <1>6, <1>7, <1>8

LEMMA EventOfType == \A l : EventOf(l) \in Event
<1>1. Client \in IPs
  BY NginxAssumption DEF Client
<1> QED BY <1>1, DetectionAssumption DEF EventOf, Event, NotFound

(* A step of the pipeline is a step of detection, or none.                    *)
LEMMA NginxStepDetects ==
    ASSUME [NginxNext]_nginxVars PROVE [DetectNext]_detectVars
<1>1. ASSUME NEW r, Apply(r) PROVE [DetectNext]_detectVars
  <2>1. CASE persistNginxEvent(EventOf(LineOf(r)))
    BY <2>1, EventOfType DEF DetectNext
  <2>2. CASE UNCHANGED detectVars
    BY <2>2
  <2> QED BY <1>1, <2>1, <2>2 DEF Apply
<1>2. CASE Persist \/ PersistThenFail
  BY <1>1, <1>2 DEF Persist, PersistThenFail
<1>3. CASE LogMoves \/ Start \/ Follow \/ FollowFails \/ PersistRefused \/ Fails
           \/ FollowErrorSeen \/ UNCHANGED nginxVars
  <2>1. UNCHANGED durableVars
    BY <1>3 DEF LogMoves, Start, Follow, FollowFails, PersistRefused, Fails, FollowErrorSeen,
                nginxVars
  <2> QED BY <2>1 DEF durableVars
<1> QED BY <1>2, <1>3 DEF NginxNext

(* Detection as it runs behind the follower is detection as NginxDetection    *)
(* specifies it: retries, restarts and lost answers show in no table.         *)
THEOREM NginxImplementsDetection == NginxSpec => DetectSpec
<1>1. NginxInit => DetectInit
  BY DEF NginxInit
<1>2. [NginxNext]_nginxVars => [DetectNext]_detectVars
  BY NginxStepDetects
<1> QED BY <1>1, <1>2, PTL DEF NginxSpec, DetectSpec

(* Where each event came from: lines of the log that were applied, each later *)
(* than the last.                                                             *)
FromLines(f) ==
    /\ f \in [1..Len(history) -> 1..MaxLines]
    /\ \A i \in 1..Len(history) :
         /\ history[i] = EventOf(f[i]) /\ f[i] \notin Unparsed
         /\ \E k \in 1..Len(applied) : f[i] = LineOf(applied[k])
    /\ \A i, j \in 1..Len(history) : i < j => f[i] < f[j]
EventsFromLines == history \in Seq(Event) /\ \E f : FromLines(f)

LEMMA ApplyFromLines ==
    ASSUME NginxInv, EventsFromLines, records # <<>>, Apply(Head(records))
    PROVE  EventsFromLines'
<1> DEFINE r == Head(records)
           l == LineOf(r)
           n == Len(history) + 1
<1>1. PICK f : FromLines(f)
  BY DEF EventsFromLines
<1>2. /\ history \in Seq(Event) /\ Len(history) \in Nat
      /\ f \in [1..Len(history) -> 1..MaxLines]
      /\ \A i \in 1..Len(history) :
           /\ history[i] = EventOf(f[i]) /\ f[i] \notin Unparsed
           /\ \E k \in 1..Len(applied) : f[i] = LineOf(applied[k])
      /\ \A i, j \in 1..Len(history) : i < j => f[i] < f[j]
  BY <1>1, LenProperties DEF EventsFromLines, FromLines
<1>3. /\ Len(applied') = Len(applied) + 1 /\ Len(applied) \in Nat
      /\ \A k \in 1..Len(applied) : k \in 1..Len(applied') /\ applied'[k] = applied[k]
      /\ applied'[Len(applied) + 1] = r /\ Len(applied) + 1 \in 1..Len(applied')
  <2>1. Len(applied) \in Nat
    BY LenProperties DEF NginxInv, NginxTypes
  <2>2. /\ Len(applied') = Len(applied) + 1
        /\ \A k \in 1..Len(applied) : applied'[k] = applied[k]
        /\ applied'[Len(applied) + 1] = r
    BY ApplyMoves
  <2> HIDE DEF r
  <2> QED BY <2>1, <2>2
<1> HIDE DEF r
<1>4. CASE ~Parsed(r)
  <2>1. history' = history
    BY <1>4 DEF Apply, r, detectVars, persistNginxEvent
  <2>2. FromLines(f)'
    BY <1>2, <1>3, <2>1 DEF FromLines
  <2> QED BY <1>2, <2>1, <2>2 DEF EventsFromLines
<1>5. CASE Parsed(r)
  <2> DEFINE g == [i \in 1..n |-> IF i = n THEN l ELSE f[i]]
  <2>1. l # 0 /\ l \notin Unparsed /\ history' = Append(history, EventOf(l))
    BY <1>5 DEF Parsed, Apply, r, persistNginxEvent
  <2>2. l \in 1..MaxLines /\ \A k \in 1..Len(applied) : LineOf(applied[k]) < l
    BY <2>1, LineOfText, NextIsLater DEF r
  <2>3. EventOf(l) \in Event
    BY EventOfType
  <2> HIDE DEF l
  <2>4. /\ history' \in Seq(Event) /\ Len(history') = n /\ history'[n] = EventOf(l)
        /\ \A i \in 1..Len(history) : history'[i] = history[i]
    BY <1>2, <2>1, <2>3, AppendProperties
  <2>5. ASSUME NEW i \in 1..n, i # n PROVE i \in 1..Len(history) /\ g[i] = f[i]
    BY <1>2, <2>5
  <2>6. n \in 1..n /\ g[n] = l
    BY <1>2
  <2>7. g \in [1..n -> 1..MaxLines]
    BY <1>2, <2>2, <2>5
  <2> HIDE DEF g
  <2>8. ASSUME NEW i \in 1..n
        PROVE  /\ history'[i] = EventOf(g[i]) /\ g[i] \notin Unparsed
               /\ \E k \in 1..Len(applied') : g[i] = LineOf(applied'[k])
    <3>1. CASE i = n
      BY <1>3, <2>1, <2>4, <2>6, <3>1 DEF l
    <3>2. CASE i # n
      <4>1. i \in 1..Len(history) /\ g[i] = f[i] /\ history'[i] = history[i]
        BY <2>4, <2>5, <3>2
      <4>2. PICK k \in 1..Len(applied) : f[i] = LineOf(applied[k])
        BY <1>2, <4>1
      <4>3. k \in 1..Len(applied') /\ g[i] = LineOf(applied'[k])
        BY <1>3, <4>1, <4>2
      <4> QED BY <1>2, <4>1, <4>3
    <3> QED BY <3>1, <3>2
  <2>9. ASSUME NEW i \in 1..n, NEW j \in 1..n, i < j PROVE g[i] < g[j]
    <3>1. i # n /\ i \in 1..Len(history) /\ g[i] = f[i]
      BY <1>2, <2>5, <2>9
    <3>2. CASE j = n
      <4>1. PICK k \in 1..Len(applied) : f[i] = LineOf(applied[k])
        BY <1>2, <3>1
      <4> QED BY <2>2, <2>6, <3>1, <3>2, <4>1
    <3>3. CASE j # n
      BY <1>2, <2>5, <2>9, <3>1, <3>3
    <3> QED BY <3>2, <3>3
  <2>10. ASSUME NEW h, h = g PROVE FromLines(h)'
    BY <2>4, <2>7, <2>8, <2>9, <2>10 DEF FromLines
  <2> QED BY <2>4, <2>10 DEF EventsFromLines
<1> QED BY <1>4, <1>5

LEMMA EventsStep ==
    NginxInv /\ EventsFromLines /\ [NginxNext]_nginxVars => EventsFromLines'
<1> SUFFICES ASSUME NginxInv, EventsFromLines, [NginxNext]_nginxVars PROVE EventsFromLines'
  OBVIOUS
<1>1. CASE Persist \/ PersistThenFail
  BY <1>1, ApplyFromLines DEF Persist, PersistThenFail
<1>2. CASE LogMoves \/ Start \/ Follow \/ FollowFails \/ PersistRefused \/ Fails
           \/ FollowErrorSeen \/ UNCHANGED nginxVars
  <2>1. UNCHANGED durableVars
    BY <1>2 DEF LogMoves, Start, Follow, FollowFails, PersistRefused, Fails, FollowErrorSeen,
                nginxVars
  <2>2. UNCHANGED <<history, applied>>
    BY <2>1 DEF durableVars, detectVars
  <2> QED BY <2>2 DEF EventsFromLines, FromLines
<1> QED BY <1>1, <1>2 DEF NginxNext

LEMMA EventsInitially == NginxInit => EventsFromLines
<1> SUFFICES ASSUME NginxInit PROVE EventsFromLines
  OBVIOUS
<1>1. history = <<>> /\ history \in Seq(Event) /\ Len(history) = 0
  BY EmptySeq DEF NginxInit, DetectInit
<1> DEFINE f == [i \in 1..0 |-> 1]
<1>2. FromLines(f)
  BY <1>1 DEF FromLines
<1> QED BY <1>1, <1>2 DEF EventsFromLines

(* The events of the tables are lines of the log that nginx finished, each    *)
(* once and in order.                                                         *)
THEOREM EventsAreLines == NginxSpec => []EventsFromLines
<1>1. NginxInit => EventsFromLines
  BY EventsInitially
<1>2. NginxInv /\ EventsFromLines /\ [NginxNext]_nginxVars => EventsFromLines'
  BY EventsStep
<1> QED BY <1>1, <1>2, NginxOrdered, PTL DEF NginxSpec

(* As many lines report a status as there are events that do.                 *)
LEMMA EventsReported ==
    ASSUME NginxInv, EventsFromLines, NEW status, NEW S \in SUBSET (1..Len(history)),
           \A i \in S : history[i].status = status
    PROVE  Cardinality(S) <= Cardinality(Reported(status)) /\ Cardinality(S) \in Nat
           /\ Cardinality(Reported(status)) \in Nat
<1>1. PICK f : FromLines(f)
  BY DEF EventsFromLines
<1>2. /\ f \in [1..Len(history) -> 1..MaxLines] /\ Len(history) \in Nat
      /\ \A i \in 1..Len(history) :
           /\ history[i] = EventOf(f[i]) /\ f[i] \notin Unparsed
           /\ \E k \in 1..Len(applied) : f[i] = LineOf(applied[k])
      /\ \A i, j \in 1..Len(history) : i < j => f[i] < f[j]
  BY <1>1, LenProperties DEF EventsFromLines, FromLines
<1> DEFINE g == [i \in S |-> f[i]]
           R == Reported(status)
<1>3. Completed \in Nat /\ \A k \in 1..Len(applied) : LineOf(applied[k]) \in 0..Completed
  <2>1. NginxTypes /\ FollowerInv /\ LogOrder /\ CutOrder(Taken)
    BY DEF NginxInv, NginxTypes
  <2>2. Completed \in Nat
    BY <2>1, CompletedType DEF LogOrder
  <2>3. ASSUME NEW k \in 1..Len(applied) PROVE LineOf(applied[k]) \in 0..Completed
    <3>1. k \in 1..Len(Taken) /\ Taken[k] = applied[k]
      BY <2>1, TakenType
    <3>2. Settled(applied[k].Text)
      BY <2>1, <3>1 DEF CutOrder
    <3>3. CASE LineOf(applied[k]) # 0
      <4>1. LineOf(applied[k]) \in 1..Completed
        BY <3>2, <3>3, LineOfText DEF Settled
      <4> QED BY <2>2, <4>1
    <3> QED BY <2>2, <3>3
  <2> QED BY <2>2, <2>3
<1>4. ASSUME NEW i \in S PROVE f[i] \in R
  <2>1. i \in 1..Len(history) /\ history[i].status = status
    OBVIOUS
  <2>2. f[i] \in 1..MaxLines /\ f[i] \notin Unparsed /\ EventOf(f[i]).status = status
    BY <1>2, <2>1
  <2>3. f[i] \in 0..Completed
    BY <1>2, <1>3, <2>1
  <2>4. f[i] \in 1..Completed
    BY <1>3, <2>2, <2>3, FollowerAssumption
  <2> QED BY <2>2, <2>4 DEF Reported
<1>5. IsFiniteSet(R)
  <2>1. IsFiniteSet(1..Completed) /\ R \in SUBSET (1..Completed)
    BY <1>3, FS_Interval DEF Reported
  <2> QED BY <2>1, FS_Subset
<1> HIDE DEF R
<1>6. g \in Injection(S, R)
  <2>1. g \in [S -> R]
    BY <1>4
  <2>2. ASSUME NEW i \in S, NEW j \in S, g[i] = g[j] PROVE i = j
    <3>1. f[i] = f[j] /\ i \in 1..Len(history) /\ j \in 1..Len(history)
      BY <2>2
    <3>2. f[i] \in Nat /\ f[j] \in Nat /\ i \in Nat /\ j \in Nat
      BY <1>2, <3>1, FollowerAssumption
    <3> QED BY <1>2, <3>1, <3>2
  <2> QED BY <2>1, <2>2 DEF Injection, IsInjective
<1> HIDE DEF g
<1>7. IsFiniteSet(S) /\ Cardinality(S) <= Cardinality(R)
  BY <1>5, <1>6, FS_Injection
<1>8. Cardinality(S) \in Nat /\ Cardinality(R) \in Nat
  BY <1>5, <1>7, FS_CardinalityType
<1> QED BY <1>7, <1>8 DEF R

(* Nobody is accused of more than the access log shows, whatever thresholds,  *)
(* truncations, retries and restarts: the counter and the attempts that the   *)
(* administrator sees are never more than the finished lines that report the  *)
(* status in question (nginx_security.go persistNginxEvent; db.go drops the   *)
(* uniqueness of raw_hash).                                                   *)
THEOREM AccusedOfLoggedLines == NginxSpec => []NoInventedAttempts
<1>1. NginxInv /\ EventsFromLines /\ DetectInv => NoInventedAttempts
  <2> SUFFICES ASSUME NginxInv, EventsFromLines, DetectInv PROVE NoInventedAttempts
    OBVIOUS
  <2>1. Client \in IPs
    BY NginxAssumption DEF Client
  <2>2. /\ detection[Client].consecutive \in Nat /\ offenders[Client].attempts \in Nat
        /\ history \in Seq(Event)
    BY <2>1 DEF DetectInv, DetectTypes, DetectionState, Offence
  <2>3. \A status : Cardinality(Reported(status)) \in Nat
    <3> TAKE status
    <3>1. {} \in SUBSET (1..Len(history)) /\ \A i \in {} : history[i].status = status
      OBVIOUS
    <3> QED BY <3>1, EventsReported
  <2>4. ASSUME NEW a, NEW k
        PROVE  Between(Client, a, k) \in SUBSET (1..Len(history))
    BY DEF Between, Seen
  <2>5. ASSUME NEW k \in Seen(Client), NEW n, Burst(Client, k, n)
        PROVE  n <= Cardinality(Reported(NotFound))
    <3>1. PICK a \in Between(Client, 1, k) :
             Scan(Client, a, k) /\ Cardinality(Between(Client, a, k)) = n
      BY <2>5 DEF Burst
    <3>2. \A i \in Between(Client, a, k) : history[i].status = NotFound
      BY <3>1 DEF Scan
    <3> QED BY <2>4, <3>1, <3>2, EventsReported
  <2>6. detection[Client].consecutive <= Cardinality(Reported(NotFound))
    <3>1. CASE detection[Client].consecutive > 0
      <4>1. \/ \E k \in Seen(Client) : \E a \in Between(Client, 1, k) : TellsStreak(Client, a, k)
            \/ TellsNone(Client)
        BY <2>1 DEF DetectInv, RowIsCurrent
      <4>2. PICK k \in Seen(Client) : \E a \in Between(Client, 1, k) : TellsStreak(Client, a, k)
        BY <2>2, <3>1, <4>1 DEF TellsNone
      <4>3. Burst(Client, k, detection[Client].consecutive)
        BY <4>2 DEF TellsStreak, Burst
      <4> QED BY <2>5, <4>3
    <3> QED BY <2>2, <2>3, <3>1
  <2>7. offenders[Client].attempts <=
           Cardinality(Reported(IF offenders[Client].reason = "consecutive_404"
                                THEN NotFound ELSE 401))
    <3>1. CASE offenders[Client].attempts > 0
      <4>1. \/ /\ offenders[Client].reason = "consecutive_404"
               /\ \E k \in Seen(Client) : Burst(Client, k, offenders[Client].attempts)
            \/ /\ offenders[Client].reason = "authentication_failures"
               /\ \E k \in Seen(Client) :
                    Cardinality(Failures(Client, k)) = offenders[Client].attempts
        BY <2>1, <3>1 DEF DetectInv, OffendersOffended
      <4>2. CASE /\ offenders[Client].reason = "consecutive_404"
                 /\ \E k \in Seen(Client) : Burst(Client, k, offenders[Client].attempts)
        BY <2>5, <4>2
      <4>3. CASE /\ offenders[Client].reason = "authentication_failures"
                 /\ \E k \in Seen(Client) :
                      Cardinality(Failures(Client, k)) = offenders[Client].attempts
        <5>1. PICK k \in Seen(Client) :
                 Cardinality(Failures(Client, k)) = offenders[Client].attempts
          BY <4>3
        <5>2. /\ Failures(Client, k) \in SUBSET (1..Len(history))
              /\ \A i \in Failures(Client, k) : history[i].status = 401
          BY DEF Failures, Between, Seen
        <5> QED BY <4>3, <5>1, <5>2, EventsReported
      <4> QED BY <4>1, <4>2, <4>3
    <3> QED BY <2>2, <2>3, <3>1
  <2> QED BY <2>6, <2>7 DEF NoInventedAttempts
<1> QED BY <1>1, NginxOrdered, EventsAreLines, NginxImplementsDetection, DetectionCorrect, PTL

----------------------------------------------------------------------------
(* Whole lines.  What was cut, sent or applied is a whole line of its file,   *)
(* and so the checkpoint, where the last one applied ends, is behind a        *)
(* newline: a new run starts between two lines.                               *)
AllWhole(s) == \A k \in 1..Len(s) : WholeLine(s[k])

WholeInv ==
    /\ NginxInv
    /\ truncations = 0 => /\ BufferInFile /\ PendingInFile
                          /\ AllWhole(cut) /\ AllWhole(records) /\ AllWhole(applied)

LEMMA WholeTypes ==
    ASSUME NginxInv
    PROVE  /\ FollowerInv /\ applied \in Seq(lineRecord) /\ cut \in Seq(lineRecord)
           /\ records \in Seq(lineRecord)
           /\ Len(cut) \in Nat /\ Len(records) \in Nat /\ Len(applied) \in Nat
           /\ offset \in Nat /\ Len(buffered) \in Nat /\ Len(pendingText) \in Nat
           /\ (inode # NoFile => inode \in Inodes) /\ (path # NoFile => path \in Inodes)
           /\ \A i \in Inodes : Len(files[i]) \in Nat
<1>1. /\ FollowerInv /\ applied \in Seq(lineRecord) /\ cut \in Seq(lineRecord)
      /\ records \in Seq(lineRecord) /\ offset \in Nat
      /\ buffered \in Seq(Units) /\ pendingText \in Seq(Units)
      /\ files \in [Inodes -> Seq(Units)]
  BY DEF NginxInv, NginxTypes, FollowerInv, FollowerTypeOK
<1>2. (inode # NoFile => inode \in Inodes) /\ (path # NoFile => path \in Inodes)
  BY FollowerAssumption DEF NginxInv, NginxTypes, FollowerInv, FollowerTypeOK, Inodes, NoFile
<1>3. /\ Len(cut) \in Nat /\ Len(records) \in Nat /\ Len(applied) \in Nat
      /\ Len(buffered) \in Nat /\ Len(pendingText) \in Nat
  BY <1>1, LenProperties
<1>4. \A i \in Inodes : Len(files[i]) \in Nat
  BY <1>1, LenProperties
<1> QED BY <1>1, <1>2, <1>3, <1>4

(* The log moves on, and the reader does not.                                 *)
LEMMA LogMovesWhole ==
    ASSUME WholeInv, NginxInv', LogMoves
    PROVE  WholeInv'
<1> SUFFICES ASSUME truncations' = 0
             PROVE  (BufferInFile /\ PendingInFile /\ AllWhole(cut) /\ AllWhole(records)
                        /\ AllWhole(applied))'
  BY DEF WholeInv
<1>1. NginxInv /\ FollowerInv /\ FollowerInv' /\ Environment
  BY DEF WholeInv, NginxInv, NginxTypes, LogMoves
<1>2. UNCHANGED <<inode, offset, buffered, pendingText, cut, records, applied>>
  BY DEF LogMoves, durableVars, Environment, Write, Rename, Create, WriterReopen, Truncate, followVars
<1>3. Grows /\ truncations = 0
  BY <1>1, WriteGrows
<1>4. BufferInFile /\ PendingInFile /\ AllWhole(cut) /\ AllWhole(records) /\ AllWhole(applied)
  BY <1>3 DEF WholeInv
<1>5. /\ inode # NoFile => inode \in Inodes
      /\ offset \in Nat /\ Len(buffered) \in Nat /\ Len(pendingText) \in Nat
      /\ \A i \in Inodes : Len(files[i]) \in Nat
  BY <1>1, WholeTypes
<1>6. \A i \in Inodes : Len(files'[i]) \in Nat
  BY <1>1, LenProperties DEF FollowerInv, FollowerTypeOK
<1>7. BufferInFile'
  <2> SUFFICES ASSUME inode # NoFile
               PROVE  /\ offset + Len(buffered) <= Len(files'[inode])
                      /\ \A i \in 1..Len(buffered) : buffered[i] = files'[inode][offset + i]
    BY <1>2 DEF BufferInFile
  <2>1. /\ offset + Len(buffered) <= Len(files[inode])
        /\ \A i \in 1..Len(buffered) : buffered[i] = files[inode][offset + i]
    BY <1>4 DEF BufferInFile
  <2>2. /\ Len(files[inode]) <= Len(files'[inode])
        /\ \A p \in 1..Len(files[inode]) : files'[inode][p] = files[inode][p]
    BY <1>3, <1>5 DEF Grows
  <2>3. \A i \in 1..Len(buffered) : offset + i \in 1..Len(files[inode])
    BY <1>5, <2>1
  <2>4. offset + Len(buffered) <= Len(files'[inode])
    BY <1>5, <1>6, <2>1, <2>2
  <2> QED BY <2>1, <2>2, <2>3, <2>4
<1>8. PendingInFile'
  <2> SUFFICES ASSUME inode # NoFile
               PROVE  /\ Len(pendingText) <= offset
                      /\ \A i \in 1..Len(pendingText) :
                           /\ pendingText[i] = files'[inode][offset - Len(pendingText) + i]
                           /\ pendingText[i] # NL
                      /\ \/ offset = Len(pendingText)
                         \/ files'[inode][offset - Len(pendingText)] = NL
    BY <1>2 DEF PendingInFile
  <2>1. /\ Len(pendingText) <= offset
        /\ \A i \in 1..Len(pendingText) :
             /\ pendingText[i] = files[inode][offset - Len(pendingText) + i]
             /\ pendingText[i] # NL
        /\ offset = Len(pendingText) \/ files[inode][offset - Len(pendingText)] = NL
        /\ offset + Len(buffered) <= Len(files[inode])
    BY <1>4 DEF PendingInFile, BufferInFile
  <2>2. \A p \in 1..Len(files[inode]) : files'[inode][p] = files[inode][p]
    BY <1>3, <1>5 DEF Grows
  <2>3. /\ \A i \in 1..Len(pendingText) : offset - Len(pendingText) + i \in 1..Len(files[inode])
        /\ offset # Len(pendingText) => offset - Len(pendingText) \in 1..Len(files[inode])
    BY <1>5, <2>1
  <2> QED BY <2>1, <2>2, <2>3
<1>9. ASSUME NEW s \in Seq(lineRecord), AllWhole(s)
      PROVE  \A k \in 1..Len(s) : WholeLine(s[k])'
  <2>1. \A k \in 1..Len(s) : s[k] \in lineRecord /\ WholeLine(s[k])
    BY <1>9, ElementOfSeq DEF AllWhole
  <2> QED BY <1>1, <1>3, <2>1, WholeLineKept
<1>10. (AllWhole(cut) /\ AllWhole(records) /\ AllWhole(applied))'
  BY <1>1, <1>2, <1>4, <1>9, WholeTypes DEF AllWhole
<1> QED BY <1>7, <1>8, <1>10

(* Steps that leave the files and the reader alone, and only pass on what     *)
(* was cut.                                                                   *)
LEMMA PassedOnWhole ==
    ASSUME WholeInv, NginxInv', UNCHANGED <<files, truncations>>,
           \/ inode' = NoFile
           \/ UNCHANGED <<inode, offset, buffered, pendingText>>,
           \A k \in 1..Len(cut') : k \in 1..Len(cut) /\ cut'[k] = cut[k],
           \A k \in 1..Len(records') :
               \/ \E j \in 1..Len(records) : records'[k] = records[j]
               \/ \E j \in 1..Len(cut) : records'[k] = cut[j],
           \A k \in 1..Len(applied') :
               \/ \E j \in 1..Len(applied) : applied'[k] = applied[j]
               \/ \E j \in 1..Len(records) : applied'[k] = records[j]
    PROVE  WholeInv'
<1> SUFFICES ASSUME truncations = 0
             PROVE  (BufferInFile /\ PendingInFile /\ AllWhole(cut) /\ AllWhole(records)
                        /\ AllWhole(applied))'
  BY DEF WholeInv
<1>1. BufferInFile /\ PendingInFile /\ AllWhole(cut) /\ AllWhole(records) /\ AllWhole(applied)
  BY DEF WholeInv
<1>2. (BufferInFile /\ PendingInFile)'
  BY <1>1 DEF BufferInFile, PendingInFile
<1>3. ASSUME NEW r, WholeLine(r) PROVE WholeLine(r)'
  BY <1>3 DEF WholeLine
<1>4. AllWhole(cut)'
  <2> SUFFICES ASSUME NEW r, \E k \in 1..Len(cut') : r = cut'[k] PROVE WholeLine(r)'
    BY DEF AllWhole, WholeLine
  <2> QED BY <1>1, <1>3 DEF AllWhole
<1>5. AllWhole(records)'
  <2> SUFFICES ASSUME NEW r, \E k \in 1..Len(records') : r = records'[k] PROVE WholeLine(r)'
    BY DEF AllWhole, WholeLine
  <2> QED BY <1>1, <1>3 DEF AllWhole
<1>6. AllWhole(applied)'
  <2> SUFFICES ASSUME NEW r, \E k \in 1..Len(applied') : r = applied'[k] PROVE WholeLine(r)'
    BY DEF AllWhole, WholeLine
  <2> QED BY <1>1, <1>3 DEF AllWhole
<1> QED BY <1>2, <1>4, <1>5, <1>6

(* The follower opens the log at its start or at the checkpoint.              *)
LEMMA OpenWhole ==
    ASSUME WholeInv, NginxInv', path # NoFile, NEW ck \in Checkpoint, openMailLog(ck),
           ck = nginxCheckpoint \/ ck = NoCheckpoint,
           UNCHANGED <<files, path, truncations, cut, records, applied>>
    PROVE  WholeInv'
<1> SUFFICES ASSUME truncations = 0
             PROVE  (BufferInFile /\ PendingInFile /\ AllWhole(cut) /\ AllWhole(records)
                        /\ AllWhole(applied))'
  BY DEF WholeInv
<1>1. NginxInv /\ AllWhole(cut) /\ AllWhole(records) /\ AllWhole(applied)
  BY DEF WholeInv
<1>2. /\ inode' = path /\ offset' = (IF Resumable(ck) THEN ck.offset ELSE 0)
      /\ buffered' = <<>> /\ pendingText' = <<>>
  BY DEF openMailLog, FreshLocals
<1>3. /\ path \in Inodes /\ Len(files[path]) \in Nat /\ Len(buffered') = 0
      /\ Len(pendingText') = 0 /\ Len(applied) \in Nat /\ applied \in Seq(lineRecord)
  BY <1>1, <1>2, WholeTypes, EmptySeq
<1>4. /\ offset' \in Nat /\ offset' <= Len(files[path])
      /\ offset' = 0 \/ files[path][offset'] = NL
  <2>1. CASE ~Resumable(ck)
    BY <1>2, <1>3, <2>1
  <2>2. CASE Resumable(ck)
    <3>1. /\ ck.inode # 0 /\ ck.inode = path /\ ck.offset <= Len(files[path])
          /\ ck.offset \in Nat /\ offset' = ck.offset
      BY <1>2, <2>2 DEF Resumable, Checkpoint
    <3>2. ck # NoCheckpoint
      BY <3>1 DEF NoCheckpoint
    <3>3. applied # <<>> /\ ck = CheckpointOf(applied[Len(applied)])
      BY <1>1, <3>2 DEF NginxInv, CheckpointIsLast
    <3>4. Len(applied) \in 1..Len(applied)
      BY <1>3, <3>3, EmptySeq
    <3>5. PICK r : r = applied[Len(applied)]
      OBVIOUS
    <3>6. WholeLine(r)
      BY <1>1, <3>4, <3>5 DEF AllWhole
    <3>7. ck.inode = r.Inode /\ ck.offset = r.Offset
      BY <3>3, <3>5 DEF CheckpointOf
    <3> QED BY <3>1, <3>6, <3>7 DEF WholeLine
  <2> QED BY <2>1, <2>2
<1>5. BufferInFile'
  BY <1>2, <1>3, <1>4 DEF BufferInFile
<1>6. PendingInFile'
  <2>1. offset' - Len(pendingText') = offset' /\ Len(pendingText') <= offset'
    BY <1>3, <1>4
  <2> QED BY <1>2, <1>3, <1>4, <2>1 DEF PendingInFile
<1>7. (AllWhole(cut) /\ AllWhole(records) /\ AllWhole(applied))'
  BY <1>1 DEF AllWhole, WholeLine
<1> QED BY <1>5, <1>6, <1>7

LEMMA FollowWhole ==
    ASSUME WholeInv, NginxInv', Follow \/ FollowFails
    PROVE  WholeInv'
<1>1. NginxInv /\ FollowerInv /\ nginxCheckpoint \in Checkpoint /\ NoCheckpoint \in Checkpoint
  BY FollowerAssumption DEF WholeInv, NginxInv, NginxTypes, NoCheckpoint, Checkpoint
<1>2. /\ cut \in Seq(lineRecord) /\ records \in Seq(lineRecord) /\ Len(cut) \in Nat
      /\ Len(records) \in Nat
  BY <1>1, WholeTypes
<1>3. UNCHANGED applied
  BY DEF Follow, FollowFails, durableVars
<1>4. UNCHANGED <<files, path, truncations>>
  BY DEF Follow, FollowFails, FollowOpen, FollowStep, FollowError, ReadLine, ReadEOF,
         SendRecord, CheckRotation, Reopen, Poll, logVars
<1>5. CASE (FollowOpen(nginxCheckpoint) \/ Reopen) /\ path = NoFile
  <2>1. UNCHANGED <<inode, offset, buffered, pendingText, cut, records>>
    BY <1>5 DEF FollowOpen, Reopen, OpenFails, Fail
  <2> QED BY <1>3, <1>4, <2>1, PassedOnWhole
<1>6. CASE FollowOpen(nginxCheckpoint) /\ path # NoFile
  <2>1. PICK ck \in Checkpoint : ck = nginxCheckpoint
    BY <1>1
  <2>2. openMailLog(ck) /\ UNCHANGED <<cut, records>>
    BY <1>6, <2>1 DEF FollowOpen, OpenFails
  <2> QED BY <1>3, <1>4, <1>6, <2>1, <2>2, OpenWhole
<1>7. CASE Reopen /\ path # NoFile
  <2>1. openMailLog(NoCheckpoint) /\ UNCHANGED <<cut, records>>
    BY <1>7 DEF Reopen, OpenFails
  <2> QED BY <1>1, <1>3, <1>4, <1>7, <2>1, OpenWhole
<1>8. CASE CheckRotation \/ Poll \/ FollowError
  <2>1. UNCHANGED <<inode, offset, buffered, pendingText, cut, records>>
    BY <1>8 DEF CheckRotation, Poll, FollowError, Fail
  <2> QED BY <1>3, <1>4, <2>1, PassedOnWhole
<1>9. CASE SendRecord
  <2>1. /\ UNCHANGED <<inode, offset, buffered, pendingText, cut>>
        /\ records' = Append(records, cut[Len(cut)]) /\ cut # <<>>
    BY <1>1, <1>9 DEF SendRecord, sequence, FollowerInv, FollowerTypeOK
  <2>2. Len(cut) \in 1..Len(cut)
    BY <1>2, <2>1, EmptySeq
  <2>3. PICK r \in lineRecord : r = cut[Len(cut)]
    BY <1>2, <2>2, ElementOfSeq
  <2>4. records' = Append(records, r)
    BY <2>1, <2>3
  <2>5. \A k \in 1..Len(records') :
            \/ k \in 1..Len(records) /\ records'[k] = records[k]
            \/ records'[k] = r
    BY <1>2, <2>3, <2>4, AppendProperties
  <2>6. \A k \in 1..Len(records') :
            \/ \E j \in 1..Len(records) : records'[k] = records[j]
            \/ \E j \in 1..Len(cut) : records'[k] = cut[j]
    BY <2>2, <2>3, <2>5
  <2> QED BY <1>3, <1>4, <2>1, <2>6, PassedOnWhole
<1>10. CASE ReadEOF
  <2>1. UNCHANGED <<cut, records>>
    BY <1>10 DEF ReadEOF
  <2> SUFFICES ASSUME truncations = 0
               PROVE  (BufferInFile /\ PendingInFile /\ AllWhole(cut) /\ AllWhole(records)
                          /\ AllWhole(applied))'
    BY <1>4 DEF WholeInv
  <2>2. BufferInFile /\ PendingInFile /\ AllWhole(cut) /\ AllWhole(records) /\ AllWhole(applied)
    BY DEF WholeInv
  <2>3. (BufferInFile /\ PendingInFile)'
    BY <1>1, <1>10, <2>2, ReadEOFPosition
  <2>4. (AllWhole(cut) /\ AllWhole(records) /\ AllWhole(applied))'
    BY <1>3, <1>4, <2>1, <2>2 DEF AllWhole, WholeLine
  <2> QED BY <2>3, <2>4
<1>11. CASE ReadLine
  <2>1. UNCHANGED records
    BY <1>11 DEF ReadLine
  <2> SUFFICES ASSUME truncations = 0
               PROVE  (BufferInFile /\ PendingInFile /\ AllWhole(cut) /\ AllWhole(records)
                          /\ AllWhole(applied))'
    BY <1>4 DEF WholeInv
  <2>2. BufferInFile /\ PendingInFile /\ AllWhole(cut) /\ AllWhole(records) /\ AllWhole(applied)
    BY DEF WholeInv
  <2>3. /\ (BufferInFile /\ PendingInFile)'
        /\ \E r \in lineRecord : cut' = Append(cut, r) /\ WholeLine(r)
    BY <1>1, <1>11, <2>2, ReadLinePosition
  <2>4. PICK r \in lineRecord : cut' = Append(cut, r) /\ WholeLine(r)
    BY <2>3
  <2>5. \A k \in 1..Len(cut') : \/ k \in 1..Len(cut) /\ cut'[k] = cut[k]
                                \/ cut'[k] = r
    BY <1>2, <2>4, AppendProperties
  <2>6. \A k \in 1..Len(cut') : WholeLine(cut'[k])
    BY <2>2, <2>4, <2>5 DEF AllWhole
  <2>7. AllWhole(cut)'
    BY <1>4, <2>6 DEF AllWhole, WholeLine
  <2>8. (AllWhole(records) /\ AllWhole(applied))'
    BY <1>3, <1>4, <2>1, <2>2 DEF AllWhole, WholeLine
  <2> QED BY <2>3, <2>7, <2>8
<1> QED BY <1>5, <1>6, <1>7, <1>8, <1>9, <1>10, <1>11 DEF Follow, FollowFails, FollowStep

(* A transaction applies the first record of the channel.                     *)
LEMMA AppliedIsSent ==
    ASSUME NginxInv, records # <<>>, Apply(Head(records))
    PROVE  \A k \in 1..Len(applied') :
               \/ \E j \in 1..Len(applied) : applied'[k] = applied[j]
               \/ \E j \in 1..Len(records) : applied'[k] = records[j]
<1>1. /\ Head(records) = records[1] /\ Len(records) \in Nat \ {0}
      /\ Len(applied') = Len(applied) + 1
      /\ \A k \in 1..Len(applied) : applied'[k] = applied[k]
      /\ applied'[Len(applied) + 1] = Head(records)
  BY ApplyMoves
<1>2. Len(applied) \in Nat /\ 1 \in 1..Len(records)
  BY <1>1, WholeTypes
<1> SUFFICES ASSUME NEW k \in 1..Len(applied')
             PROVE  \/ \E j \in 1..Len(applied) : applied'[k] = applied[j]
                    \/ \E j \in 1..Len(records) : applied'[k] = records[j]
  OBVIOUS
<1>3. k \in 1..Len(applied) \/ k = Len(applied) + 1
  BY <1>1, <1>2
<1> QED BY <1>1, <1>2, <1>3

LEMMA PersistWhole ==
    ASSUME WholeInv, NginxInv', Persist
    PROVE  WholeInv'
<1>1. /\ NginxInv /\ records # <<>> /\ Apply(Head(records)) /\ records' = Tail(records)
      /\ UNCHANGED <<files, truncations, inode, offset, buffered, pendingText, cut>>
  BY DEF WholeInv, Persist, logVars, followVars
<1>2. /\ Len(records) \in Nat \ {0} /\ Len(Tail(records)) = Len(records) - 1
      /\ \A i \in 1..Len(Tail(records)) : Tail(records)[i] = records[i + 1]
  BY <1>1, ApplyMoves
<1>3. \A k \in 1..Len(records') : \E j \in 1..Len(records) : records'[k] = records[j]
  <2> SUFFICES ASSUME NEW k \in 1..Len(records')
               PROVE  \E j \in 1..Len(records) : records'[k] = records[j]
    OBVIOUS
  <2>1. k + 1 \in 1..Len(records) /\ records'[k] = records[k + 1]
    BY <1>1, <1>2
  <2> QED BY <2>1
<1>4. \A k \in 1..Len(applied') :
          \/ \E j \in 1..Len(applied) : applied'[k] = applied[j]
          \/ \E j \in 1..Len(records) : applied'[k] = records[j]
  BY <1>1, AppliedIsSent
<1> QED BY <1>1, <1>3, <1>4, PassedOnWhole

LEMMA StopWhole ==
    ASSUME WholeInv, NginxInv', PersistRefused \/ PersistThenFail \/ Fails \/ FollowErrorSeen
    PROVE  WholeInv'
<1>1. /\ NginxInv /\ UNCHANGED <<files, truncations>> /\ inode' = NoFile
      /\ cut' = <<>> /\ records' = <<>>
  BY DEF WholeInv, PersistRefused, PersistThenFail, Fails, FollowErrorSeen, Stop, StopFollower, logVars
<1>2. Len(cut') = 0 /\ Len(records') = 0
  BY <1>1, EmptySeq
<1>3. \/ UNCHANGED applied
      \/ records # <<>> /\ Apply(Head(records))
  BY DEF PersistRefused, PersistThenFail, Fails, FollowErrorSeen, durableVars
<1>4. \A k \in 1..Len(applied') :
          \/ \E j \in 1..Len(applied) : applied'[k] = applied[j]
          \/ \E j \in 1..Len(records) : applied'[k] = records[j]
  BY <1>1, <1>3, AppliedIsSent
<1> QED BY <1>1, <1>2, <1>4, PassedOnWhole

LEMMA WholeInductive == WholeInv /\ [NginxNext]_nginxVars => WholeInv'
<1> SUFFICES ASSUME WholeInv, [NginxNext]_nginxVars PROVE WholeInv'
  OBVIOUS
<1>1. NginxInv'
  BY NginxInductive DEF WholeInv
<1>2. CASE Start \/ UNCHANGED nginxVars
  <2>1. UNCHANGED <<followerVars, durableVars>>
    BY <1>2 DEF Start, nginxVars
  <2>2. UNCHANGED <<files, truncations, inode, offset, buffered, pendingText, cut, records, applied>>
    BY <2>1 DEF followerVars, durableVars, logVars, followVars
  <2> QED BY <1>1, <2>2, PassedOnWhole
<1> QED
  BY <1>1, <1>2, LogMovesWhole, FollowWhole, PersistWhole, StopWhole DEF NginxNext

(* While no file is truncated, every access log record that is cut is one     *)
(* whole line up to the offset it names, and so is every record that was      *)
(* applied: a run that starts at the checkpoint starts between two lines.     *)
THEOREM NginxRecordsWhole ==
    NginxSpec => [](RecordsAreWholeLines /\ (truncations = 0 => AllWhole(applied)))
<1>1. NginxInit => WholeInv
  <2> SUFFICES ASSUME NginxInit PROVE WholeInv
    OBVIOUS
  <2>1. NginxInv
    BY NginxInitially
  <2>2. inode = NoFile /\ cut = <<>> /\ records = <<>> /\ applied = <<>>
    BY DEF NginxInit, FollowerInit, FollowInit
  <2>3. Len(cut) = 0 /\ Len(records) = 0 /\ Len(applied) = 0
    BY <2>2, EmptySeq
  <2> QED BY <2>1, <2>2, <2>3 DEF WholeInv, BufferInFile, PendingInFile, AllWhole
<1>2. WholeInv /\ [NginxNext]_nginxVars => WholeInv'
  BY WholeInductive
<1>3. WholeInv => RecordsAreWholeLines /\ (truncations = 0 => AllWhole(applied))
  BY DEF WholeInv, RecordsAreWholeLines, AllWhole
<1> QED BY <1>1, <1>2, <1>3, PTL DEF NginxSpec

----------------------------------------------------------------------------
(* No line left out.  While nothing has happened that may lose lines, the     *)
(* k-th record taken holds line k, the reader is in the line after the last   *)
(* one taken, and while no file is open no rotation has begun.                *)
InStep ==
    /\ \A k \in 1..Len(Taken) : LineOf(Taken[k]) = k
    /\ ReaderInStep(Len(Taken) + 1)
    /\ inode = NoFile => path = 1 /\ lastInode = 1

StepInv ==
    /\ WholeInv
    /\ truncations = 0 => LogInSteps
    /\ ~MayLose => InStep

(* What is known before and after a step that loses nothing.                  *)
LEMMA StillIntact ==
    ASSUME StepInv, NginxInv', ~MayLose',
           orderly' = orderly, truncations <= truncations', interrupted => interrupted'
    PROVE  /\ ~MayLose /\ InStep /\ LogInSteps /\ orderly /\ orderly'
           /\ truncations = 0 /\ truncations' = 0
           /\ BufferInFile /\ PendingInFile /\ AllWhole(applied)
           /\ NginxInv /\ NginxTypes /\ FollowerInv /\ FollowerInv' /\ LogOrder
           /\ Len(Taken) \in Nat /\ Len(Taken) + 1 \in Nat /\ Taken \in Seq(lineRecord)
<1>1. NginxInv /\ NginxTypes /\ FollowerInv /\ FollowerInv' /\ LogOrder
  BY DEF StepInv, WholeInv, NginxInv, NginxTypes
<1>2. truncations \in Nat /\ truncations' \in Nat
  <2>1. truncations \in 0..MaxTruncations /\ truncations' \in 0..MaxTruncations
    BY <1>1 DEF FollowerInv, FollowerTypeOK
  <2> QED BY <2>1, FollowerAssumption
<1>3. orderly' /\ ~(truncations' > 0) /\ ~interrupted'
  BY DEF MayLose
<1>4. orderly /\ orderly' /\ truncations = 0 /\ truncations' = 0 /\ ~interrupted
  BY <1>2, <1>3
<1>5. ~MayLose
  BY <1>4 DEF MayLose
<1>6. Len(Taken) \in Nat /\ Len(Taken) + 1 \in Nat /\ Taken \in Seq(lineRecord)
  BY <1>1, TakenType
<1> QED BY <1>1, <1>4, <1>5, <1>6 DEF StepInv, WholeInv

(* The primes of ReaderInStep at an unchanged number.                         *)
LEMMA SameNumber ==
    ASSUME NEW n, Len(Taken') + 1 = n, ReaderInStep(n)'
    PROVE  ReaderInStep(Len(Taken) + 1)'
BY DEF ReaderInStep, ReaderAtLine

LEMMA LogMovesInStep ==
    ASSUME StepInv, WholeInv', LogMoves
    PROVE  StepInv'
<1>1. NginxInv /\ NginxInv' /\ FollowerInv /\ FollowerInv' /\ LogOrder /\ Environment
  BY DEF StepInv, WholeInv, NginxInv, NginxTypes, LogMoves
<1>2. truncations' = 0 => LogInSteps'
  <2> SUFFICES ASSUME truncations' = 0 PROVE LogInSteps'
    OBVIOUS
  <2>1. truncations = 0
    BY <1>1, WriteGrows
  <2>2. LogInSteps
    BY <2>1 DEF StepInv
  <2> QED BY <1>1, <2>2, LogInStepsKept
<1>3. ~MayLose' => InStep'
  <2> SUFFICES ASSUME ~MayLose' PROVE InStep'
    OBVIOUS
  <2>1. /\ truncations \in Nat /\ truncations' \in {truncations, truncations + 1}
        /\ orderly' = orderly /\ interrupted' = interrupted
        /\ UNCHANGED <<fpc, inode, cut, records, applied>>
    <3>1. truncations \in Nat
      BY <1>1, FollowerAssumption DEF FollowerInv, FollowerTypeOK
    <3>2. /\ orderly' = orderly /\ interrupted' = interrupted
          /\ UNCHANGED <<fpc, inode, cut, records, applied>>
      BY DEF LogMoves, durableVars, Environment, Write, Rename, Create, WriterReopen, Truncate,
             followVars
    <3>3. truncations' \in {truncations, truncations + 1}
      BY <1>1 DEF Environment, Write, Rename, Create, WriterReopen, Truncate
    <3> QED BY <3>1, <3>2, <3>3
  <2>2. truncations <= truncations'
    BY <2>1
  <2>3. /\ InStep /\ LogInSteps /\ orderly /\ truncations' = 0 /\ BufferInFile /\ PendingInFile
        /\ Len(Taken) + 1 \in Nat
    BY <1>1, <2>1, <2>2, StillIntact
  <2>4. Taken' = Taken
    BY <2>1 DEF Taken, Sent
  <2>5. PICK n \in Nat : n = Len(Taken) + 1
    BY <2>3
  <2>6. ReaderInStep(n)
    BY <2>3, <2>5 DEF InStep
  <2>7. ReaderInStep(n)'
    BY <1>1, <2>3, <2>6, EnvironmentInStep
  <2>8. ReaderInStep(Len(Taken) + 1)'
    BY <2>4, <2>5, <2>7, SameNumber
  <2>9. \A k \in 1..Len(Taken') : LineOf(Taken'[k]) = k
    BY <2>3, <2>4 DEF InStep
  <2>10. inode' = NoFile => path' = 1 /\ lastInode' = 1
    <3>1. inode = NoFile => path = 1 /\ lastInode = 1
      BY <2>3 DEF InStep
    <3>2. inode = NoFile => ~Rename /\ ~Create
      <4> SUFFICES ASSUME inode = NoFile PROVE ~Rename /\ ~Create
        OBVIOUS
      <4>1. path = 1
        BY <3>1
      <4> QED BY <2>3, <4>1 DEF Rename, Create, NoFile
    <3>3. inode = NoFile => UNCHANGED <<path, lastInode>>
      BY <1>1, <3>2 DEF Environment, Write, WriterReopen, Truncate
    <3> QED BY <2>1, <3>1, <3>3
  <2> QED BY <2>8, <2>9, <2>10 DEF InStep
<1> QED BY <1>2, <1>3 DEF StepInv

LEMMA LogStandsInSteps ==
    ASSUME StepInv, UNCHANGED logVars
    PROVE  truncations' = 0 => LogInSteps'
BY DEF StepInv, logVars, LogInSteps, FirstLine, LastStart

LEMMA FollowInStep ==
    ASSUME StepInv, WholeInv', Follow \/ FollowFails
    PROVE  StepInv'
<1>1. NginxInv /\ NginxInv' /\ FollowerInv /\ FollowerInv'
  BY DEF StepInv, WholeInv, NginxInv, NginxTypes
<1>2. UNCHANGED <<applied, nginxCheckpoint>> /\ UNCHANGED logVars
  BY DEF Follow, FollowFails, durableVars, FollowOpen, FollowStep, FollowError, ReadLine, ReadEOF,
         SendRecord, CheckRotation, Reopen, Poll
<1>3. UNCHANGED <<files, path, lastInode, wfd, todo, written, truncations, orderly>>
  BY <1>2 DEF logVars
<1>4. truncations \in Nat /\ interrupted' = interrupted
  <2>1. truncations \in Nat
    BY <1>1, FollowerAssumption DEF FollowerInv, FollowerTypeOK
  <2>2. interrupted' = interrupted
    BY DEF Follow, FollowFails, FollowOpen, FollowStep, FollowError, ReadLine, ReadEOF, SendRecord,
           CheckRotation, Reopen, Poll, openMailLog, Fail
  <2> QED BY <2>1, <2>2
<1> SUFFICES ASSUME ~MayLose' PROVE InStep'
  BY <1>2, LogStandsInSteps DEF StepInv
<1>5. orderly' = orderly /\ truncations <= truncations' /\ (interrupted => interrupted')
  BY <1>3, <1>4
<1>6. /\ InStep /\ LogInSteps /\ LogOrder /\ orderly /\ truncations = 0 /\ BufferInFile
      /\ PendingInFile /\ AllWhole(applied)
      /\ Len(Taken) \in Nat /\ Taken \in Seq(lineRecord) /\ NginxTypes
  BY <1>1, <1>5, StillIntact
<1>7. PICK m \in Nat, n \in Nat : m = Len(Taken) /\ n = m + 1
  <2>1. PICK m \in Nat : m = Len(Taken)
    BY <1>6
  <2> QED BY <2>1
<1>8. /\ ReaderInStep(n) /\ \A k \in 1..m : LineOf(Taken[k]) = k
      /\ inode = NoFile => path = 1 /\ lastInode = 1
  BY <1>6, <1>7 DEF InStep
<1>9. ASSUME Taken' = Taken, ReaderInStep(n)', inode' # NoFile \/ inode' = inode
      PROVE  InStep'
  <2>1. ReaderInStep(Len(Taken) + 1)'
    BY <1>7, <1>9, SameNumber
  <2>2. \A k \in 1..Len(Taken') : LineOf(Taken'[k]) = k
    BY <1>7, <1>8, <1>9
  <2> QED BY <1>3, <1>8, <1>9, <2>1, <2>2 DEF InStep
<1>10. CASE FollowOpen(nginxCheckpoint) /\ path = NoFile
  <2>1. inode = NoFile
    BY <1>1, <1>10 DEF FollowOpen, NginxInv
  <2> QED BY <1>8, <1>10, <2>1 DEF NoFile
<1>11. CASE FollowOpen(nginxCheckpoint) /\ path # NoFile
  <2>1. PICK ck \in Checkpoint : ck = nginxCheckpoint
    BY <1>6 DEF NginxTypes
  <2>2. /\ openMailLog(ck) /\ UNCHANGED <<cut, records>> /\ fpc = "off" /\ fpc' = "read"
        /\ inode' = path
    BY <1>11, <2>1 DEF FollowOpen, OpenFails, openMailLog
  <2>3. /\ inode = NoFile /\ records = <<>> /\ Taken' = Taken
    BY <1>1, <1>2, <2>2 DEF NginxInv, Taken, Sent
  <2>4. lastInode = 1
    BY <1>6, <1>8, <2>3
  <2>5. Taken = applied /\ Len(applied) = m /\ applied \in Seq(lineRecord)
    <3>1. Sent = <<>> /\ applied \in Seq(lineRecord)
      BY <1>6, <2>2, <2>3 DEF Sent, NginxTypes
    <3>2. applied \o <<>> = applied
      BY <3>1, ConcatEmptySeq
    <3> QED BY <1>7, <3>1, <3>2 DEF Taken
  <2>6. \/ m = 0 /\ ck = NoCheckpoint
        \/ \E r \in lineRecord : /\ WholeLine(r) /\ LineOf(r) = m /\ m # 0 /\ r.Inode = 1
                                 /\ ck.inode = r.Inode /\ ck.offset = r.Offset
    <3>1. CASE applied = <<>>
      BY <1>1, <2>1, <2>5, <3>1, EmptySeq DEF NginxInv, CheckpointIsLast
    <3>2. CASE applied # <<>>
      <4>1. m \in 1..m /\ m # 0
        BY <2>5, <3>2, EmptySeq
      <4>2. PICK r \in lineRecord : r = applied[m]
        BY <2>5, <4>1, ElementOfSeq
      <4>3. WholeLine(r) /\ LineOf(r) = m
        BY <1>6, <1>8, <2>5, <4>1, <4>2 DEF AllWhole
      <4>4. ck.inode = r.Inode /\ ck.offset = r.Offset
        BY <1>1, <2>1, <2>5, <3>2, <4>2 DEF NginxInv, CheckpointIsLast, CheckpointOf
      <4>5. r.Inode = 1
        <5>1. r.Inode <= lastInode
          BY <1>1, <1>7, <2>5, <4>1, <4>2 DEF NginxInv, CutOrder
        <5>2. r.Inode \in Nat \ {0}
          BY FollowerAssumption DEF lineRecord, Inodes
        <5> QED BY <2>4, <5>1, <5>2
      <4> QED BY <4>1, <4>3, <4>4, <4>5
    <3> QED BY <3>1, <3>2
  <2>7. ReaderInStep(m + 1)'
    BY <1>1, <1>3, <1>6, <1>11, <2>2, <2>4, <2>6, OpenInStep
  <2>8. ReaderInStep(n)'
    BY <1>7, <2>7
  <2> QED BY <1>9, <1>11, <2>2, <2>3, <2>8
<1>12. CASE ReadLine
  <2>1. PICK r \in lineRecord : cut' = Append(cut, r) /\ Taken' = Append(Taken, r)
    BY <1>1, <1>2, <1>12, ReadLineTaken
  <2>2. /\ \E x \in lineRecord : cut' = Append(cut, x) /\ LineOf(x) = n
        /\ ReaderInStep(n + 1)'
    BY <1>1, <1>6, <1>8, <1>12, ReadLineInStep
  <2>3. PICK x \in lineRecord : cut' = Append(cut, x) /\ LineOf(x) = n
    BY <2>2
  <2>4. x = r
    <3>1. cut \in Seq(lineRecord)
      BY <1>1 DEF FollowerInv, FollowerTypeOK
    <3>2. cut'[Len(cut) + 1] = r
      BY <2>1, <3>1, AppendProperties
    <3>3. cut'[Len(cut) + 1] = x
      BY <2>3, <3>1, AppendProperties
    <3> QED BY <3>2, <3>3
  <2>5. /\ Len(Taken') = m + 1 /\ Taken'[m + 1] = r
        /\ \A k \in 1..m : Taken'[k] = Taken[k]
    BY <1>6, <1>7, <2>1, AppendProperties
  <2>6. \A k \in 1..Len(Taken') : LineOf(Taken'[k]) = k
    <3> SUFFICES ASSUME NEW k \in 1..(m + 1) PROVE LineOf(Taken'[k]) = k
      BY <2>5
    <3>1. k \in 1..m \/ k = m + 1
      OBVIOUS
    <3> QED BY <1>7, <1>8, <2>3, <2>4, <2>5, <3>1
  <2>7. ReaderInStep(Len(Taken) + 1)'
    <3>1. PICK v : v = n + 1
      OBVIOUS
    <3>2. Len(Taken') + 1 = v /\ ReaderInStep(v)'
      BY <1>7, <2>2, <2>5, <3>1
    <3> QED BY <3>2, SameNumber
  <2>8. inode' = inode
    BY <1>12 DEF ReadLine
  <2> QED BY <1>3, <1>8, <2>6, <2>7, <2>8 DEF InStep
<1>13. CASE ReadEOF
  <2>1. fpc = "read" /\ fpc' = "check" /\ inode' = inode /\ UNCHANGED <<cut, records>>
    BY <1>13 DEF ReadEOF
  <2>2. Taken' = Taken
    BY <1>2, <2>1 DEF Taken, Sent
  <2>3. ReaderInStep(n)'
    BY <1>1, <1>6, <1>8, <1>13, ReadEOFInStep
  <2> QED BY <1>9, <2>1, <2>2, <2>3
<1>14. CASE SendRecord \/ CheckRotation \/ Poll \/ FollowError
  <2>1. inode' = inode
    BY <1>14 DEF SendRecord, CheckRotation, Poll, FollowError, Fail
  <2>2. ReaderInStep(n)'
    BY <1>1, <1>6, <1>8, <1>14, PollInStep
  <2>3. Taken' = Taken
    <3>1. CASE SendRecord
      BY <1>2, <3>1 DEF SendRecord, sequence, Taken, Sent
    <3>2. CASE CheckRotation \/ Poll \/ FollowError
      <4>1. cut' = cut /\ records' = records /\ fpc # "send" /\ fpc' # "send"
        BY <3>2 DEF CheckRotation, Poll, FollowError, Fail
      <4> QED BY <1>2, <4>1 DEF Taken, Sent
    <3> QED BY <1>14, <3>1, <3>2
  <2> QED BY <1>9, <2>1, <2>2, <2>3
<1>15. CASE Reopen
  <2>1. path # NoFile /\ ReaderInStep(n)'
    BY <1>1, <1>6, <1>8, <1>15, ReopenInStep
  <2>2. fpc = "reopen" /\ fpc' = "read" /\ inode' = path /\ UNCHANGED <<cut, records>>
    BY <1>15, <2>1 DEF Reopen, OpenFails, openMailLog
  <2>3. Taken' = Taken
    BY <1>2, <2>2 DEF Taken, Sent
  <2> QED BY <1>9, <2>1, <2>2, <2>3
<1> QED BY <1>10, <1>11, <1>12, <1>13, <1>14, <1>15 DEF Follow, FollowFails, FollowStep

LEMMA SameInStep ==
    ASSUME InStep, Taken' = Taken,
           UNCHANGED <<files, path, lastInode, wfd, todo, written, fpc, inode, offset,
                       pendingText, rotatedAt>>
    PROVE  InStep'
<1>1. PICK n : n = Len(Taken) + 1
  OBVIOUS
<1>2. FirstLine' = FirstLine /\ DrainElapsed' = DrainElapsed
  BY DEF FirstLine, DrainElapsed
<1>3. ReaderAtLine(n) => ReaderAtLine(n)'
  BY <1>2 DEF ReaderAtLine
<1>4. LeftBehind => LeftBehind'
  BY <1>2 DEF LeftBehind
<1>5. Draining => Draining'
  BY <1>2 DEF Draining
<1>6. ReaderInStep(n)
  BY <1>1 DEF InStep
<1>7. ReaderInStep(n)'
  BY <1>3, <1>4, <1>5, <1>6 DEF ReaderInStep
<1>8. ReaderInStep(Len(Taken) + 1)'
  BY <1>1, <1>7, SameNumber
<1> QED BY <1>8 DEF InStep

LEMMA PersistInStep ==
    ASSUME StepInv, WholeInv', Persist
    PROVE  StepInv'
<1>1. NginxInv /\ NginxInv'
  BY DEF StepInv, WholeInv
<1>2. UNCHANGED <<files, path, lastInode, wfd, todo, written, truncations, orderly, interrupted,
                  fpc, inode, offset, buffered, pendingText, rotatedAt>>
      /\ UNCHANGED logVars
  BY DEF Persist, logVars, followVars
<1>3. Taken' = Taken
  BY <1>1, PersistOrder
<1>4. MayLose' = MayLose
  BY <1>2 DEF MayLose
<1>5. InStep => InStep'
  BY <1>2, <1>3, SameInStep
<1> QED BY <1>2, <1>4, <1>5, LogStandsInSteps DEF StepInv

(* A run that ends before any rotation leaves the log where the next one       *)
(* resumes.                                                                   *)
LEMMA StopInStep ==
    ASSUME StepInv, WholeInv', PersistRefused \/ PersistThenFail \/ Fails \/ FollowErrorSeen
    PROVE  StepInv'
<1>1. NginxInv /\ NginxInv' /\ NginxTypes /\ NginxTypes' /\ FollowerInv /\ FollowerInv'
  BY DEF StepInv, WholeInv, NginxInv, NginxTypes
<1>2. UNCHANGED logVars /\ UNCHANGED <<path, lastInode, truncations, orderly>> /\ Stop
  BY DEF PersistRefused, PersistThenFail, Fails, FollowErrorSeen, logVars
<1>3. faults' \in 0..MaxFaults
  BY <1>1 DEF FollowerInv, FollowerTypeOK
<1>4. \/ UNCHANGED <<applied, nginxCheckpoint>>
      \/ records # <<>> /\ Apply(Head(records))
  BY DEF PersistRefused, PersistThenFail, Fails, FollowErrorSeen, durableVars
<1>5. /\ Taken' = applied'
      /\ Len(applied') <= Len(Taken) /\ \A k \in 1..Len(applied') : applied'[k] = Taken[k]
  BY <1>1, <1>2, <1>3, <1>4, StopOrder
<1> SUFFICES ASSUME ~MayLose' PROVE InStep'
  BY <1>2, LogStandsInSteps DEF StepInv
<1>6. truncations \in Nat /\ lastInode \in Nat \ {0} /\ (path = NoFile \/ path = lastInode)
  <2>1. truncations \in 0..MaxTruncations /\ lastInode \in 1..MaxInode
    BY <1>1 DEF FollowerInv, FollowerTypeOK, Inodes
  <2>2. path = NoFile \/ path = lastInode
    BY <1>1 DEF NginxInv, LogOrder
  <2> QED BY <2>1, <2>2, FollowerAssumption
<1>7. ~interrupted' /\ ~interrupted /\ path # NoFile /\ ~(lastInode > 1)
  <2>1. ~interrupted' /\ interrupted' = (interrupted \/ path = NoFile \/ lastInode > 1)
    BY <1>2 DEF Stop, StopFollower, MayLose
  <2> QED BY <2>1, Zenon
<1>8. path' = 1 /\ lastInode' = 1
  BY <1>2, <1>6, <1>7
<1>9. orderly' = orderly /\ truncations <= truncations' /\ (interrupted => interrupted')
  BY <1>2, <1>6, <1>7
<1>10. InStep /\ Len(Taken) \in Nat
  BY <1>1, <1>9, StillIntact
<1>12. inode' = NoFile
  BY <1>2 DEF Stop, StopFollower
<1>13. PICK m \in Nat : m = Len(applied')
  BY <1>1, TakenType, LenProperties DEF NginxTypes
<1>14. \A k \in 1..m : LineOf(applied'[k]) = k
  <2> SUFFICES ASSUME NEW k \in 1..m PROVE LineOf(applied'[k]) = k
    OBVIOUS
  <2>1. PICK t \in Nat : t = Len(Taken)
    BY <1>10
  <2>2. k \in 1..t
    BY <1>5, <1>13, <2>1
  <2>3. LineOf(Taken[k]) = k
    BY <1>10, <2>1, <2>2 DEF InStep
  <2> QED BY <1>5, <1>13, <2>3
<1>15. \A k \in 1..Len(Taken') : LineOf(Taken'[k]) = k
  BY <1>5, <1>13, <1>14
<1> QED BY <1>8, <1>12, <1>15 DEF InStep, ReaderInStep

LEMMA StepInductive == StepInv /\ [NginxNext]_nginxVars => StepInv'
<1> SUFFICES ASSUME StepInv, [NginxNext]_nginxVars PROVE StepInv'
  OBVIOUS
<1>1. WholeInv'
  BY WholeInductive DEF StepInv
<1>2. CASE Start \/ UNCHANGED nginxVars
  <2>1. UNCHANGED <<followerVars, durableVars>>
    BY <1>2 DEF Start, nginxVars
  <2>2. /\ UNCHANGED <<files, path, lastInode, wfd, todo, written, truncations, orderly, fpc, inode,
                       offset, buffered, pendingText, rotatedAt, cut, interrupted, records, applied>>
        /\ UNCHANGED logVars
    BY <2>1 DEF followerVars, durableVars, logVars, followVars
  <2>3. MayLose' = MayLose
    BY <2>2 DEF MayLose
  <2>4. Taken' = Taken
    BY <2>2 DEF Taken, Sent
  <2>5. InStep => InStep'
    BY <2>2, <2>4, SameInStep
  <2> QED BY <1>1, <2>2, <2>3, <2>5, LogStandsInSteps DEF StepInv
<1> QED
  BY <1>1, <1>2, LogMovesInStep, FollowInStep, PersistInStep, StopInStep DEF NginxNext

LEMMA StepInitially == NginxInit => StepInv
<1> SUFFICES ASSUME NginxInit PROVE StepInv
  OBVIOUS
<1>1. NginxInv /\ NginxTypes
  BY NginxInitially DEF NginxInv
<1>2. /\ inode = NoFile /\ cut = <<>> /\ records = <<>> /\ applied = <<>> /\ fpc = "off"
      /\ path = 1 /\ lastInode = 1
  BY DEF NginxInit, FollowerInit, FollowInit, LogInit
<1>3. Len(cut) = 0 /\ Len(records) = 0 /\ Len(applied) = 0
  BY <1>2, EmptySeq
<1>4. WholeInv
  BY <1>1, <1>2, <1>3 DEF WholeInv, BufferInFile, PendingInFile, AllWhole
<1>5. LogInSteps
  BY LogInStepsInit DEF NginxInit
<1>6. Len(Taken) = 0
  <2>1. Sent = <<>>
    BY <1>2 DEF Sent
  <2> QED BY <1>1, <1>3, <2>1, EmptySeq, TakenType
<1>7. InStep
  BY <1>2, <1>6 DEF InStep, ReaderInStep
<1> QED BY <1>4, <1>5, <1>7 DEF StepInv

(* While nothing has happened that may lose lines, no line is left out: the   *)
(* records taken from the access log are its lines 1, 2, 3, ... in order, and *)
(* the reader is in the line after the last one, also when the file it reads  *)
(* was rotated away and is being drained, and when a run starts again from    *)
(* the checkpoint.                                                            *)
THEOREM NginxInStep == NginxSpec => []StepInv
<1>1. NginxInit => StepInv
  BY StepInitially
<1>2. StepInv /\ [NginxNext]_nginxVars => StepInv'
  BY StepInductive
<1> QED BY <1>1, <1>2, PTL DEF NginxSpec

----------------------------------------------------------------------------
(* The steps of the line feed.                                                *)
Ingested == [i \in 1..Len(applied) |-> LineOf(applied[i])]

FeedSafety == Feed!FeedInit /\ [][Feed!FeedNext]_(Feed!feedVars)

(* What was lost stays lost.                                                  *)
LEMMA LossStays ==
    ASSUME NginxInv, NginxInv', [NginxNext]_nginxVars
    PROVE  MayLose' = MayLose \/ MayLose' = TRUE
<1>1. truncations \in Nat
  BY FollowerAssumption DEF NginxInv, NginxTypes, FollowerInv, FollowerTypeOK
<1>2. CASE LogMoves
  <2>1. UNCHANGED followVars /\ orderly' = orderly /\ truncations' \in {truncations, truncations + 1}
    BY <1>2 DEF LogMoves, Environment, Write, Rename, Create, WriterReopen, Truncate
  <2> QED BY <1>1, <2>1 DEF MayLose, followVars
<1>3. CASE UNCHANGED logVars /\ (Stop \/ interrupted' = interrupted)
  <2>1. orderly' = orderly /\ truncations' = truncations
    BY <1>3 DEF logVars
  <2>2. interrupted => interrupted'
    BY <1>3 DEF Stop, StopFollower
  <2> QED BY <2>1, <2>2 DEF MayLose
<1>4. LogMoves \/ (UNCHANGED logVars /\ (Stop \/ interrupted' = interrupted))
  <2>1. CASE Follow \/ FollowFails
    BY <2>1 DEF Follow, FollowFails, FollowOpen, FollowStep, FollowError, ReadLine, ReadEOF,
         SendRecord, CheckRotation, Reopen, Poll, openMailLog, Fail
  <2>2. CASE Start \/ Persist \/ UNCHANGED nginxVars
    BY <2>2 DEF Start, Persist, nginxVars, followerVars, followVars
  <2>3. CASE PersistRefused \/ PersistThenFail \/ Fails \/ FollowErrorSeen
    BY <2>3 DEF PersistRefused, PersistThenFail, Fails, FollowErrorSeen
  <2> QED BY <2>1, <2>2, <2>3 DEF NginxNext
<1>5. MayLose => MayLose'
  BY <1>2, <1>3, <1>4
<1>6. MayLose \in BOOLEAN /\ MayLose' \in BOOLEAN
  BY DEF MayLose
<1> QED BY <1>5, <1>6

(* Nothing taken over: a line may be finished, and some may be lost.          *)
LEMMA FeedQuiet ==
    ASSUME UNCHANGED applied, Completed' = Completed \/ Completed' = Completed + 1,
           MayLose' = MayLose \/ MayLose' = TRUE
    PROVE  [Feed!FeedNext]_(Feed!feedVars)
<1>1. Ingested' = Ingested
  BY DEF Ingested
<1>2. CASE Completed' = Completed + 1
  BY <1>1, <1>2 DEF Feed!FeedNext, Feed!AppendLine, Ingested
<1>3. CASE Completed' = Completed /\ MayLose' = MayLose
  BY <1>1, <1>3 DEF Feed!feedVars, Ingested
<1>4. CASE Completed' = Completed /\ MayLose' = TRUE
  BY <1>1, <1>4 DEF Feed!FeedNext, Feed!Disturbance, Ingested
<1> QED BY <1>2, <1>3, <1>4

(* While nothing has happened that may lose lines, the record taken next is   *)
(* that of the next line.                                                     *)
LEMMA NextInStep ==
    ASSUME StepInv, records # <<>>, ~MayLose
    PROVE  LineOf(Head(records)) = Len(applied) + 1
<1>1. NginxInv /\ NginxTypes /\ FollowerInv
  BY DEF StepInv, WholeInv, NginxInv, NginxTypes
<1>2. records \in Seq(lineRecord) /\ Len(applied) \in Nat
  BY <1>1, TakenType DEF NginxInv, NginxTypes, FollowerInv, FollowerTypeOK
<1>3. PICK m \in Nat : m = Len(applied)
  BY <1>2
<1>4. \A k \in 1..Len(Taken) : LineOf(Taken[k]) = k
  BY DEF StepInv, InStep
<1>5. Len(records) \in Nat \ {0} /\ Head(records) = records[1]
  BY <1>2, EmptySeq, LenProperties
<1>6. 1 \in 1..Len(records) /\ Len(Sent) \in Nat /\ Len(records) <= Len(Sent)
      /\ \A k \in 1..Len(records) : Sent[k] = records[k]
  BY <1>1, <1>5, SentType
<1>7. 1 \in 1..Len(Sent) /\ Sent[1] = Head(records)
  BY <1>5, <1>6
<1>8. m + 1 \in 1..Len(Taken) /\ Taken[m + 1] = Head(records)
  BY <1>1, <1>3, <1>7, TakenType
<1> QED BY <1>3, <1>4, <1>8

(* The line taken over is the next one, or, when lines may have been lost, a  *)
(* later one than those before it.                                            *)
LEMMA FeedTakes ==
    ASSUME StepInv, records # <<>>, Apply(Head(records)), UNCHANGED logVars,
           MayLose' = MayLose \/ MayLose' = TRUE
    PROVE  [Feed!FeedNext]_(Feed!feedVars)
<1>1. NginxInv /\ NginxTypes /\ FollowerInv
  BY DEF StepInv, WholeInv, NginxInv, NginxTypes
<1>2. PICK m \in Nat, j \in Nat : m = Len(applied) /\ j = LineOf(Head(records))
  <2>1. Len(applied) \in Nat
    BY <1>1, TakenType
  <2>2. LineOf(Head(records)) \in Nat
    BY <1>1, NextIsLater
  <2> QED BY <2>1, <2>2
<1>3. /\ j \in 0..Completed
      /\ \A k \in 1..m : j # 0 => LineOf(applied[k]) < j
  BY <1>1, <1>2, NextIsLater
<1>4. Completed' = Completed
  BY DEF logVars, Completed
<1>5. /\ Len(applied') = m + 1 /\ \A k \in 1..m : applied'[k] = applied[k]
      /\ LineOf(applied'[m + 1]) = j
  BY <1>1, <1>2, ApplyMoves
<1>6. /\ Ingested = [i \in 1..m |-> LineOf(applied[i])]
      /\ Ingested' = [i \in 1..(m + 1) |-> LineOf(applied'[i])]
  BY <1>2, <1>5 DEF Ingested
<1>7. Ingested \in Seq({LineOf(applied[i]) : i \in 1..m}) /\ Len(Ingested) = m
  BY <1>6, IsASeq
<1>8. Ingested' = Append(Ingested, j)
  BY <1>5, <1>6, <1>7
<1>9. ~MayLose => j = m + 1
  BY <1>2, NextInStep
<1>10. MayLose => j = 0 \/ \A i \in 1..Len(Ingested) : Ingested[i] < j
  BY <1>3, <1>6, <1>7
<1> QED
  BY <1>3, <1>4, <1>7, <1>8, <1>9, <1>10 DEF Feed!FeedNext, Feed!Ingest, Feed!Later, Ingested

LEMMA FeedStep ==
    ASSUME StepInv, StepInv', [NginxNext]_nginxVars
    PROVE  [Feed!FeedNext]_(Feed!feedVars)
<1>1. NginxInv /\ NginxInv' /\ FollowerInv /\ LogOrder
  BY DEF StepInv, WholeInv, NginxInv, NginxTypes
<1>2. MayLose' = MayLose \/ MayLose' = TRUE
  BY <1>1, LossStays
<1>3. CASE LogMoves
  <2>1. UNCHANGED applied /\ Environment
    BY <1>3 DEF LogMoves, durableVars
  <2>2. Completed' = Completed \/ Completed' = Completed + 1
    BY <1>1, <2>1, EnvironmentMoves
  <2> QED BY <1>2, <2>1, <2>2, FeedQuiet
<1>4. CASE Persist \/ PersistThenFail
  <2>1. records # <<>> /\ Apply(Head(records)) /\ UNCHANGED logVars
    BY <1>4 DEF Persist, PersistThenFail
  <2> QED BY <1>2, <2>1, FeedTakes
<1>5. CASE Start \/ Follow \/ FollowFails \/ PersistRefused \/ Fails \/ FollowErrorSeen
           \/ UNCHANGED nginxVars
  <2>1. UNCHANGED applied /\ UNCHANGED logVars
    BY <1>5
    DEF Start, Follow, FollowFails, PersistRefused, Fails, FollowErrorSeen, FollowOpen, FollowStep,
        FollowError, ReadLine, ReadEOF, SendRecord, CheckRotation, Reopen, Poll, nginxVars, followerVars,
        durableVars
  <2>2. Completed' = Completed
    BY <2>1 DEF logVars, Completed
  <2> QED BY <1>2, <2>1, <2>2, FeedQuiet
<1> QED BY <1>3, <1>4, <1>5 DEF NginxNext

(* Every step of the access log pipeline is a step of the line feed, or none: *)
(* while nothing has happened that may lose lines, the transaction that       *)
(* commits next is that of the next line of the log, whole; afterwards, that  *)
(* of a later line than all before it, or of a torn one.                      *)
THEOREM NginxFeedsLines == NginxSpec => FeedSafety
<1>1. NginxInit => Feed!FeedInit
  <2> SUFFICES ASSUME NginxInit PROVE Feed!FeedInit
    OBVIOUS
  <2>1. todo = <<>> /\ written = 0 /\ applied = <<>>
    BY DEF NginxInit, FollowerInit, LogInit
  <2>2. Completed = 0
    BY <2>1 DEF Completed
  <2>3. [i \in 1..Len(applied) |-> LineOf(applied[i])] = <<>>
    <3>1. Len(applied) = 0
      BY <2>1, EmptySeq
    <3> QED BY <3>1
  <2>4. MayLose \in BOOLEAN
    BY DEF MayLose
  <2> QED BY <2>2, <2>3, <2>4 DEF Feed!FeedInit
<1>2. StepInv /\ StepInv' /\ [NginxNext]_nginxVars => [Feed!FeedNext]_(Feed!feedVars)
  BY FeedStep
<1> QED BY <1>1, <1>2, NginxInStep, PTL DEF NginxSpec, FeedSafety

----------------------------------------------------------------------------
(* Scans of the log.  All of the log is one client's, in one second, so while *)
(* no line is lost its counter is at least as long as the run of 404s that    *)
(* the last lines applied are.                                                *)
MissingRun(a, b) == a..b \subseteq Missing \ Unparsed

RunCounted ==
    \A n \in 1..Len(applied) :
        MissingRun(Len(applied) - n + 1, Len(applied)) =>
            /\ detection[Client].lastStatus = NotFound
            /\ detection[Client].consecutive >= n

ScansFlagged ==
    \A k \in Threshold404..Len(applied) :
        MissingRun(k - Threshold404 + 1, k) => offenders[Client].attempts > 0

ScanInv ==
    /\ DetectTypes
    /\ detection[Client].lastSeen = 0
    /\ ~MayLose => RunCounted /\ ScansFlagged

(* What a line of the client does to its row.                                 *)
LEMMA LineDetected ==
    ASSUME DetectTypes, detection[Client].lastSeen = 0, NEW l,
           persistNginxEvent(EventOf(l))
    PROVE  /\ DetectTypes' /\ detection'[Client].lastSeen = 0
           /\ offenders[Client].attempts > 0 => offenders'[Client].attempts > 0
           /\ l \in Missing =>
                /\ detection'[Client].lastStatus = NotFound
                /\ detection'[Client].consecutive =
                     IF detection[Client].lastStatus = NotFound
                     THEN detection[Client].consecutive + 1 ELSE 1
                /\ detection'[Client].consecutive >= Threshold404 =>
                     offenders'[Client].attempts > 0
<1> DEFINE e == EventOf(l)
           d == detection[Client]
<1>1. e \in Event /\ Client \in IPs
  BY EventOfType, NginxAssumption DEF Client
<1>2. /\ e.ip = Client /\ e.ts = 0 /\ ~e.ignored
      /\ l \in Missing => e.status = NotFound
      /\ l \notin Missing => e.status = 401
  BY DEF EventOf
<1> HIDE DEF e
<1>3. /\ DetectTypes'
      /\ offenders[Client].attempts > 0 => offenders'[Client].attempts > 0
  BY <1>1, EventStep, DetectionAssumption DEF e
<1>4. /\ d \in DetectionState /\ d.lastSeen = 0 /\ d.started \in Nat /\ d.consecutive \in Nat
      /\ Window404 \in Nat /\ Threshold404 \in Nat \ {0}
      /\ detection \in [IPs -> DetectionState] /\ offenders \in [IPs -> Offence]
  BY <1>1, DetectionAssumption DEF DetectTypes, DetectionState
<1>5. updateNginxDetection(e)
  BY <1>2 DEF persistNginxEvent, e
<1> HIDE DEF d
<1>6. CASE l \in Missing
  <2> DEFINE streak == Streak(d, e)
  <2>1. /\ detection' = [detection EXCEPT ![Client] = streak]
        /\ streak.consecutive >= Threshold404 =>
             offenders' = [offenders EXCEPT ![Client] =
                [reason |-> "consecutive_404", attempts |-> streak.consecutive, flagged |-> TRUE]]
    BY <1>2, <1>5, <1>6 DEF updateNginxDetection, flagSecurityOffender, d
  <2>2. /\ streak.lastSeen = 0 /\ streak.lastStatus = NotFound /\ streak.consecutive \in Nat
        /\ streak.consecutive = IF d.lastStatus = NotFound THEN d.consecutive + 1 ELSE 1
    <3>1. CASE d.lastStatus = NotFound
      <4>1. streak = [d EXCEPT !.consecutive = @ + 1, !.lastSeen = 0]
        BY <1>2, <1>4, <3>1 DEF Streak
      <4> HIDE DEF streak
      <4> QED BY <1>4, <3>1, <4>1 DEF DetectionState
    <3>2. CASE d.lastStatus # NotFound
      <4>1. streak = [consecutive |-> 1, started |-> 0, lastSeen |-> 0, lastStatus |-> NotFound]
        BY <1>2, <3>2 DEF Streak
      <4> HIDE DEF streak
      <4> QED BY <3>2, <4>1
    <3> QED BY <3>1, <3>2
  <2> HIDE DEF streak
  <2>3. detection'[Client] = streak
    BY <1>1, <1>4, <2>1
  <2>4. streak.consecutive >= Threshold404 => offenders'[Client].attempts > 0
    BY <1>1, <1>4, <2>1, <2>2
  <2> QED BY <1>3, <2>2, <2>3, <2>4 DEF d
<1>7. CASE l \notin Missing
  <2>1. detection' = [detection EXCEPT ![Client] = Reset(d, e)]
    BY <1>2, <1>5, <1>7 DEF updateNginxDetection, NotFound, d
  <2>2. Reset(d, e).lastSeen = 0
    BY <1>2, <1>4 DEF Reset
  <2>3. detection'[Client] = Reset(d, e)
    BY <1>1, <1>4, <2>1
  <2> QED BY <1>3, <1>7, <2>2, <2>3
<1> QED BY <1>6, <1>7

(* The transaction of the next line counts it.                                *)
LEMMA ScanCounted ==
    ASSUME StepInv, ScanInv, records # <<>>, Apply(Head(records)),
           ~MayLose' => ~MayLose
    PROVE  ScanInv'
<1>1. NginxInv /\ NginxTypes
  BY DEF StepInv, WholeInv, NginxInv, NginxTypes
<1>2. PICK m \in Nat, j \in Nat : m = Len(applied) /\ j = LineOf(Head(records))
  <2>1. Len(applied) \in Nat
    BY <1>1, TakenType
  <2>2. LineOf(Head(records)) \in Nat
    BY <1>1, NextIsLater
  <2> QED BY <2>1, <2>2
<1>3. Len(applied') = m + 1
  BY <1>1, <1>2, ApplyMoves
<1>4. Parsed(Head(records)) <=> j # 0 /\ j \notin Unparsed
  BY <1>2 DEF Parsed
<1>5. /\ DetectTypes' /\ detection'[Client].lastSeen = 0
      /\ offenders[Client].attempts > 0 => offenders'[Client].attempts > 0
      /\ j # 0 /\ j \notin Unparsed /\ j \in Missing =>
            /\ detection'[Client].lastStatus = NotFound
            /\ detection'[Client].consecutive =
                 IF detection[Client].lastStatus = NotFound
                 THEN detection[Client].consecutive + 1 ELSE 1
            /\ detection'[Client].consecutive >= Threshold404 =>
                 offenders'[Client].attempts > 0
  <2>1. CASE persistNginxEvent(EventOf(j))
    BY <2>1, LineDetected DEF ScanInv
  <2>2. CASE ~(j # 0 /\ j \notin Unparsed) /\ UNCHANGED detectVars
    <3>1. history' = history /\ detection' = detection /\ offenders' = offenders
      BY <2>2 DEF detectVars
    <3> QED BY <2>2, <3>1 DEF ScanInv, DetectTypes
  <2> QED BY <1>2, <1>4, <2>1, <2>2 DEF Apply
<1>6. ~MayLose' => RunCounted' /\ ScansFlagged'
  <2> SUFFICES ASSUME ~MayLose' PROVE RunCounted' /\ ScansFlagged'
    OBVIOUS
  <2>1. RunCounted /\ ScansFlagged
    BY DEF ScanInv
  <2>2. j = m + 1
    BY <1>1, <1>2, NextInStep
  <2>3. PICK c \in Nat, t \in Nat : c = detection[Client].consecutive /\ t = Threshold404 /\ t > 0
    <3>1. Client \in IPs /\ Threshold404 \in Nat /\ Threshold404 > 0
      BY NginxAssumption, DetectionAssumption DEF Client
    <3> QED BY <3>1 DEF ScanInv, DetectTypes, DetectionState
  <2>4. ASSUME NEW n \in 1..(m + 1), MissingRun(m + 1 - n + 1, m + 1)
        PROVE  /\ detection'[Client].lastStatus = NotFound
               /\ detection'[Client].consecutive >= n
    <3>1. m + 1 \in (m + 1 - n + 1)..(m + 1)
      OBVIOUS
    <3>2. j \in Missing /\ j \notin Unparsed
      BY <2>2, <2>4, <3>1 DEF MissingRun
    <3>3. /\ detection'[Client].lastStatus = NotFound
          /\ detection'[Client].consecutive =
               IF detection[Client].lastStatus = NotFound THEN c + 1 ELSE 1
      BY <1>5, <2>2, <2>3, <3>2
    <3>4. CASE n = 1
      BY <2>3, <3>3, <3>4
    <3>5. CASE n # 1
      <4>1. PICK i \in Nat : i = n - 1 /\ i \in 1..m
        BY <3>5
      <4>2. (m - i + 1)..m \subseteq (m + 1 - n + 1)..(m + 1)
        BY <4>1
      <4>3. MissingRun(m - i + 1, m)
        BY <2>4, <4>2 DEF MissingRun
      <4>4. detection[Client].lastStatus = NotFound /\ c >= i
        BY <1>2, <2>1, <2>3, <4>1, <4>3 DEF RunCounted
      <4> QED BY <2>3, <3>3, <4>1, <4>4
    <3> QED BY <3>4, <3>5
  <2>5. ASSUME NEW k \in t..(m + 1), MissingRun(k - t + 1, k)
        PROVE  offenders'[Client].attempts > 0
    <3>1. CASE k \in t..m
      BY <1>2, <1>5, <2>1, <2>3, <2>5, <3>1 DEF ScansFlagged
    <3>2. CASE k = m + 1
      <4>1. t \in 1..(m + 1) /\ m + 1 \in (m + 1 - t + 1)..(m + 1)
        BY <2>3, <3>2
      <4>2. MissingRun(m + 1 - t + 1, m + 1)
        BY <2>5, <3>2
      <4>3. detection'[Client].consecutive >= Threshold404
        BY <2>3, <2>4, <4>1, <4>2
      <4>4. j \in Missing /\ j \notin Unparsed
        BY <2>2, <4>1, <4>2 DEF MissingRun
      <4> QED BY <1>5, <2>2, <4>3, <4>4
    <3> QED BY <2>3, <3>1, <3>2
  <2>6. RunCounted'
    BY <1>3, <2>4 DEF RunCounted, MissingRun
  <2>7. ScansFlagged'
    BY <1>3, <2>3, <2>5 DEF ScansFlagged, MissingRun
  <2> QED BY <2>6, <2>7
<1> QED BY <1>5, <1>6 DEF ScanInv

(* No scan of the log escapes: while nothing has happened that may lose lines *)
(* (a truncation, a run that ends after a rotation), whoever asked for a      *)
(* threshold of missing paths in a row, in one second, is an offender as soon *)
(* as the last of these lines is applied, and stays one through restarts,     *)
(* retries and lost COMMIT answers (nginx_security.go updateNginxDetection).  *)
(* That those lines are applied in the end is the liveness part of            *)
(* ScanFlaggedInTheEnd.                                                       *)
THEOREM ScansAreFlagged == NginxSpec => [](~MayLose => ScansFlagged)
<1>1. NginxInit => ScanInv
  <2> SUFFICES ASSUME NginxInit PROVE ScanInv
    OBVIOUS
  <2>1. DetectInit /\ applied = <<>> /\ DetectTypes
    BY DetectInitially, DetectionAssumption DEF NginxInit, DetectInv
  <2>2. detection[Client].lastSeen = 0
    BY <2>1, NginxAssumption DEF DetectInit, NoState, Client
  <2>3. Len(applied) = 0 /\ Threshold404 \in Nat \ {0}
    BY <2>1, EmptySeq, DetectionAssumption
  <2>4. RunCounted /\ ScansFlagged
    BY <2>3 DEF RunCounted, ScansFlagged
  <2> QED BY <2>1, <2>2, <2>4 DEF ScanInv
<1>2. StepInv /\ StepInv' /\ ScanInv /\ [NginxNext]_nginxVars => ScanInv'
  <2> SUFFICES ASSUME StepInv, StepInv', ScanInv, [NginxNext]_nginxVars PROVE ScanInv'
    OBVIOUS
  <2>1. ~MayLose' => ~MayLose
    <3>1. MayLose' = MayLose \/ MayLose' = TRUE
      BY LossStays DEF StepInv, WholeInv
    <3> QED BY <3>1
  <2>2. CASE Persist \/ PersistThenFail
    <3>1. records # <<>> /\ Apply(Head(records))
      BY <2>2 DEF Persist, PersistThenFail
    <3> QED BY <2>1, <3>1, ScanCounted
  <2>3. CASE LogMoves \/ Start \/ Follow \/ FollowFails \/ PersistRefused \/ Fails
             \/ FollowErrorSeen \/ UNCHANGED nginxVars
    <3>1. UNCHANGED durableVars
      BY <2>3 DEF LogMoves, Start, Follow, FollowFails, PersistRefused, Fails, FollowErrorSeen,
                     nginxVars
    <3>2. UNCHANGED <<applied, history, detection, offenders>>
      BY <3>1 DEF durableVars, detectVars
    <3> QED BY <2>1, <3>2 DEF ScanInv, DetectTypes, RunCounted, ScansFlagged
  <2> QED BY <2>2, <2>3 DEF NginxNext
<1>3. ScanInv => (~MayLose => ScansFlagged)
  BY DEF ScanInv
<1> QED BY <1>1, <1>2, <1>3, NginxInStep, PTL DEF NginxSpec
=============================================================================
