--------------------------- MODULE StitcherProofs ---------------------------
(* Theorems about the stitching of lines into transactions, for any set of   *)
(* Queue IDs, any timeout and any number of lines and restarts.              *)
EXTENDS MailStitcher, FiniteSetTheorems, TLAPS

Statuses == {"", "deferred", "sent", "timed_out"}
Row == [qid : QueueIDs, lines : Seq(Nat), status : Statuses,
        terminal : BOOLEAN, timedOut : BOOLEAN, age : 0..MaxAge]
Queue == [lines : Seq(Nat), status : Statuses, age : 0..MaxAge]
Output == [qid : QueueIDs, lines : Seq(Nat), timedOut : BOOLEAN]

StitchTypes ==
    /\ entries \in Seq(Entry) /\ rows \in Seq(Row) /\ stdout \in Seq(Output)
    /\ queues \in [QueueIDs -> Queue]
    /\ spc \in {"select", "apply", "evict"} /\ tick \in 0..NoTick
    /\ spc = "apply" => entries # <<>>
    /\ spc = "evict" => tick # NoTick

(* The lines the stitcher has been given: while the collector is between      *)
(* persisting a line and applying it, that line is not among them.            *)
Given == IF spc = "apply" THEN 1..(Len(entries) - 1) ELSE 1..Len(entries)

(* A queue holds lines of its Queue ID, stdout lines the stitcher was given,  *)
(* and no line is both held and out.                                          *)
QueuesHoldTheirs ==
    \A q \in QueueIDs : \A k \in 1..Len(queues[q].lines) :
        queues[q].lines[k] \in Given /\ entries[queues[q].lines[k]].qid = q
OutWasGiven ==
    \A i \in 1..Len(stdout) : \A k \in 1..Len(stdout[i].lines) : stdout[i].lines[k] \in Given
HeldOrOut ==
    \A i \in 1..Len(stdout) : \A k \in 1..Len(stdout[i].lines) :
        \A q \in QueueIDs : \A m \in 1..Len(queues[q].lines) :
            stdout[i].lines[k] # queues[q].lines[m]

RowsInv == OnlyNewestActive /\ RowsHoldTheLog
MemoryInv == QueuesHoldTheirs /\ OutWasGiven /\ HeldOrOut /\ EmittedOnce
StitchInv == StitchTypes /\ RowsInv /\ MemoryInv

----------------------------------------------------------------------------
LEMMA SetToSeqIsInjective ==
    ASSUME NEW S, IsFiniteSet(S)
    PROVE  /\ SetToSeq(S) \in [1..Cardinality(S) -> S]
           /\ \A i, j \in 1..Cardinality(S) : SetToSeq(S)[i] = SetToSeq(S)[j] => i = j
<1>1. Cardinality(S) \in Nat /\ ExistsBijection(1..Cardinality(S), S)
  BY FS_CardinalityType
<1>2. PICK f : f \in Bijection(1..Cardinality(S), S)
  BY <1>1 DEF ExistsBijection
<1>3. f \in [1..Cardinality(S) -> S] /\ IsInjective(f)
  BY <1>2 DEF Bijection, Injection, IsInjective
<1>4. SetToSeq(S) \in [1..Cardinality(S) -> S] /\ IsInjective(SetToSeq(S))
  BY <1>3 DEF SetToSeq
<1> QED BY <1>4 DEF IsInjective

LEMMA StitchConstants ==
    /\ Idle \in Nat /\ Idle > 0 /\ MaxStale \in Nat
    /\ MaxAge \in Nat /\ NoTick \in Nat /\ 0 \in 0..MaxAge /\ NoTick \in 0..NoTick /\ 0 \in 0..NoTick
    /\ NoQueue \notin QueueIDs /\ NoLines \in Queue /\ NoLines.lines = <<>>
BY StitcherAssumption DEF MaxAge, NoTick, NoLines, Queue, Statuses

LEMMA EntryTypes ==
    ASSUME NEW e \in Entry
    PROVE  /\ e.qid \in QueueIDs \cup {NoQueue} /\ e.kind \in Kinds
           /\ StatusOf(e.kind) \in Statuses
           /\ \A old \in Statuses : Merged(old, StatusOf(e.kind)) \in Statuses
BY DEF Entry, Kinds, StatusOf, Statuses, Merged

LEMMA StitchInitInv == StitchInit => StitchInv
<1> SUFFICES ASSUME StitchInit PROVE StitchInv
  OBVIOUS
<1>1. StitchTypes
  BY StitchConstants DEF StitchInit, StitchTypes
<1>2. Len(entries) = 0 /\ Len(rows) = 0 /\ Len(stdout) = 0
  BY DEF StitchInit
<1>3. \A q \in QueueIDs : queues[q].lines = <<>> /\ Len(queues[q].lines) = 0
  BY StitchConstants DEF StitchInit
<1>4. RowsInv
  BY <1>2 DEF RowsInv, OnlyNewestActive, RowsHoldTheLog, NoLineLost, NoLineStrayed, LinesInOrder
<1>5. MemoryInv
  BY <1>2, <1>3 DEF MemoryInv, QueuesHoldTheirs, OutWasGiven, HeldOrOut, EmittedOnce
<1> QED BY <1>1, <1>4, <1>5 DEF StitchInv

----------------------------------------------------------------------------
(* What mergeMailTransaction does to the rows: nothing, a new row, or a line  *)
(* more in the one active row.                                                *)
NewRow(e, n) ==
    /\ \A i \in 1..Len(rows) : ~Active(i, e.qid)
    /\ \E row \in Row : /\ row.qid = e.qid /\ row.lines = <<n>> /\ ~row.timedOut
                        /\ rows' = Append(rows, row)
RowTakesLine(e, n) ==
    \E i \in 1..Len(rows) : \E row \in Row :
        /\ Active(i, e.qid) /\ row.qid = e.qid
        /\ row.lines = Append(rows[i].lines, n) /\ row.timedOut = rows[i].timedOut
        /\ rows' = [rows EXCEPT ![i] = row]

LEMMA RowFields ==
    \A row \in Row : /\ row.qid \in QueueIDs /\ row.lines \in Seq(Nat) /\ row.status \in Statuses
                     /\ row.terminal \in BOOLEAN /\ row.age \in Nat
BY StitchConstants DEF Row

LEMMA MergeEffects ==
    ASSUME StitchTypes, OnlyNewestActive, NEW e \in Entry, NEW n \in Nat,
           mergeMailTransaction(e, n)
    PROVE  \/ e.qid = NoQueue /\ rows' = rows
           \/ e.qid # NoQueue /\ NewRow(e, n)
           \/ e.qid # NoQueue /\ RowTakesLine(e, n)
<1> DEFINE active == {i \in 1..Len(rows) : Active(i, e.qid)}
           status == StatusOf(e.kind)
           merge(row) == [row EXCEPT !.lines = Append(@, n),
                                     !.status = Merged(@, status),
                                     !.terminal = @ \/ isTerminalStatus(status),
                                     !.age = 0]
           fresh == [qid |-> e.qid, lines |-> <<n>>, status |-> status,
                     terminal |-> isTerminalStatus(status), timedOut |-> FALSE, age |-> 0]
           last == CHOOSE i \in active : \A j \in active : j <= i
<1>1. rows \in Seq(Row)
  BY DEF StitchTypes
<1>2. /\ status \in Statuses /\ \A old \in Statuses : Merged(old, status) \in Statuses
      /\ isTerminalStatus(status) \in BOOLEAN
  BY EntryTypes DEF isTerminalStatus
<1>3. CASE e.qid = NoQueue
  BY <1>3 DEF mergeMailTransaction
<1>4. CASE e.qid # NoQueue /\ active = {}
  <2>1. rows' = Append(rows, fresh)
    BY <1>4 DEF mergeMailTransaction
  <2>2. /\ fresh \in Row /\ fresh.qid = e.qid /\ fresh.lines = <<n>> /\ ~fresh.timedOut
    BY <1>2, <1>4, EntryTypes, StitchConstants DEF Row
  <2>3. \A i \in 1..Len(rows) : ~Active(i, e.qid)
    BY <1>4
  <2> HIDE DEF fresh
  <2> QED BY <1>4, <2>1, <2>2, <2>3 DEF NewRow
<1>5. CASE e.qid # NoQueue /\ active # {}
  <2>1. PICK i \in active : TRUE
    BY <1>5
  <2>2. \A j \in active : j = i
    BY <1>1, <2>1 DEF OnlyNewestActive, Active
  <2>3. last = i
    <3>1. \A j \in active : j <= i
      BY <1>1, <2>1, <2>2
    <3>2. last \in active
      BY <2>1, <3>1
    <3> QED BY <2>2, <3>2
  <2>4. rows' = [rows EXCEPT ![last] = merge(@)]
    BY <1>5 DEF mergeMailTransaction
  <2>5. i \in 1..Len(rows) /\ Active(i, e.qid) /\ rows[i] \in Row
    BY <1>1, <2>1
  <2> HIDE DEF last
  <2>6. rows' = [rows EXCEPT ![i] = merge(rows[i])]
    BY <1>1, <2>3, <2>4, <2>5
  <2>7. /\ merge(rows[i]) \in Row /\ merge(rows[i]).qid = e.qid
        /\ merge(rows[i]).lines = Append(rows[i].lines, n)
        /\ merge(rows[i]).timedOut = rows[i].timedOut
    <3> DEFINE l == Append(rows[i].lines, n)
               s == Merged(rows[i].status, status)
               t == rows[i].terminal \/ isTerminalStatus(status)
    <3>1. l \in Seq(Nat) /\ s \in Statuses /\ t \in BOOLEAN
      BY <1>2, <2>5, RowFields
    <3>2. rows[i].qid = e.qid
      BY <2>5 DEF Active
    <3>3. merge(rows[i]) = [rows[i] EXCEPT !.lines = l, !.status = s, !.terminal = t, !.age = 0]
      OBVIOUS
    <3>4. l = Append(rows[i].lines, n)
      OBVIOUS
    <3> HIDE DEF l, s, t, merge
    <3>5. LET r == [rows[i] EXCEPT !.lines = l, !.status = s, !.terminal = t, !.age = 0]
          IN  /\ r \in Row /\ r.qid = rows[i].qid /\ r.lines = l /\ r.timedOut = rows[i].timedOut
      BY <2>5, <3>1, StitchConstants DEF Row
    <3> QED BY <3>2, <3>3, <3>4, <3>5
  <2> HIDE DEF merge
  <2> QED BY <1>5, <2>5, <2>6, <2>7 DEF RowTakesLine
<1> QED BY <1>3, <1>4, <1>5

(* The row that takes the line is the newest of its Queue ID, and the line is *)
(* newer than every line the rows hold.                                       *)
LEMMA PersistKeepsRows ==
    ASSUME StitchTypes, RowsInv, NEW e \in Entry, Persist(e)
    PROVE  rows' \in Seq(Row) /\ RowsInv'
<1> DEFINE n == Len(entries) + 1
<1>1. entries \in Seq(Entry) /\ rows \in Seq(Row)
  BY DEF StitchTypes
<1>2. /\ entries' \in Seq(Entry) /\ Len(entries') = n /\ n \in Nat /\ n \in 1..Len(entries')
      /\ entries'[n] = e /\ \A m \in 1..Len(entries) : entries'[m] = entries[m]
      /\ \A m \in 1..Len(entries') : m = n \/ m \in 1..Len(entries)
      /\ \A m \in 1..Len(entries) : m \in 1..Len(entries') /\ m < n
  BY <1>1 DEF Persist
<1>3. OnlyNewestActive /\ NoLineLost /\ NoLineStrayed /\ LinesInOrder
  BY DEF RowsInv, RowsHoldTheLog
<1>4. \A i \in 1..Len(rows) : rows[i] \in Row /\ rows[i].lines \in Seq(Nat)
  BY <1>1, RowFields
<1>5. mergeMailTransaction(e, n)
  BY DEF Persist
<1> HIDE DEF n
<1>6. CASE e.qid = NoQueue /\ rows' = rows
  <2>1. OnlyNewestActive' /\ LinesInOrder'
    BY <1>3, <1>6 DEF OnlyNewestActive, LinesInOrder
  <2>2. NoLineLost'
    BY <1>2, <1>3, <1>6 DEF NoLineLost
  <2>3. NoLineStrayed'
    BY <1>2, <1>3, <1>6 DEF NoLineStrayed
  <2> QED BY <1>1, <1>6, <2>1, <2>2, <2>3 DEF RowsInv, RowsHoldTheLog
<1>7. CASE e.qid # NoQueue /\ NewRow(e, n)
  <2>1. PICK row \in Row : /\ row.qid = e.qid /\ row.lines = <<n>>
                           /\ rows' = Append(rows, row)
    BY <1>7 DEF NewRow
  <2> DEFINE new == Len(rows) + 1
  <2>2. /\ rows' \in Seq(Row) /\ Len(rows') = new /\ new \in Nat /\ rows'[new] = row
        /\ new \in 1..Len(rows')
        /\ \A i \in 1..Len(rows) : rows'[i] = rows[i] /\ i \in 1..Len(rows') /\ i < new
        /\ \A i \in 1..Len(rows') : i = new \/ i \in 1..Len(rows)
    BY <1>1, <2>1
  <2>3. Len(row.lines) = 1 /\ row.lines[1] = n /\ 1 \in 1..Len(row.lines)
    BY <2>1
  <2>4. \A k \in 1..Len(row.lines) : k = 1 /\ row.lines[k] = n
    BY <2>1, <2>3
  <2> HIDE DEF new
  <2>5. OnlyNewestActive'
    <3> SUFFICES ASSUME NEW i \in 1..Len(rows'), NEW j \in 1..Len(rows'),
                        i < j, rows'[i].qid = rows'[j].qid
                 PROVE  rows'[i].terminal
      BY DEF OnlyNewestActive
    <3>1. i \in 1..Len(rows) /\ rows'[i] = rows[i]
      BY <2>2
    <3>2. CASE j = new
      <4>1. ~Active(i, e.qid) /\ rows[i].qid = e.qid
        BY <1>7, <2>1, <2>2, <3>1, <3>2 DEF NewRow
      <4> QED BY <3>1, <4>1 DEF Active
    <3>3. CASE j \in 1..Len(rows)
      BY <1>3, <2>2, <3>1, <3>3 DEF OnlyNewestActive
    <3> QED BY <2>2, <3>2, <3>3
  <2>6. NoLineLost'
    <3> SUFFICES ASSUME NEW m \in 1..Len(entries'), entries'[m].qid # NoQueue
                 PROVE  \E i \in 1..Len(rows') : \E k \in 1..Len(rows'[i].lines) : rows'[i].lines[k] = m
      BY DEF NoLineLost
    <3>1. CASE m = n
      BY <3>1, <2>2, <2>3
    <3>2. CASE m \in 1..Len(entries)
      <4>1. entries[m].qid # NoQueue
        BY <1>2, <3>2
      <4>2. PICK i \in 1..Len(rows) : \E k \in 1..Len(rows[i].lines) : rows[i].lines[k] = m
        BY <1>3, <3>2, <4>1 DEF NoLineLost
      <4> QED BY <2>2, <4>2
    <3> QED BY <1>2, <3>1, <3>2
  <2>7. NoLineStrayed'
    <3> SUFFICES ASSUME NEW i \in 1..Len(rows'), NEW k \in 1..Len(rows'[i].lines)
                 PROVE  /\ rows'[i].lines[k] \in 1..Len(entries')
                        /\ entries'[rows'[i].lines[k]].qid = rows'[i].qid
      BY DEF NoLineStrayed
    <3>1. CASE i = new
      BY <1>2, <2>1, <2>2, <2>4, <3>1
    <3>2. CASE i \in 1..Len(rows)
      <4>1. rows[i].lines[k] \in 1..Len(entries) /\ entries[rows[i].lines[k]].qid = rows[i].qid
        BY <1>3, <2>2, <3>2 DEF NoLineStrayed
      <4> QED BY <1>2, <2>2, <3>2, <4>1
    <3> QED BY <2>2, <3>1, <3>2
  <2>8. LinesInOrder'
    <3> SUFFICES ASSUME NEW i \in 1..Len(rows'), NEW j \in 1..Len(rows'),
                        rows'[i].qid = rows'[j].qid,
                        NEW k \in 1..Len(rows'[i].lines), NEW m \in 1..Len(rows'[j].lines),
                        i < j \/ (i = j /\ k < m)
                 PROVE  rows'[i].lines[k] < rows'[j].lines[m]
      BY DEF LinesInOrder
    <3>1. i \in 1..Len(rows)
      BY <2>2, <2>4
    <3>2. CASE j = new
      BY <1>2, <1>3, <2>2, <2>4, <3>1, <3>2 DEF NoLineStrayed
    <3>3. CASE j \in 1..Len(rows)
      BY <1>3, <2>2, <3>1, <3>3 DEF LinesInOrder
    <3> QED BY <2>2, <3>2, <3>3
  <2> QED BY <2>2, <2>5, <2>6, <2>7, <2>8 DEF RowsInv, RowsHoldTheLog
<1>8. CASE e.qid # NoQueue /\ RowTakesLine(e, n)
  <2>1. PICK a \in 1..Len(rows), row \in Row :
            /\ Active(a, e.qid) /\ row.qid = e.qid
            /\ row.lines = Append(rows[a].lines, n)
            /\ rows' = [rows EXCEPT ![a] = row]
    BY <1>8 DEF RowTakesLine
  <2> DEFINE new == Len(rows[a].lines) + 1
  <2>2. /\ rows' \in Seq(Row) /\ Len(rows') = Len(rows) /\ rows'[a] = row
        /\ \A i \in 1..Len(rows) : i # a => rows'[i] = rows[i]
    BY <1>1, <2>1
  <2>3. /\ Len(row.lines) = new /\ new \in Nat /\ row.lines[new] = n /\ new \in 1..new
        /\ \A k \in 1..Len(rows[a].lines) : row.lines[k] = rows[a].lines[k] /\ k < new /\ k \in 1..new
        /\ \A k \in 1..new : k = new \/ k \in 1..Len(rows[a].lines)
    BY <1>2, <1>4, <2>1
  <2>4. rows[a].qid = row.qid /\ ~rows[a].terminal
    BY <2>1 DEF Active
  <2>5. \A j \in 1..Len(rows) : a < j => rows[j].qid # row.qid
    BY <1>3, <2>4 DEF OnlyNewestActive
  <2> HIDE DEF new
  <2>6. OnlyNewestActive'
    BY <1>3, <2>2, <2>4, <2>5 DEF OnlyNewestActive
  <2>7. NoLineLost'
    <3> SUFFICES ASSUME NEW m \in 1..Len(entries'), entries'[m].qid # NoQueue
                 PROVE  \E i \in 1..Len(rows') : \E k \in 1..Len(rows'[i].lines) : rows'[i].lines[k] = m
      BY DEF NoLineLost
    <3>1. CASE m = n
      BY <3>1, <2>2, <2>3
    <3>2. CASE m \in 1..Len(entries)
      <4>1. entries[m].qid # NoQueue
        BY <1>2, <3>2
      <4>2. PICK i \in 1..Len(rows) : \E k \in 1..Len(rows[i].lines) : rows[i].lines[k] = m
        BY <1>3, <3>2, <4>1 DEF NoLineLost
      <4>3. PICK k \in 1..Len(rows[i].lines) : rows[i].lines[k] = m
        BY <4>2
      <4>4. i \in 1..Len(rows') /\ k \in 1..Len(rows'[i].lines) /\ rows'[i].lines[k] = rows[i].lines[k]
        BY <2>2, <2>3
      <4> QED BY <4>3, <4>4
    <3> QED BY <1>2, <3>1, <3>2
  <2>8. NoLineStrayed'
    <3> SUFFICES ASSUME NEW i \in 1..Len(rows'), NEW k \in 1..Len(rows'[i].lines)
                 PROVE  /\ rows'[i].lines[k] \in 1..Len(entries')
                        /\ entries'[rows'[i].lines[k]].qid = rows'[i].qid
      BY DEF NoLineStrayed
    <3>1. CASE i = a /\ k = new
      BY <1>2, <2>1, <2>2, <2>3, <3>1
    <3>2. CASE ~(i = a /\ k = new)
      <4>1. /\ i \in 1..Len(rows) /\ k \in 1..Len(rows[i].lines)
            /\ rows'[i].lines[k] = rows[i].lines[k] /\ rows'[i].qid = rows[i].qid
        BY <2>2, <2>3, <2>4, <3>2
      <4>2. rows[i].lines[k] \in 1..Len(entries) /\ entries[rows[i].lines[k]].qid = rows[i].qid
        BY <1>3, <4>1 DEF NoLineStrayed
      <4> QED BY <1>2, <4>1, <4>2
    <3> QED BY <3>1, <3>2
  <2>9. LinesInOrder'
    <3> SUFFICES ASSUME NEW i \in 1..Len(rows'), NEW j \in 1..Len(rows'),
                        rows'[i].qid = rows'[j].qid,
                        NEW k \in 1..Len(rows'[i].lines), NEW m \in 1..Len(rows'[j].lines),
                        i < j \/ (i = j /\ k < m)
                 PROVE  rows'[i].lines[k] < rows'[j].lines[m]
      BY DEF LinesInOrder
    <3>1. rows[i].qid = rows[j].qid
      BY <2>2, <2>4
    <3>2. ~(i = a /\ i < j)
      BY <2>2, <2>4, <2>5, <3>1
    <3>3. k \in 1..Len(rows[i].lines) /\ rows'[i].lines[k] = rows[i].lines[k]
      BY <2>2, <2>3, <3>2
    <3>4. CASE j = a /\ m = new
      BY <1>2, <1>3, <2>2, <2>3, <3>3, <3>4 DEF NoLineStrayed
    <3>5. CASE ~(j = a /\ m = new)
      <4>1. m \in 1..Len(rows[j].lines) /\ rows'[j].lines[m] = rows[j].lines[m]
        BY <2>2, <2>3, <3>5
      <4> QED BY <1>3, <2>2, <3>1, <3>3, <4>1 DEF LinesInOrder
    <3> QED BY <3>4, <3>5
  <2> QED BY <2>2, <2>6, <2>7, <2>8, <2>9 DEF RowsInv, RowsHoldTheLog
<1> QED BY <1>2, <1>3, <1>5, <1>6, <1>7, <1>8, MergeEffects

(* A sweep or a clock step changes neither the Queue ID nor the lines of a    *)
(* row, and opens none.                                                       *)
LEMMA SameLinesSameLog ==
    ASSUME RowsInv, UNCHANGED entries, Len(rows') = Len(rows),
           \A i \in 1..Len(rows) : /\ rows'[i].qid = rows[i].qid
                                   /\ rows'[i].lines = rows[i].lines
                                   /\ rows[i].terminal => rows'[i].terminal
    PROVE  RowsInv'
<1>1. OnlyNewestActive'
  BY DEF RowsInv, OnlyNewestActive
<1>2. NoLineLost'
  BY DEF RowsInv, RowsHoldTheLog, NoLineLost
<1>3. NoLineStrayed'
  BY DEF RowsInv, RowsHoldTheLog, NoLineStrayed
<1>4. LinesInOrder'
  BY DEF RowsInv, RowsHoldTheLog, LinesInOrder
<1> QED BY <1>1, <1>2, <1>3, <1>4 DEF RowsInv, RowsHoldTheLog

LEMMA OlderProperties ==
    /\ \A row \in Row : /\ Older(row) \in Row /\ Older(row).qid = row.qid
                        /\ Older(row).lines = row.lines /\ Older(row).terminal = row.terminal
                        /\ Older(row).timedOut = row.timedOut
    /\ \A queue \in Queue : Older(queue) \in Queue /\ Older(queue).lines = queue.lines
<1>1. \A a \in 0..MaxAge : (IF a < MaxAge THEN a + 1 ELSE a) \in 0..MaxAge
  BY StitchConstants
<1>2. ASSUME NEW row \in Row
      PROVE  /\ Older(row) \in Row /\ Older(row).qid = row.qid
             /\ Older(row).lines = row.lines /\ Older(row).terminal = row.terminal
             /\ Older(row).timedOut = row.timedOut
  BY <1>1 DEF Older, Row
<1>3. ASSUME NEW queue \in Queue
      PROVE  Older(queue) \in Queue /\ Older(queue).lines = queue.lines
  BY <1>1 DEF Older, Queue
<1> QED BY <1>2, <1>3

----------------------------------------------------------------------------
(* The stitcher's memory and stdout.                                         *)

(* Queues that were only emptied, with the same output, hold and repeat       *)
(* nothing new.                                                               *)
LEMMA LessHeld ==
    ASSUME MemoryInv, UNCHANGED stdout, Given \subseteq Given',
           \A n \in Given : entries'[n] = entries[n],
           \A q \in QueueIDs : queues'[q].lines \in {queues[q].lines, <<>>}
    PROVE  MemoryInv'
<1>1. \A q \in QueueIDs : \A k \in 1..Len(queues'[q].lines) :
          k \in 1..Len(queues[q].lines) /\ queues'[q].lines[k] = queues[q].lines[k]
  BY Len(<<>>) = 0
<1>2. QueuesHoldTheirs'
  BY <1>1 DEF MemoryInv, QueuesHoldTheirs
<1>3. OutWasGiven'
  BY DEF MemoryInv, OutWasGiven
<1>4. HeldOrOut'
  BY <1>1 DEF MemoryInv, HeldOrOut
<1>5. EmittedOnce'
  BY DEF MemoryInv, EmittedOnce
<1> QED BY <1>2, <1>3, <1>4, <1>5 DEF MemoryInv

(* Queues that leave the memory for stdout, each once and as they were.       *)
LEMMA MovedOut ==
    ASSUME StitchTypes, MemoryInv, NEW Q \in SUBSET QueueIDs, DeleteQueues(Q),
           UNCHANGED entries, Given \subseteq Given',
           \A i \in 1..Len(stdout') :
               \/ i \in 1..Len(stdout) /\ stdout'[i] = stdout[i]
               \/ /\ i \notin 1..Len(stdout) /\ stdout'[i].qid \in Q
                  /\ stdout'[i].lines = queues[stdout'[i].qid].lines,
           \A i, j \in 1..Len(stdout') :
               i \notin 1..Len(stdout) /\ j \notin 1..Len(stdout)
                   /\ stdout'[i].qid = stdout'[j].qid => i = j
    PROVE  queues' \in [QueueIDs -> Queue] /\ MemoryInv'
<1>0. QueuesHoldTheirs /\ OutWasGiven /\ HeldOrOut /\ EmittedOnce
  BY DEF MemoryInv
<1>1. queues \in [QueueIDs -> Queue]
  BY DEF StitchTypes
<1>2. queues' \in [QueueIDs -> Queue]
  BY <1>1, StitchConstants DEF DeleteQueues
<1>3. \A q \in QueueIDs : /\ q \in Q => queues'[q].lines = <<>>
                          /\ q \notin Q => queues'[q] = queues[q]
  BY StitchConstants DEF DeleteQueues
<1>4. \A q \in QueueIDs : \A k \in 1..Len(queues'[q].lines) :
          q \notin Q /\ k \in 1..Len(queues[q].lines) /\ queues'[q].lines[k] = queues[q].lines[k]
  BY <1>3, Len(<<>>) = 0
<1>5. QueuesHoldTheirs'
  BY <1>4 DEF MemoryInv, QueuesHoldTheirs
<1>6. ASSUME NEW i \in 1..Len(stdout'), i \notin 1..Len(stdout), NEW k \in 1..Len(stdout'[i].lines)
      PROVE  /\ stdout'[i].qid \in Q /\ k \in 1..Len(queues[stdout'[i].qid].lines)
             /\ stdout'[i].lines[k] = queues[stdout'[i].qid].lines[k]
             /\ stdout'[i].lines[k] \in Given /\ entries[stdout'[i].lines[k]].qid = stdout'[i].qid
  BY <1>6 DEF MemoryInv, QueuesHoldTheirs
<1>7. OutWasGiven'
  BY <1>6 DEF MemoryInv, OutWasGiven
<1>8. HeldOrOut'
  <2> SUFFICES ASSUME NEW i \in 1..Len(stdout'), NEW k \in 1..Len(stdout'[i].lines),
                      NEW q \in QueueIDs, NEW m \in 1..Len(queues'[q].lines)
               PROVE  stdout'[i].lines[k] # queues'[q].lines[m]
    BY DEF HeldOrOut
  <2>1. q \notin Q /\ m \in 1..Len(queues[q].lines) /\ queues'[q].lines[m] = queues[q].lines[m]
    BY <1>4
  <2>2. CASE i \in 1..Len(stdout)
    BY <2>1, <2>2 DEF MemoryInv, HeldOrOut
  <2>3. CASE i \notin 1..Len(stdout)
    <3>1. entries[queues'[q].lines[m]].qid = q
      BY <2>1 DEF MemoryInv, QueuesHoldTheirs
    <3>2. entries[stdout'[i].lines[k]].qid \in Q
      BY <1>6, <2>3
    <3> QED BY <2>1, <3>1, <3>2
  <2> QED BY <2>2, <2>3
<1>9. EmittedOnce'
  <2> SUFFICES ASSUME NEW i \in 1..Len(stdout'), NEW j \in 1..Len(stdout'), i # j,
                      NEW k \in 1..Len(stdout'[i].lines), NEW m \in 1..Len(stdout'[j].lines)
               PROVE  stdout'[i].lines[k] # stdout'[j].lines[m]
    BY DEF EmittedOnce
  <2>0. /\ i \in 1..Len(stdout) => stdout'[i] = stdout[i]
        /\ j \in 1..Len(stdout) => stdout'[j] = stdout[j]
    OBVIOUS
  <2>1. CASE i \in 1..Len(stdout) /\ j \in 1..Len(stdout)
    BY <2>0, <2>1 DEF MemoryInv, EmittedOnce
  <2>2. CASE i \in 1..Len(stdout) /\ j \notin 1..Len(stdout)
    <3>1. /\ stdout'[j].qid \in QueueIDs /\ m \in 1..Len(queues[stdout'[j].qid].lines)
          /\ stdout'[j].lines[m] = queues[stdout'[j].qid].lines[m]
      BY <1>6, <2>2
    <3>2. stdout[i].lines[k] # queues[stdout'[j].qid].lines[m]
      BY <1>0, <2>0, <2>2, <3>1 DEF HeldOrOut
    <3> QED BY <2>0, <2>2, <3>1, <3>2
  <2>3. CASE i \notin 1..Len(stdout) /\ j \in 1..Len(stdout)
    <3>1. /\ stdout'[i].qid \in QueueIDs /\ k \in 1..Len(queues[stdout'[i].qid].lines)
          /\ stdout'[i].lines[k] = queues[stdout'[i].qid].lines[k]
      BY <1>6, <2>3
    <3>2. stdout[j].lines[m] # queues[stdout'[i].qid].lines[k]
      BY <1>0, <2>0, <2>3, <3>1 DEF HeldOrOut
    <3> QED BY <2>0, <2>3, <3>1, <3>2
  <2>4. CASE i \notin 1..Len(stdout) /\ j \notin 1..Len(stdout)
    <3>1. stdout'[i].qid # stdout'[j].qid
      BY <2>4
    <3>2. /\ entries[stdout'[i].lines[k]].qid = stdout'[i].qid
          /\ entries[stdout'[j].lines[m]].qid = stdout'[j].qid
      BY <1>6, <2>4
    <3> QED BY <3>1, <3>2
  <2> QED BY <2>1, <2>2, <2>3, <2>4
<1> QED BY <1>2, <1>5, <1>7, <1>8, <1>9 DEF MemoryInv

----------------------------------------------------------------------------
(* One lemma per step.                                                       *)

LEMMA PersistInv ==
    ASSUME StitchInv, NEW e \in Entry, Persist(e)
    PROVE  StitchInv'
<1>1. StitchTypes /\ RowsInv /\ MemoryInv
  BY DEF StitchInv
<1>2. rows' \in Seq(Row) /\ RowsInv'
  BY <1>1, PersistKeepsRows
<1>3. /\ entries \in Seq(Entry) /\ entries' = Append(entries, e)
      /\ spc = "select" /\ spc' = "apply" /\ UNCHANGED <<queues, stdout, tick>>
  BY <1>1 DEF Persist, StitchTypes
<1>4. /\ entries' \in Seq(Entry) /\ entries' # <<>> /\ Len(entries') = Len(entries) + 1
      /\ \A n \in 1..Len(entries) : entries'[n] = entries[n]
  BY <1>3
<1>5. StitchTypes'
  BY <1>1, <1>2, <1>3, <1>4 DEF StitchTypes
<1>6. Given' = Given /\ Given = 1..Len(entries)
  BY <1>3, <1>4 DEF Given
<1>7. MemoryInv'
  BY <1>1, <1>3, <1>4, <1>6, LessHeld
<1> QED BY <1>2, <1>5, <1>7 DEF StitchInv

LEMMA ApplyInv ==
    ASSUME StitchInv, Apply
    PROVE  StitchInv'
<1> DEFINE n == Len(entries)
           e == entries[n]
           old == queues[e.qid]
           tx == [lines |-> Append(old.lines, n),
                  status |-> Merged(old.status, StatusOf(e.kind)), age |-> 0]
<1>1. StitchTypes /\ RowsInv /\ MemoryInv
  BY DEF StitchInv
<1>2. spc = "apply" /\ spc' = "select" /\ UNCHANGED <<entries, rows, tick>>
  BY DEF Apply
<1>3. /\ entries \in Seq(Entry) /\ entries # <<>> /\ queues \in [QueueIDs -> Queue]
      /\ stdout \in Seq(Output)
  BY <1>1, <1>2 DEF StitchTypes
<1>4. /\ n \in Nat /\ n \in 1..Len(entries) /\ e \in Entry
  BY <1>3
<1>5. /\ Given = 1..(n - 1) /\ Given' = 1..n /\ Given \subseteq Given'
      /\ n \in Given' /\ n \notin Given
  BY <1>2, <1>4 DEF Given
<1>6. RowsInv'
  BY <1>1, <1>2, SameLinesSameLog
<1>7. CASE e.qid = NoQueue /\ UNCHANGED <<queues, stdout>>
  <2>1. MemoryInv'
    BY <1>1, <1>2, <1>5, <1>7, LessHeld
  <2>2. StitchTypes'
    BY <1>1, <1>2, <1>7 DEF StitchTypes
  <2> QED BY <1>6, <2>1, <2>2 DEF StitchInv
<1>8. CASE e.qid # NoQueue
  <2>1. e.qid \in QueueIDs /\ old \in Queue
    BY <1>3, <1>4, <1>8, EntryTypes
  <2>2. tx \in Queue
    BY <1>4, <2>1, EntryTypes, StitchConstants DEF Queue
  <2>3. tx.lines = Append(old.lines, n) /\ old.lines \in Seq(Nat)
    BY <2>1 DEF Queue
  <2> DEFINE new == Len(old.lines) + 1
  <2>4. /\ Len(tx.lines) = new /\ new \in Nat /\ tx.lines[new] = n
        /\ \A k \in 1..Len(old.lines) : tx.lines[k] = old.lines[k]
        /\ \A k \in 1..new : k = new \/ k \in 1..Len(old.lines)
    BY <1>4, <2>3
  <2>5. \A k \in 1..Len(tx.lines) : tx.lines[k] \in Given' /\ entries[tx.lines[k]].qid = e.qid
    <3>1. \A k \in 1..Len(old.lines) : old.lines[k] \in Given /\ entries[old.lines[k]].qid = e.qid
      BY <1>1, <2>1 DEF MemoryInv, QueuesHoldTheirs
    <3> HIDE DEF old, tx
    <3> QED BY <1>5, <2>4, <3>1
  <2>6. \A i \in 1..Len(stdout) : \A k \in 1..Len(stdout[i].lines) :
            \A m \in 1..Len(tx.lines) : stdout[i].lines[k] # tx.lines[m]
    <3> TAKE i \in 1..Len(stdout)
    <3> TAKE k \in 1..Len(stdout[i].lines)
    <3>1. stdout[i].lines[k] # n
      BY <1>1, <1>5 DEF MemoryInv, OutWasGiven
    <3>2. \A m \in 1..Len(old.lines) : stdout[i].lines[k] # old.lines[m]
      BY <1>1, <2>1 DEF MemoryInv, HeldOrOut
    <3> HIDE DEF old, tx
    <3> QED BY <2>4, <3>1, <3>2
  <2>7. /\ \/ queues' = [queues EXCEPT ![e.qid] = tx] /\ UNCHANGED stdout
           \/ /\ DeleteQueues({e.qid})
              /\ stdout' = Append(stdout, [qid |-> e.qid, lines |-> tx.lines, timedOut |-> FALSE])
    BY <1>8 DEF Apply
  <2> HIDE DEF tx, new
  <2>8. CASE queues' = [queues EXCEPT ![e.qid] = tx] /\ UNCHANGED stdout
    <3>1. /\ queues' \in [QueueIDs -> Queue] /\ queues'[e.qid] = tx
          /\ \A q \in QueueIDs : q # e.qid => queues'[q] = queues[q]
      BY <1>3, <2>1, <2>2, <2>8
    <3>2. QueuesHoldTheirs'
      BY <1>1, <1>2, <1>5, <2>5, <3>1 DEF MemoryInv, QueuesHoldTheirs
    <3>3. OutWasGiven' /\ EmittedOnce'
      <4>1. OutWasGiven'
        BY <1>1, <1>5, <2>8 DEF MemoryInv, OutWasGiven
      <4>2. EmittedOnce'
        BY <1>1, <2>8 DEF MemoryInv, EmittedOnce
      <4> QED BY <4>1, <4>2
    <3>4. HeldOrOut'
      BY <1>1, <2>6, <2>8, <3>1 DEF MemoryInv, HeldOrOut
    <3>5. StitchTypes'
      BY <1>1, <1>2, <2>8, <3>1 DEF StitchTypes
    <3> QED BY <1>6, <3>2, <3>3, <3>4, <3>5 DEF StitchInv, MemoryInv
  <2>9. CASE /\ DeleteQueues({e.qid})
             /\ stdout' = Append(stdout, [qid |-> e.qid, lines |-> tx.lines, timedOut |-> FALSE])
    <3> DEFINE o == [qid |-> e.qid, lines |-> tx.lines, timedOut |-> FALSE]
    <3>1. o \in Output /\ o.lines = tx.lines
      BY <2>1, <2>2 DEF Output, Queue
    <3>2. stdout' = Append(stdout, o)
      BY <2>9
    <3> HIDE DEF o
    <3>3. /\ stdout' \in Seq(Output) /\ Len(stdout') = Len(stdout) + 1 /\ Len(stdout) \in Nat
          /\ stdout'[Len(stdout')].lines = tx.lines
          /\ \A i \in 1..Len(stdout) : stdout'[i] = stdout[i]
          /\ \A i \in 1..Len(stdout') : i = Len(stdout') \/ i \in 1..Len(stdout)
      BY <1>3, <3>1, <3>2
    <3>4. /\ queues' \in [QueueIDs -> Queue] /\ queues'[e.qid].lines = <<>>
          /\ \A q \in QueueIDs : q # e.qid => queues'[q] = queues[q]
      BY <1>3, <2>1, <2>9, StitchConstants DEF DeleteQueues
    <3>5. \A q \in QueueIDs : \A k \in 1..Len(queues'[q].lines) :
              q # e.qid /\ queues'[q] = queues[q]
      BY <3>4, Len(<<>>) = 0
    <3>6. QueuesHoldTheirs'
      BY <1>1, <1>2, <1>5, <3>5 DEF MemoryInv, QueuesHoldTheirs
    <3>7. OutWasGiven'
      BY <1>1, <1>5, <2>5, <3>3 DEF MemoryInv, OutWasGiven
    <3>8. HeldOrOut'
      <4> SUFFICES ASSUME NEW i \in 1..Len(stdout'), NEW k \in 1..Len(stdout'[i].lines),
                          NEW q \in QueueIDs, NEW m \in 1..Len(queues'[q].lines)
                   PROVE  stdout'[i].lines[k] # queues'[q].lines[m]
        BY DEF HeldOrOut
      <4>1. q # e.qid /\ queues'[q] = queues[q]
        BY <3>5
      <4>2. CASE i \in 1..Len(stdout)
        BY <1>1, <3>3, <4>1, <4>2 DEF MemoryInv, HeldOrOut
      <4>3. CASE i = Len(stdout')
        <5>1. entries[queues'[q].lines[m]].qid = q
          BY <1>1, <4>1 DEF MemoryInv, QueuesHoldTheirs
        <5>2. entries[stdout'[i].lines[k]].qid = e.qid
          BY <2>5, <3>3, <4>3
        <5> QED BY <4>1, <5>1, <5>2
      <4> QED BY <3>3, <4>2, <4>3
    <3>9. EmittedOnce'
      <4> SUFFICES ASSUME NEW i \in 1..Len(stdout'), NEW j \in 1..Len(stdout'), i # j,
                          NEW k \in 1..Len(stdout'[i].lines), NEW m \in 1..Len(stdout'[j].lines)
                   PROVE  stdout'[i].lines[k] # stdout'[j].lines[m]
        BY DEF EmittedOnce
      <4>1. CASE i \in 1..Len(stdout) /\ j \in 1..Len(stdout)
        <5>1. stdout'[i] = stdout[i] /\ stdout'[j] = stdout[j]
          BY <3>3, <4>1
        <5>2. EmittedOnce
          BY <1>1 DEF MemoryInv
        <5> QED BY <4>1, <5>1, <5>2 DEF EmittedOnce
      <4>2. CASE i \in 1..Len(stdout) /\ j = Len(stdout')
        BY <2>6, <3>3, <4>2
      <4>3. CASE i = Len(stdout') /\ j \in 1..Len(stdout)
        BY <2>6, <3>3, <4>3
      <4> QED BY <3>3, <4>1, <4>2, <4>3
    <3>10. StitchTypes'
      BY <1>1, <1>2, <3>3, <3>4 DEF StitchTypes
    <3> QED BY <1>6, <3>6, <3>7, <3>8, <3>9, <3>10 DEF StitchInv, MemoryInv
  <2> QED BY <2>7, <2>8, <2>9
<1> QED BY <1>7, <1>8 DEF Apply

(* The sequence the evicted queues are encoded in holds each of them once.    *)
LEMMA EvictExpiredInv ==
    ASSUME StitchInv, EvictExpired
    PROVE  /\ StitchInv'
           /\ \A i \in (Len(stdout) + 1)..Len(stdout') : stdout'[i].qid \in IdleQueues
<1> DEFINE Out(q) == [qid |-> q, lines |-> queues[q].lines, timedOut |-> TRUE]
           S == {Out(q) : q \in IdleQueues}
           out == SetToSeq(S)
<1>1. StitchTypes /\ RowsInv /\ MemoryInv
  BY DEF StitchInv
<1>2. /\ spc = "select" /\ tick # NoTick /\ spc' = "evict" /\ DeleteQueues(IdleQueues)
      /\ stdout' = stdout \o out /\ UNCHANGED <<entries, rows, tick>>
  BY DEF EvictExpired
<1>3. IdleQueues \subseteq QueueIDs /\ IsFiniteSet(IdleQueues)
  BY StitcherAssumption, FS_Subset DEF IdleQueues
<1>4. IsFiniteSet(S)
  <2> DEFINE f == [q \in IdleQueues |-> Out(q)]
  <2>1. f \in Surjection(IdleQueues, S)
    BY DEF Surjection
  <2> HIDE DEF f, S
  <2> QED BY <1>3, <2>1, FS_Surjection
<1>5. \A q \in IdleQueues : Out(q) \in Output /\ Out(q).qid = q /\ Out(q).lines = queues[q].lines
  BY <1>1, <1>3 DEF StitchTypes, Output, Queue
<1>6. \A x \in S : x \in Output /\ x.qid \in IdleQueues /\ x = Out(x.qid)
                   /\ x.lines = queues[x.qid].lines
  BY <1>5
<1>7. /\ out \in [1..Cardinality(S) -> S] /\ Cardinality(S) \in Nat
      /\ \A i, j \in 1..Cardinality(S) : out[i] = out[j] => i = j
  BY <1>4, SetToSeqIsInjective, FS_CardinalityType
<1> HIDE DEF out, S
<1>8. out \in Seq(Output) /\ Len(out) = Cardinality(S)
  BY <1>6, <1>7
<1>9. /\ \A i \in 1..Len(out) : /\ out[i].qid \in IdleQueues /\ out[i] = Out(out[i].qid)
                                /\ out[i].lines = queues[out[i].qid].lines
      /\ \A i, j \in 1..Len(out) : out[i].qid = out[j].qid => i = j
  <2>1. \A i \in 1..Len(out) : out[i] \in S
    BY <1>7, <1>8
  <2>2. \A i, j \in 1..Len(out) : out[i] = out[j] => i = j
    BY <1>7, <1>8
  <2> HIDE DEF Out
  <2> QED BY <1>6, <2>1, <2>2
<1>10. /\ Given' = Given /\ stdout' \in Seq(Output)
       /\ \A i \in 1..Len(stdout) : stdout'[i] = stdout[i]
       /\ \A i \in 1..Len(stdout') : i \notin 1..Len(stdout) =>
              i - Len(stdout) \in 1..Len(out) /\ stdout'[i] = out[i - Len(stdout)]
       /\ \A i, j \in 1..Len(stdout') : i - Len(stdout) = j - Len(stdout) => i = j
  <2>1. stdout \in Seq(Output)
    BY <1>1 DEF StitchTypes
  <2>2. Given' = Given
    BY <1>2 DEF Given
  <2> QED BY <1>2, <1>8, <2>1, <2>2
<1>11. queues' \in [QueueIDs -> Queue] /\ MemoryInv'
  <2> HIDE DEF Out
  <2>1. \A i \in 1..Len(stdout') :
            \/ i \in 1..Len(stdout) /\ stdout'[i] = stdout[i]
            \/ /\ i \notin 1..Len(stdout) /\ stdout'[i].qid \in IdleQueues
               /\ stdout'[i].lines = queues[stdout'[i].qid].lines
    <3> TAKE i \in 1..Len(stdout')
    <3>1. CASE i \in 1..Len(stdout)
      BY <1>10, <3>1
    <3>2. CASE i \notin 1..Len(stdout)
      <4>1. i - Len(stdout) \in 1..Len(out) /\ stdout'[i] = out[i - Len(stdout)]
        BY <1>10, <3>2
      <4>2. /\ out[i - Len(stdout)].qid \in IdleQueues
            /\ out[i - Len(stdout)].lines = queues[out[i - Len(stdout)].qid].lines
        BY <1>9, <4>1
      <4> QED BY <3>2, <4>1, <4>2
    <3> QED BY <3>1, <3>2
  <2>2. \A i, j \in 1..Len(stdout') :
            i \notin 1..Len(stdout) /\ j \notin 1..Len(stdout)
                /\ stdout'[i].qid = stdout'[j].qid => i = j
    <3> SUFFICES ASSUME NEW i \in 1..Len(stdout'), NEW j \in 1..Len(stdout'),
                        i \notin 1..Len(stdout), j \notin 1..Len(stdout),
                        stdout'[i].qid = stdout'[j].qid
                 PROVE  i = j
      OBVIOUS
    <3>1. /\ i - Len(stdout) \in 1..Len(out) /\ stdout'[i] = out[i - Len(stdout)]
          /\ j - Len(stdout) \in 1..Len(out) /\ stdout'[j] = out[j - Len(stdout)]
      BY <1>10
    <3>2. i - Len(stdout) = j - Len(stdout)
      BY <1>9, <3>1
    <3> QED BY <1>10, <3>2
  <2> QED BY <1>1, <1>2, <1>3, <1>10, <2>1, <2>2, MovedOut
<1>12. RowsInv'
  BY <1>1, <1>2, SameLinesSameLog
<1>13. StitchTypes'
  BY <1>1, <1>2, <1>10, <1>11 DEF StitchTypes
<1>14. \A i \in (Len(stdout) + 1)..Len(stdout') : stdout'[i].qid \in IdleQueues
  <2>1. stdout \in Seq(Output)
    BY <1>1 DEF StitchTypes
  <2>2. \A i \in (Len(stdout) + 1)..Len(stdout') : i \in 1..Len(stdout') /\ i \notin 1..Len(stdout)
    BY <1>10, <2>1
  <2> HIDE DEF Out
  <2> QED BY <1>9, <1>10, <2>2
<1> QED BY <1>11, <1>12, <1>13, <1>14 DEF StitchInv

(* What the sweep does to a row.                                              *)
LEMMA SweepEffects ==
    ASSUME StitchInv, evictExpiredTransactions
    PROVE  /\ rows' \in Seq(Row) /\ Len(rows') = Len(rows)
           /\ \A i \in 1..Len(rows) :
                /\ rows'[i].qid = rows[i].qid /\ rows'[i].lines = rows[i].lines
                /\ ~Expired(rows[i]) => rows'[i] = rows[i]
                /\ Expired(rows[i]) => rows'[i].terminal
<1> DEFINE Close(row) == [row EXCEPT !.terminal = TRUE, !.timedOut = TRUE, !.age = 0,
                                     !.status = IF @ = "" THEN "timed_out" ELSE @]
           next(i) == IF Expired(rows[i]) THEN Close(rows[i]) ELSE rows[i]
<1>1. rows \in Seq(Row) /\ rows' = [i \in 1..Len(rows) |-> next(i)]
  BY DEF StitchInv, StitchTypes, evictExpiredTransactions
<1>2. ASSUME NEW row \in Row
      PROVE  /\ Close(row) \in Row /\ Close(row).qid = row.qid
             /\ Close(row).lines = row.lines /\ Close(row).terminal
  BY StitchConstants DEF Row, Statuses
<1> HIDE DEF Close
<1>3. \A i \in 1..Len(rows) : /\ next(i) \in Row /\ next(i).qid = rows[i].qid
                              /\ next(i).lines = rows[i].lines
                              /\ ~Expired(rows[i]) => next(i) = rows[i]
                              /\ Expired(rows[i]) => next(i).terminal
  BY <1>1, <1>2
<1> HIDE DEF next
<1>4. rows' \in Seq(Row) /\ Len(rows') = Len(rows)
  BY <1>1, <1>3
<1> QED BY <1>1, <1>3, <1>4

LEMMA SweepInv ==
    ASSUME StitchInv, evictExpiredTransactions
    PROVE  StitchInv'
<1>1. StitchTypes /\ RowsInv /\ MemoryInv
  BY DEF StitchInv
<1>2. spc = "evict" /\ spc' = "select" /\ tick' = NoTick /\ UNCHANGED <<entries, queues, stdout>>
  BY DEF evictExpiredTransactions
<1>3. RowsInv'
  BY <1>1, <1>2, SweepEffects, SameLinesSameLog
<1>4. Given' = Given
  BY <1>2 DEF Given
<1>5. MemoryInv'
  BY <1>1, <1>2, <1>4, LessHeld
<1>6. StitchTypes'
  BY <1>1, <1>2, SweepEffects, StitchConstants DEF StitchTypes
<1> QED BY <1>3, <1>5, <1>6 DEF StitchInv

LEMMA TickerFiresInv ==
    ASSUME StitchInv, TickerFires
    PROVE  StitchInv'
<1>1. StitchTypes /\ RowsInv /\ MemoryInv
  BY DEF StitchInv
<1>2. tick = NoTick /\ tick' = 0 /\ UNCHANGED <<entries, rows, queues, stdout, spc>>
  BY DEF TickerFires
<1>3. Given' = Given
  BY <1>2 DEF Given
<1>4. RowsInv' /\ MemoryInv'
  BY <1>1, <1>2, <1>3, SameLinesSameLog, LessHeld
<1>5. StitchTypes'
  BY <1>1, <1>2, StitchConstants DEF StitchTypes
<1> QED BY <1>4, <1>5 DEF StitchInv

(* A restart gives the stitcher nothing to repeat.                            *)
LEMMA CrashInv ==
    ASSUME StitchInv, Crash
    PROVE  StitchInv'
<1>1. StitchTypes /\ RowsInv /\ MemoryInv
  BY DEF StitchInv
<1>2. /\ queues' = [q \in QueueIDs |-> NoLines] /\ spc' = "select" /\ tick' = NoTick
      /\ UNCHANGED <<entries, rows, stdout>>
  BY DEF Crash
<1>3. queues' \in [QueueIDs -> Queue] /\ \A q \in QueueIDs : queues'[q].lines = <<>>
  BY <1>2, StitchConstants
<1>4. entries \in Seq(Entry)
  BY <1>1 DEF StitchTypes
<1>5. Given \subseteq Given'
  BY <1>2, <1>4 DEF Given
<1>6. RowsInv' /\ MemoryInv'
  BY <1>1, <1>2, <1>3, <1>5, SameLinesSameLog, LessHeld
<1>7. StitchTypes'
  BY <1>1, <1>2, <1>3, StitchConstants DEF StitchTypes
<1> QED BY <1>6, <1>7 DEF StitchInv

LEMMA ClockEffects ==
    ASSUME StitchInv, TimePasses
    PROVE  /\ rows' \in Seq(Row) /\ Len(rows') = Len(rows)
           /\ \A i \in 1..Len(rows) :
                /\ rows'[i].qid = rows[i].qid /\ rows'[i].lines = rows[i].lines
                /\ rows'[i].terminal = rows[i].terminal
                /\ rows'[i].timedOut = rows[i].timedOut
                /\ rows[i].terminal => rows'[i] = rows[i]
<1> DEFINE next(i) == IF rows[i].terminal THEN rows[i] ELSE Older(rows[i])
<1>1. rows \in Seq(Row) /\ rows' = [i \in 1..Len(rows) |-> next(i)]
  BY DEF StitchInv, StitchTypes, TimePasses
<1>2. \A i \in 1..Len(rows) : /\ next(i) \in Row /\ next(i).qid = rows[i].qid
                              /\ next(i).lines = rows[i].lines
                              /\ next(i).terminal = rows[i].terminal
                              /\ next(i).timedOut = rows[i].timedOut
                              /\ rows[i].terminal => next(i) = rows[i]
  BY <1>1, OlderProperties
<1> HIDE DEF next
<1>3. rows' \in Seq(Row) /\ Len(rows') = Len(rows)
  BY <1>1, <1>2
<1> QED BY <1>1, <1>2, <1>3

LEMMA TimePassesInv ==
    ASSUME StitchInv, TimePasses
    PROVE  StitchInv'
<1>1. StitchTypes /\ RowsInv /\ MemoryInv
  BY DEF StitchInv
<1>2. /\ queues' = [q \in QueueIDs |-> IF Live(q) THEN Older(queues[q]) ELSE queues[q]]
      /\ UNCHANGED <<entries, stdout, spc>>
      /\ tick = NoTick \/ tick < MaxStale
      /\ tick' = IF tick = NoTick THEN tick ELSE tick + 1
  BY DEF TimePasses
<1>3. queues' \in [QueueIDs -> Queue] /\ \A q \in QueueIDs : queues'[q].lines = queues[q].lines
  BY <1>1, <1>2, OlderProperties DEF StitchTypes
<1>4. Given' = Given
  BY <1>2 DEF Given
<1>5. RowsInv'
  BY <1>1, <1>2, ClockEffects, SameLinesSameLog
<1>6. MemoryInv'
  BY <1>1, <1>2, <1>3, <1>4, LessHeld
<1>7. tick' \in 0..NoTick /\ (tick # NoTick => tick' # NoTick)
  BY <1>1, <1>2, StitchConstants DEF StitchTypes, NoTick
<1>8. StitchTypes'
  BY <1>1, <1>2, <1>3, <1>7, ClockEffects DEF StitchTypes
<1> QED BY <1>5, <1>6, <1>8 DEF StitchInv

----------------------------------------------------------------------------
LEMMA StitchNextInv == StitchInv /\ [StitchNext]_stitchVars => StitchInv'
<1> SUFFICES ASSUME StitchInv, [StitchNext]_stitchVars PROVE StitchInv'
  OBVIOUS
<1>1. CASE \E e \in Entry : Persist(e)
  BY <1>1, PersistInv
<1>2. CASE Apply
  BY <1>2, ApplyInv
<1>3. CASE TickerFires
  BY <1>3, TickerFiresInv
<1>4. CASE EvictExpired
  BY <1>4, EvictExpiredInv
<1>5. CASE evictExpiredTransactions
  BY <1>5, SweepInv
<1>6. CASE Crash
  BY <1>6, CrashInv
<1>7. CASE TimePasses
  BY <1>7, TimePassesInv
<1>8. CASE UNCHANGED stitchVars
  <2>1. UNCHANGED <<entries, rows, queues, stdout, spc, tick>>
    BY <1>8 DEF stitchVars
  <2>2. Given' = Given
    BY <2>1 DEF Given
  <2>3. RowsInv' /\ MemoryInv'
    BY <2>1, <2>2, SameLinesSameLog, LessHeld DEF StitchInv
  <2> QED BY <2>1, <2>3 DEF StitchInv, StitchTypes
<1> QED BY <1>1, <1>2, <1>3, <1>4, <1>5, <1>6, <1>7, <1>8 DEF StitchNext

(* The inductive invariant holds: each line the collector persisted is where  *)
(* it belongs in mail_transactions, and in the stitcher's memory, on stdout   *)
(* or in neither, never in both.                                              *)
THEOREM StitchCorrect == StitchSpec => []StitchInv
<1>1. StitchInit => StitchInv
  BY StitchInitInv
<1>2. StitchInv /\ [StitchNext]_stitchVars => StitchInv'
  BY StitchNextInv
<1> QED BY <1>1, <1>2, PTL DEF StitchSpec

(* Through restarts and timeouts the rows of a Queue ID hold exactly its      *)
(* lines, in log order (mergeMailTransaction).                                *)
THEOREM RowsKeepTheLog == StitchSpec => []RowsHoldTheLog
<1>1. StitchInv => RowsHoldTheLog
  BY DEF StitchInv, RowsInv
<1> QED BY <1>1, StitchCorrect, PTL

(* The unique index on the active row of a Queue ID never refuses a line: at  *)
(* most the newest row of a Queue ID is active.                               *)
THEOREM AtMostOneActive == StitchSpec => []OnlyNewestActive
<1>1. StitchInv => OnlyNewestActive
  BY DEF StitchInv, RowsInv
<1> QED BY <1>1, StitchCorrect, PTL

(* No line is encoded to stdout twice, whatever the order of deliveries,      *)
(* evictions and restarts.                                                    *)
THEOREM LinesEmittedOnce == StitchSpec => []EmittedOnce
<1>1. StitchInv => EmittedOnce
  BY DEF StitchInv, MemoryInv
<1> QED BY <1>1, StitchCorrect, PTL

(* A closed transaction is final: mergeMailTransaction takes only active rows *)
(* and the sweep leaves closed ones alone.                                    *)
THEOREM ClosedIsFinal == StitchSpec => ClosedRowsFrozen
<1> DEFINE Frozen == \A i \in 1..Len(rows) : rows[i].terminal => rows'[i] = rows[i]
<1>1. StitchInv /\ [StitchNext]_stitchVars => [Frozen]_stitchVars
  <2> SUFFICES ASSUME StitchInv, StitchNext PROVE Frozen
    OBVIOUS
  <2>1. rows \in Seq(Row) /\ OnlyNewestActive /\ StitchTypes
    BY DEF StitchInv, StitchTypes, RowsInv
  <2>2. ASSUME NEW e \in Entry, Persist(e) PROVE Frozen
    <3>1. mergeMailTransaction(e, Len(entries) + 1) /\ Len(entries) + 1 \in Nat
      BY <2>1, <2>2 DEF Persist, StitchTypes
    <3>2. CASE rows' = rows
      BY <3>2
    <3>3. CASE NewRow(e, Len(entries) + 1)
      BY <2>1, <3>3 DEF NewRow
    <3>4. CASE RowTakesLine(e, Len(entries) + 1)
      BY <2>1, <3>4 DEF RowTakesLine, Active
    <3> QED BY <2>1, <3>1, <3>2, <3>3, <3>4, MergeEffects
  <2>3. CASE Apply \/ TickerFires \/ EvictExpired \/ Crash
    BY <2>3 DEF Apply, TickerFires, EvictExpired, Crash
  <2>4. CASE evictExpiredTransactions
    BY <2>4, SweepEffects DEF Expired
  <2>5. CASE TimePasses
    BY <2>5, ClockEffects
  <2> QED BY <2>2, <2>3, <2>4, <2>5 DEF StitchNext
<1>2. StitchSpec => [][Frozen]_stitchVars
  BY <1>1, StitchCorrect, PTL DEF StitchSpec
<1> QED BY <1>2 DEF ClosedRowsFrozen

(* A transaction times out only after a whole QueueIdleTimeout without a line *)
(* of it, also when the tick had to wait for the collector.                   *)
THEOREM OnlyIdleTimesOut == StitchSpec => OnlyIdleEvicted
<1> DEFINE RowsWereIdle == \A i \in 1..Len(rows) :
               rows'[i].timedOut /\ ~rows[i].timedOut => rows[i].age > Idle
           QueuesWereIdle == \A i \in (Len(stdout) + 1)..Len(stdout') :
               stdout'[i].timedOut => queues[stdout'[i].qid].age >= Idle
<1>1. StitchInv /\ [StitchNext]_stitchVars => [RowsWereIdle /\ QueuesWereIdle]_stitchVars
  <2> SUFFICES ASSUME StitchInv, StitchNext PROVE RowsWereIdle /\ QueuesWereIdle
    OBVIOUS
  <2>1. /\ rows \in Seq(Row) /\ stdout \in Seq(Output) /\ queues \in [QueueIDs -> Queue]
        /\ OnlyNewestActive /\ StitchTypes /\ tick \in Nat
    BY StitchConstants DEF StitchInv, StitchTypes, RowsInv
  <2>2. UNCHANGED stdout => QueuesWereIdle
    BY <2>1
  <2>3. ASSUME NEW e \in Entry, Persist(e) PROVE RowsWereIdle
    <3>1. mergeMailTransaction(e, Len(entries) + 1) /\ Len(entries) + 1 \in Nat
      BY <2>1, <2>3 DEF Persist, StitchTypes
    <3>2. CASE rows' = rows
      BY <3>2
    <3>3. CASE NewRow(e, Len(entries) + 1)
      BY <2>1, <3>3 DEF NewRow
    <3>4. CASE RowTakesLine(e, Len(entries) + 1)
      BY <2>1, <3>4 DEF RowTakesLine
    <3> QED BY <2>1, <3>1, <3>2, <3>3, <3>4, MergeEffects
  <2>4. ASSUME Apply PROVE QueuesWereIdle
    <3>1. CASE UNCHANGED stdout
      BY <2>2, <3>1
    <3>2. CASE ~ UNCHANGED stdout
      <4>1. PICK o : ~o.timedOut /\ stdout' = Append(stdout, o)
        BY <2>4, <3>2 DEF Apply
      <4>2. \A i \in (Len(stdout) + 1)..Len(stdout') : stdout'[i] = o
        BY <2>1, <4>1
      <4> QED BY <4>1, <4>2
    <3> QED BY <3>1, <3>2
  <2>5. ASSUME EvictExpired PROVE QueuesWereIdle
    <3>1. \A q \in IdleQueues : queues[q].age >= Idle
      BY <2>1, StitchConstants DEF IdleQueues, Queue
    <3> QED BY <2>5, <3>1, EvictExpiredInv
  <2>6. ASSUME evictExpiredTransactions PROVE RowsWereIdle
    <3>1. \A i \in 1..Len(rows) : Expired(rows[i]) => rows[i].age > Idle
      BY <2>1, StitchConstants, RowFields DEF Expired
    <3> QED BY <2>6, <3>1, SweepEffects
  <2>7. ASSUME TimePasses PROVE RowsWereIdle
    BY <2>7, ClockEffects
  <2>8. UNCHANGED rows => RowsWereIdle
    OBVIOUS
  <2>9. CASE \E e \in Entry : Persist(e)
    BY <2>2, <2>3, <2>9 DEF Persist
  <2>10. CASE Apply
    BY <2>4, <2>8, <2>10 DEF Apply
  <2>11. CASE EvictExpired
    BY <2>5, <2>8, <2>11 DEF EvictExpired
  <2>12. CASE evictExpiredTransactions
    BY <2>2, <2>6, <2>12 DEF evictExpiredTransactions
  <2>13. CASE TimePasses
    BY <2>2, <2>7, <2>13 DEF TimePasses
  <2>14. CASE TickerFires \/ Crash
    BY <2>2, <2>8, <2>14 DEF TickerFires, Crash
  <2> QED BY <2>9, <2>10, <2>11, <2>12, <2>13, <2>14 DEF StitchNext
<1> QED BY <1>1, StitchCorrect, PTL DEF StitchSpec, OnlyIdleEvicted
=============================================================================
