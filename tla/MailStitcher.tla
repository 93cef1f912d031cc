---------------------------- MODULE MailStitcher ----------------------------
(* Stitching of log lines into one transaction per Queue ID, which the       *)
(* collector does twice: durably in mail_transactions (mergeMailTransaction, *)
(* evictExpiredTransactions) and in memory for stdout (TransactionStitcher). *)
(* The two copies are updated one after the other, time their transactions   *)
(* out by different comparisons, and only one survives a restart.            *)
(*                                                                           *)
(* Time is kept as ages: how long ago a row or a queue was last touched.     *)
EXTENDS Naturals, Sequences, FiniteSets, SequencesExt

CONSTANTS
    QueueIDs,      \* the Queue IDs that occur
    NoQueue,       \* a line without one
    Idle,          \* QueueIdleTimeout in clock steps
    MaxStale,      \* bound: clock steps a tick may wait for the collector
    MaxEntries,    \* bound: lines ingested
    MaxCrashes     \* bound: runs that end early

ASSUME StitcherAssumption ==
    /\ Idle \in Nat \ {0} /\ MaxStale \in Nat /\ MaxEntries \in Nat /\ MaxCrashes \in Nat
    /\ NoQueue \notin QueueIDs /\ IsFiniteSet(QueueIDs)

VARIABLES
    entries,    \* the lines persisted, in order; a line is named by its place
    rows,       \* durable: mail_transactions by id
    queues,     \* TransactionStitcher.queues; an absent key has no lines
    stdout,     \* what was encoded to stdout
    spc,        \* where the collector is
    tick,       \* age of the tick waiting in evictionTicker.C, or NoTick
    crashes

stitchVars == <<entries, rows, queues, stdout, spc, tick, crashes>>

(* What a line says of its message: it opens it, defers or delivers it, or is *)
(* the closing line qmgr writes after the delivery.  "sent" stands for the     *)
(* two terminal statuses, "deferred" for every other one.                     *)
Kinds == {"open", "deferred", "sent", "removed"}
Entry == [qid : QueueIDs \cup {NoQueue}, kind : Kinds]
StatusOf(kind) == IF kind \in {"deferred", "sent"} THEN kind ELSE ""
isTerminalStatus(status) == status = "sent"

MaxAge == Idle + MaxStale + 1
NoTick == MaxStale + 1
NoLines == [lines |-> <<>>, status |-> "", age |-> 0]
Older(x) == [x EXCEPT !.age = IF @ < MaxAge THEN @ + 1 ELSE @]
Live(q) == queues[q].lines # <<>>
ActiveAny(i, q) == ~rows[i].terminal                             \* mutant
ActiveFresh(i, q) == rows[i].qid = q /\ ~rows[i].terminal /\ rows[i].age <= Idle   \* mutant
ActiveOrClosed(i, q) == rows[i].qid = q                          \* mutant
Active(i, q) == rows[i].qid = q /\ ~rows[i].terminal

(* A non-empty field of the line replaces the stored one.                     *)
Merged(old, new) == IF new # "" THEN new ELSE old

----------------------------------------------------------------------------
(* mergeMailTransaction: the newest active row of the Queue ID takes the      *)
(* line, or a new row starts with it.                                         *)
mergeMailTransaction(e, n) ==
    LET active == {i \in 1..Len(rows) : Active(i, e.qid)}
        status == StatusOf(e.kind)
        merge(row) == [row EXCEPT !.lines = Append(@, n),
                                  !.status = Merged(@, status),
                                  !.terminal = @ \/ isTerminalStatus(status),
                                  !.age = 0]
        fresh == [qid |-> e.qid, lines |-> <<n>>, status |-> status,
                  terminal |-> isTerminalStatus(status), timedOut |-> FALSE, age |-> 0]
    IN IF e.qid = NoQueue THEN rows' = rows
       ELSE IF active = {} THEN rows' = Append(rows, fresh)
       ELSE rows' = [rows EXCEPT ![CHOOSE i \in active : \A j \in active : j <= i] = merge(@)]

(* persistMailLogRecord commits a parsed line.  The mail system ends a        *)
(* message with one "removed" line, after the others.                         *)
Persist(e) ==
    /\ spc = "select" /\ Len(entries) < MaxEntries
    /\ e.kind = "removed" =>
         \E i \in 1..Len(entries) :
            /\ entries[i].qid = e.qid /\ entries[i].kind # "removed"
            /\ \A j \in i..Len(entries) :
                 ~(entries[j].qid = e.qid /\ entries[j].kind = "removed")
    /\ entries' = Append(entries, e)
    /\ mergeMailTransaction(e, Len(entries) + 1)
    /\ spc' = "apply"
    /\ UNCHANGED <<queues, stdout, tick, crashes>>

(* delete(s.queues, ...) of the given Queue IDs.                              *)
KeepQueues(Q) == UNCHANGED queues                                \* mutant
DeleteQueues(Q) == queues' = [q \in QueueIDs |-> IF q \in Q THEN NoLines ELSE queues[q]]

(* TransactionStitcher.Apply and the encoding of a completed transaction.     *)
Apply ==
    LET n == Len(entries)
        e == entries[n]
        old == queues[e.qid]
        tx == [lines |-> Append(old.lines, n),
               status |-> Merged(old.status, StatusOf(e.kind)), age |-> 0]
    IN /\ spc = "apply"
       /\ \/ /\ e.qid = NoQueue
             /\ UNCHANGED <<queues, stdout>>
          \/ /\ e.qid # NoQueue /\ ~isTerminalStatus(tx.status)
             /\ queues' = [queues EXCEPT ![e.qid] = tx]
             /\ UNCHANGED stdout
          \/ /\ e.qid # NoQueue /\ isTerminalStatus(tx.status)
             /\ DeleteQueues({e.qid})
             /\ stdout' = Append(stdout, [qid |-> e.qid, lines |-> tx.lines, timedOut |-> FALSE])
       /\ spc' = "select"
       /\ UNCHANGED <<entries, rows, tick, crashes>>

(* The ticker; a tick nobody has taken yet is not replaced.                   *)
TickerFires ==
    /\ tick = NoTick
    /\ tick' = 0
    /\ UNCHANGED <<entries, rows, queues, stdout, spc, crashes>>

(* The collector takes the tick: EvictExpired drops and encodes the queues    *)
(* idle for at least the timeout at the time of the tick ...                  *)
StatusQueues ==                                                  \* mutant
    {q \in QueueIDs : Live(q) /\ queues[q].status # "" /\ queues[q].age >= Idle + tick}
IdleQueues == {q \in QueueIDs : Live(q) /\ queues[q].age >= Idle + tick}

EvictExpired ==
    LET Out(q) == [qid |-> q, lines |-> queues[q].lines, timedOut |-> TRUE]
    IN /\ spc = "select" /\ tick # NoTick
       /\ DeleteQueues(IdleQueues)
       /\ stdout' = stdout \o SetToSeq({Out(q) : q \in IdleQueues})
       /\ spc' = "evict"
       /\ UNCHANGED <<entries, rows, tick, crashes>>

(* ... and evictExpiredTransactions closes the rows idle for longer than it.  *)
StatusExpired(row) ==                                            \* mutant
    ~row.terminal /\ row.status = "" /\ row.age > Idle + tick
TickAgeAdded(row) == ~row.terminal /\ row.age + tick > Idle      \* mutant
Expired(row) == ~row.terminal /\ row.age > Idle + tick

evictExpiredTransactions ==
    LET Close(row) == [row EXCEPT !.terminal = TRUE, !.timedOut = TRUE, !.age = 0,
                                  !.status = IF @ = "" THEN "timed_out" ELSE @]
    IN /\ spc = "evict"
       /\ rows' = [i \in 1..Len(rows) |-> IF Expired(rows[i]) THEN Close(rows[i]) ELSE rows[i]]
       /\ spc' = "select" /\ tick' = NoTick
       /\ UNCHANGED <<entries, queues, stdout, crashes>>

(* A run ends early and the next begins: memory is empty, the rows stay.      *)
Crash ==
    /\ crashes < MaxCrashes
    /\ crashes' = crashes + 1
    /\ queues' = [q \in QueueIDs |-> NoLines]
    /\ spc' = "select" /\ tick' = NoTick
    /\ UNCHANGED <<entries, rows, stdout>>

(* A clock step.  updated_at of closed rows is of no further use.             *)
TimePasses ==
    /\ tick = NoTick \/ tick < MaxStale
    /\ rows' = [i \in 1..Len(rows) |-> IF rows[i].terminal THEN rows[i] ELSE Older(rows[i])]
    /\ queues' = [q \in QueueIDs |-> IF Live(q) THEN Older(queues[q]) ELSE queues[q]]
    /\ tick' = IF tick = NoTick THEN tick ELSE tick + 1
    /\ UNCHANGED <<entries, stdout, spc, crashes>>

StitchInit ==
    /\ entries = <<>> /\ rows = <<>> /\ stdout = <<>>
    /\ queues = [q \in QueueIDs |-> NoLines]
    /\ spc = "select" /\ tick = NoTick /\ crashes = 0

StitchNext ==
    \/ \E e \in Entry : Persist(e)
    \/ Apply \/ TickerFires \/ EvictExpired \/ evictExpiredTransactions
    \/ Crash \/ TimePasses

(* The collector keeps running, its select takes a waiting tick, and the      *)
(* clock and the ticker go on.  Lines need not arrive.                        *)
StitchFairness ==
    /\ WF_stitchVars(Apply) /\ WF_stitchVars(TickerFires) /\ WF_stitchVars(EvictExpired)
    /\ WF_stitchVars(evictExpiredTransactions) /\ WF_stitchVars(TimePasses)

StitchSpec == StitchInit /\ [][StitchNext]_stitchVars /\ StitchFairness

----------------------------------------------------------------------------
(* Properties.                                                               *)

(* "stitching resumes correctly after a restart" (README): through restarts   *)
(* and timeouts, the rows of a Queue ID, oldest first, hold exactly its lines *)
(* in log order: none lost, none given to another message, none doubled or    *)
(* out of order.                                                              *)
NoLineLost ==
    \A n \in 1..Len(entries) : entries[n].qid # NoQueue =>
        \E i \in 1..Len(rows) : \E k \in 1..Len(rows[i].lines) : rows[i].lines[k] = n
NoLineStrayed ==
    \A i \in 1..Len(rows) : \A k \in 1..Len(rows[i].lines) :
        /\ rows[i].lines[k] \in 1..Len(entries)
        /\ entries[rows[i].lines[k]].qid = rows[i].qid
LinesInOrder ==
    \A i, j \in 1..Len(rows) : rows[i].qid = rows[j].qid =>
        \A k \in 1..Len(rows[i].lines) : \A m \in 1..Len(rows[j].lines) :
            i < j \/ (i = j /\ k < m) => rows[i].lines[k] < rows[j].lines[m]
RowsHoldTheLog == NoLineLost /\ NoLineStrayed /\ LinesInOrder

(* A Queue ID never has two active rows, and only its newest can be active:   *)
(* what the unique index idx_mail_transactions_active_queue would refuse, and *)
(* with it every later line of that Queue ID.                                 *)
OnlyNewestActive ==
    \A i, j \in 1..Len(rows) : i < j /\ rows[i].qid = rows[j].qid => rows[i].terminal

(* A line reaches stdout at most once, also around timeouts and restarts.     *)
EmittedOnce ==
    \A i, j \in 1..Len(stdout) :
        i # j => \A k \in 1..Len(stdout[i].lines) : \A m \in 1..Len(stdout[j].lines) :
                    stdout[i].lines[k] # stdout[j].lines[m]

(* A closed transaction is final: a late line never reopens or alters it.     *)
ClosedRowsFrozen ==
    [][\A i \in 1..Len(rows) : rows[i].terminal => rows'[i] = rows[i]]_stitchVars

(* Only idle transactions time out: a row or a queue is evicted only after a   *)
(* whole QueueIdleTimeout without a line of it, though a tick may have waited   *)
(* for the collector while lines went on arriving.                             *)
OnlyIdleEvicted ==
    [][/\ \A i \in 1..Len(rows) :
            rows'[i].timedOut /\ ~rows[i].timedOut => rows[i].age > Idle
       /\ \A i \in (Len(stdout) + 1)..Len(stdout') :
            stdout'[i].timedOut => queues[stdout'[i].qid].age >= Idle]_stitchVars

(* No message stays in flight for ever on the dashboard: once lines stop      *)
(* arriving (MaxEntries) all rows get closed, by a delivery or by the sweep   *)
(* of evictExpiredTransactions, also when the run that wrote them is gone.    *)
EveryRowCloses == []<>(\A i \in 1..Len(rows) : rows[i].terminal)

Emitted(n) == \E i \in 1..Len(stdout) : \E k \in 1..Len(stdout[i].lines) : stdout[i].lines[k] = n

(* "Completed and timed-out stitched transactions are JSON-encoded to stdout" *)
(* (README): every line that has a Queue ID gets there, unless a restart       *)
(* empties the stitcher first (NewTransactionStitcher).                       *)
EveryLineEmitted ==
    []<>(\/ crashes > 0
         \/ \A n \in 1..Len(entries) : entries[n].qid # NoQueue => Emitted(n))

(* "/api/logs returns stitched Queue ID transactions rather than fragmented   *)
(* source lines" (README.md:168): no row consists of the closing line alone.  *)
NoFragmentRows ==
    \A i \in 1..Len(rows) : \E k \in 1..Len(rows[i].lines) :
        entries[rows[i].lines[k]].kind # "removed"
=============================================================================
