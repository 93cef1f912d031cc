----------------------------- MODULE MailIngest -----------------------------
(* The mail log pipeline: runMailLogIngestorWithRetry around                 *)
(* RunMailLogIngestor (main.go, continuous_ingest.go).  The follower feeds a *)
(* channel of records, parser workers take them concurrently and put them on *)
(* a second channel, and the collector puts them back in source order and    *)
(* persists each with its checkpoint in one transaction.  Any error ends the *)
(* run, whose goroutines stop and whose channels are dropped; five seconds   *)
(* later the next run starts from the durable checkpoint.                    *)
EXTENDS LogFollower

CONSTANTS
    Workers,     \* the ProcessingWorkers goroutines
    ParsedCap,   \* capacity of the parsedRecords channel (1024 in the code)
    Malformed,   \* the lines ParseLine rejects
    Refused      \* the lines whose row PostgreSQL refuses every time

ASSUME IngestAssumption ==
    /\ ParsedCap \in Nat \ {0}
    /\ Malformed \subseteq 1..MaxLines /\ Refused \subseteq 1..MaxLines

VARIABLES
    up,             \* is RunMailLogIngestor running?
    checkpoint,     \* durable: the row of ingest_state
    entries,        \* durable: maillog_entries, the raw lines stored
    committed,      \* history: the records whose transaction committed
    base,           \* history: Len(committed) when this run started
    parsing,        \* worker -> the record it holds, if any
    parsedRecords,  \* the channel to the collector
    pending,        \* local of the collector: records that came too early
    nextSequence,   \* local of the collector
    cpc             \* where the collector is

durableVars == <<checkpoint, entries, committed>>
collectVars == <<parsedRecords, pending, nextSequence, cpc>>
pipelineVars == <<up, durableVars, base, parsing, collectVars>>
ingestVars == <<followerVars, pipelineVars>>

(* ParseLine accepts a whole, well-formed line.                               *)
ParseLine(text) == \E l \in (1..MaxLines) \ Malformed : text = Body(l)

(* PostgreSQL refuses the row of an entry it cannot represent: a size beyond  *)
(* INTEGER, a byte sequence that is no UTF-8.                                 *)
RowRefused(r) == ParseLine(r.Text) /\ \E l \in Refused : r.Text = Body(l)

----------------------------------------------------------------------------
(* RunMailLogIngestor returns or the process dies: locals, channels and       *)
(* goroutines are gone, PostgreSQL stays.                                     *)
Stop ==
    /\ up' = FALSE
    /\ StopFollower
    /\ records' = <<>> /\ parsing' = [w \in Workers |-> {}]
    /\ parsedRecords' = <<>> /\ pending' = {} /\ nextSequence' = 0 /\ cpc' = "select"
    /\ base' = Len(committed')

(* The retry loop starts a run.                                               *)
Start ==
    /\ ~up
    /\ up' = TRUE
    /\ UNCHANGED <<followerVars, durableVars, base, parsing, collectVars>>

(* The follower goroutine, started from the checkpoint getIngestState loaded. *)
Follow ==
    /\ up
    /\ FollowOpen(checkpoint) \/ FollowStep
    /\ UNCHANGED pipelineVars

FollowFails == up /\ FollowError /\ UNCHANGED pipelineVars

(* parseMailLogRecords takes a record ...                                     *)
TakeRecord(w) ==
    /\ up /\ parsing[w] = {} /\ records # <<>>
    /\ parsing' = [parsing EXCEPT ![w] = {Head(records)}]
    /\ records' = Tail(records)
    /\ UNCHANGED <<logVars, faults, followVars, up, durableVars, base, collectVars>>

(* ... and hands it on parsed, blocking while the channel is full.            *)
PutParsed(w) ==
    /\ up /\ Len(parsedRecords) < ParsedCap
    /\ \E r \in parsing[w] : parsedRecords' = Append(parsedRecords, r)
    /\ parsing' = [parsing EXCEPT ![w] = {}]
    /\ UNCHANGED <<followerVars, up, durableVars, base, pending, nextSequence, cpc>>

(* The collector receives a record into pending.                              *)
Collect ==
    /\ up /\ cpc = "select" /\ parsedRecords # <<>>
    /\ pending' = pending \cup {Head(parsedRecords)}
    /\ parsedRecords' = Tail(parsedRecords)
    /\ cpc' = "drain"
    /\ UNCHANGED <<followerVars, up, durableVars, base, parsing, nextSequence>>

(* persistMailLogRecord: the raw entry (ON CONFLICT DO NOTHING) and the       *)
(* checkpoint, in one transaction.  A malformed line only moves the           *)
(* checkpoint.                                                                *)
BeforeNewline(r) == [inode |-> r.Inode, offset |-> r.Offset - 1]  \* mutant
KeptIfMalformed(r) ==                                            \* mutant
    IF ParseLine(r.Text) THEN [inode |-> r.Inode, offset |-> r.Offset] ELSE checkpoint
CheckpointAfter(r) == [inode |-> r.Inode, offset |-> r.Offset]

persistMailLogRecord(r) ==
    /\ entries' = IF ParseLine(r.Text) THEN entries \cup {r.Text} ELSE entries
    /\ checkpoint' = CheckpointAfter(r)
    /\ committed' = Append(committed, r)

(* The drain loop: pending[nextSequence] is processed ...                     *)
AnyOrder(r) == TRUE                                              \* mutant
Due(r) == r.Sequence = nextSequence

Commit ==
    /\ up /\ cpc = "drain"
    /\ \E r \in pending :
         /\ Due(r) /\ ~RowRefused(r)
         /\ persistMailLogRecord(r)
         /\ pending' = pending \ {r}
    /\ nextSequence' = nextSequence + 1
    /\ UNCHANGED <<followerVars, up, base, parsing, parsedRecords, cpc>>

(* ... until the next record is not there.                                    *)
DrainDone ==
    /\ up /\ cpc = "drain"
    /\ \A r \in pending : ~Due(r)
    /\ cpc' = "select"
    /\ UNCHANGED <<followerVars, up, durableVars, base, parsing, parsedRecords, pending, nextSequence>>

(* PostgreSQL refuses the row: the transaction rolls back, the run ends.      *)
CommitRefused ==
    /\ up /\ cpc = "drain"
    /\ \E r \in pending : Due(r) /\ RowRefused(r)
    /\ UNCHANGED <<logVars, faults, durableVars>>
    /\ Stop

(* The transaction is durable but the run still ends: the answer to COMMIT is *)
(* lost, or stdout.Encode fails after it.                                     *)
CommitThenFail ==
    /\ up /\ cpc = "drain" /\ faults < MaxFaults
    /\ faults' = faults + 1
    /\ \E r \in pending :
         Due(r) /\ ~RowRefused(r) /\ persistMailLogRecord(r)
    /\ UNCHANGED logVars
    /\ Stop

(* The collector's select sees the follower's error, possibly with records    *)
(* still in the channels.                                                     *)
FollowErrorReported ==
    /\ up /\ cpc = "select" /\ fpc = "failed"
    /\ UNCHANGED <<logVars, faults, durableVars>>
    /\ Stop

(* A crash, or a database error that rolls back, at any moment.               *)
Crash ==
    /\ up /\ faults < MaxFaults
    /\ faults' = faults + 1
    /\ UNCHANGED <<logVars, durableVars>>
    /\ Stop

LogMoves == Environment /\ UNCHANGED pipelineVars

IngestInit ==
    /\ FollowerInit
    /\ up = FALSE
    /\ checkpoint = NoCheckpoint /\ entries = {} /\ committed = <<>> /\ base = 0
    /\ parsing = [w \in Workers |-> {}]
    /\ parsedRecords = <<>> /\ pending = {} /\ nextSequence = 0 /\ cpc = "select"

IngestNext ==
    \/ LogMoves \/ Start \/ Follow \/ FollowFails
    \/ \E w \in Workers : TakeRecord(w) \/ PutParsed(w)
    \/ Collect \/ Commit \/ DrainDone
    \/ CommitRefused \/ CommitThenFail \/ FollowErrorReported \/ Crash

(* Every goroutine keeps running; the daemon finishes its line and reopens    *)
(* its log, and logrotate creates the file it renamed.                        *)
IngestFairness ==
    /\ WF_ingestVars(Start)
    /\ WF_ingestVars(Follow)
    /\ WF_ingestVars(FollowErrorReported)
    /\ \A w \in Workers : WF_ingestVars(TakeRecord(w)) /\ WF_ingestVars(PutParsed(w))
    /\ WF_ingestVars(Collect \/ Commit \/ DrainDone \/ CommitRefused)
    /\ WF_ingestVars(todo # <<>> /\ Write /\ UNCHANGED pipelineVars)
    /\ WF_ingestVars(Create /\ UNCHANGED pipelineVars)
    /\ WF_ingestVars(WriterReopen /\ UNCHANGED pipelineVars)

IngestSpec == IngestInit /\ [][IngestNext]_ingestVars /\ IngestFairness

----------------------------------------------------------------------------
(* Properties.                                                               *)

(* Types: records, checkpoints and channels hold what the code declares.       *)
IngestTypeOK ==
    /\ FollowerTypeOK
    /\ up \in BOOLEAN
    /\ checkpoint \in Checkpoint /\ entries \subseteq Seq(Units)
    /\ committed \in Seq(lineRecord) /\ base \in Nat
    /\ parsing \in [Workers -> SUBSET lineRecord]
    /\ parsedRecords \in Seq(lineRecord) /\ pending \subseteq lineRecord
    /\ nextSequence \in Nat /\ cpc \in {"select", "drain"}

(* "checkpoint commits remain in source-file order" (README): whatever order  *)
(* the workers finish in, what this run has committed is exactly the first    *)
(* nextSequence records the follower cut, in that order.                      *)
InSourceOrder ==
    /\ Len(committed) = base + nextSequence
    /\ nextSequence <= Len(cut)
    /\ \A i \in 1..nextSequence : committed[base + i] = cut[i]

Elems(s) == {s[i] : i \in 1..Len(s)}
Sending == IF fpc = "send" THEN {cut[Len(cut)]} ELSE {}
Parsing == UNION {parsing[w] : w \in Workers}
InFlight == Sending \cup Elems(records) \cup Parsing \cup Elems(parsedRecords) \cup pending

(* No record is dropped on its way through channels, workers and the pending  *)
(* map: each one cut and not yet committed is held by someone who will pass   *)
(* it on, so the collector never waits for a lost sequence number.            *)
NoneLost ==
    \A s \in nextSequence..(Len(cut) - 1) : \E r \in InFlight : r = cut[s + 1]

(* A restart resumes where the last committed line ends: without truncation   *)
(* the checkpoint is always at a line's end in the file it names.             *)
CheckpointResumable ==
    truncations = 0 /\ checkpoint.inode # NoFile =>
        /\ checkpoint.offset \in 1..Len(files[checkpoint.inode])
        /\ files[checkpoint.inode][checkpoint.offset] = NL

(* "stores the processed byte-offset and inode transactionally" (README): the *)
(* checkpoint moves with every line committed, malformed ones too, and never  *)
(* back, neither in a file nor to an older file, also when a run is retried.  *)
(* Only a truncation brings it back.                                          *)
CheckpointAdvances ==
    [][truncations = 0 /\ <<checkpoint, committed>>' # <<checkpoint, committed>> =>
          \/ checkpoint'.inode > checkpoint.inode
          \/ checkpoint'.inode = checkpoint.inode /\ checkpoint'.offset > checkpoint.offset]_ingestVars

Feed == INSTANCE LineFeed WITH
    MaxLog <- MaxLines, Refused <- Refused \ Malformed,
    written <- Completed,
    ingested <- [i \in 1..Len(committed) |-> LineOf(committed[i])],
    lossy <- MayLose

(* The pipeline implements LineFeed, through crashes, lost COMMIT answers,    *)
(* rotations, truncations and refused rows: lines are committed once each, in *)
(* the order they were written, and, while nothing may lose them, whole and   *)
(* every one of them eventually.                                              *)
ImplementsLineFeed == Feed!FeedSpec

(* "Continuous ingest drains rotated descriptors" (README.md:176): across      *)
(* orderly rotations every line the daemon finishes is stored eventually, if  *)
(* it is well-formed and PostgreSQL can hold it.                              *)
EveryLineStored ==
    \A l \in (1..MaxLines) \ (Malformed \cup Refused) :
        orderly /\ Completed >= l ~> Body(l) \in entries
=============================================================================
