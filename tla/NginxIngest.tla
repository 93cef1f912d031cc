---------------------------- MODULE NginxIngest ----------------------------
(* The access log pipeline: runNginxSecurityIngestorWithRetry around         *)
(* RunNginxSecurityIngestor (main.go, nginx_security.go), composed of the    *)
(* follower and the detection.  One loop takes the follower's records and    *)
(* applies each, with its checkpoint, in one transaction; nothing in the     *)
(* tables would notice an event applied twice.  An error ends the run, and   *)
(* five seconds later the next one starts from the durable checkpoint.       *)
EXTENDS LogFollower, NginxDetection

CONSTANTS
    Unparsed,   \* the lines ParseNginxLine rejects
    Refused,    \* the lines whose event PostgreSQL refuses every time
    Missing     \* the lines that report a 404; the others report a 401

ASSUME NginxAssumption ==
    /\ Unparsed \subseteq 1..MaxLines /\ Missing \subseteq 1..MaxLines
    /\ Refused \subseteq (1..MaxLines) \ Unparsed
    /\ IPs # {} /\ MaxEvents >= MaxLines

VARIABLES
    running,         \* is RunNginxSecurityIngestor running?
    nginxCheckpoint, \* durable: the row "nginx-security:<path>" of ingest_state
    applied          \* history: the records whose transaction committed

durableVars == <<nginxCheckpoint, applied, detectVars>>
nginxVars == <<followerVars, running, durableVars>>

(* What ParseNginxLine makes of a line: all come from one client.             *)
Client == CHOOSE ip \in IPs : TRUE
Parsed(r) == LineOf(r) # 0 /\ LineOf(r) \notin Unparsed
EventOf(l) == [ip |-> Client, status |-> IF l \in Missing THEN NotFound ELSE 401,
               ignored |-> FALSE, ts |-> 0]

(* PostgreSQL refuses the row of an event whose path or raw line is no UTF-8: *)
(* the path is percent-decoded, and bytes of the line are kept as they are.   *)
RowRefused(r) == LineOf(r) \in Refused

----------------------------------------------------------------------------
(* The retry loop starts a run.                                               *)
Start ==
    /\ ~running
    /\ running' = TRUE
    /\ UNCHANGED <<followerVars, durableVars>>

(* The run is over.  Its channel is gone; after a failed transaction its      *)
(* follower is not cancelled, and stays blocked on the channel nobody reads.  *)
Stop ==
    /\ running' = FALSE
    /\ StopFollower
    /\ records' = <<>>

Follow ==
    /\ running
    /\ FollowOpen(nginxCheckpoint) \/ FollowStep
    /\ UNCHANGED <<running, durableVars>>

FollowFails == running /\ FollowError /\ UNCHANGED <<running, durableVars>>

(* persistNginxEvent's transaction: the event, if the line has one and        *)
(* PostgreSQL takes its row, and the checkpoint.                              *)
CheckpointBefore(r) ==                                            \* mutant
    [inode |-> r.Inode, offset |-> r.Offset - Len(r.Text) - 1]
CheckpointOf(r) == [inode |-> r.Inode, offset |-> r.Offset]

Apply(r) ==
    /\ ~RowRefused(r)
    /\ \/ Parsed(r) /\ persistNginxEvent(EventOf(LineOf(r)))
       \/ ~Parsed(r) /\ UNCHANGED detectVars
    /\ nginxCheckpoint' = CheckpointOf(r)
    /\ applied' = Append(applied, r)

(* The select takes a record, and its transaction commits.                    *)
Persist ==
    /\ running /\ records # <<>>
    /\ Apply(Head(records))
    /\ records' = Tail(records)
    /\ UNCHANGED <<logVars, faults, followVars, running>>

(* The transaction commits but its answer is lost: the run ends.              *)
PersistThenFail ==
    /\ running /\ records # <<>> /\ faults < MaxFaults
    /\ faults' = faults + 1
    /\ Apply(Head(records))
    /\ UNCHANGED logVars
    /\ Stop

(* PostgreSQL refuses the row: the transaction rolls back and the run ends,   *)
(* as the next one will at the same line.                                     *)
PersistRefused ==
    /\ running /\ records # <<>> /\ RowRefused(Head(records))
    /\ UNCHANGED <<logVars, faults, durableVars>>
    /\ Stop

(* The transaction rolls back and the run ends, or the process dies.          *)
Fails ==
    /\ running /\ faults < MaxFaults
    /\ faults' = faults + 1
    /\ UNCHANGED <<logVars, durableVars>>
    /\ Stop

(* The select takes the follower's error, possibly before its last records.   *)
FollowErrorSeen ==
    /\ running /\ fpc = "failed"
    /\ UNCHANGED <<logVars, faults, durableVars>>
    /\ Stop

LogMoves == Environment /\ UNCHANGED <<running, durableVars>>

NginxInit ==
    /\ FollowerInit /\ DetectInit
    /\ running = FALSE /\ nginxCheckpoint = NoCheckpoint /\ applied = <<>>

NginxNext ==
    \/ LogMoves \/ Start \/ Follow \/ FollowFails
    \/ Persist \/ PersistRefused \/ PersistThenFail \/ Fails \/ FollowErrorSeen

(* The goroutines keep running; nginx finishes its line and reopens its log,  *)
(* and logrotate creates the file it renamed.                                 *)
NginxFairness ==
    /\ WF_nginxVars(Start) /\ WF_nginxVars(Follow)
    /\ WF_nginxVars(Persist \/ PersistRefused) /\ WF_nginxVars(FollowErrorSeen)
    /\ WF_nginxVars(todo # <<>> /\ Write /\ UNCHANGED <<running, durableVars>>)
    /\ WF_nginxVars(Create /\ UNCHANGED <<running, durableVars>>)
    /\ WF_nginxVars(WriterReopen /\ UNCHANGED <<running, durableVars>>)

NginxSpec == NginxInit /\ [][NginxNext]_nginxVars /\ NginxFairness

----------------------------------------------------------------------------
(* Properties.                                                               *)

Feed == INSTANCE LineFeed WITH
    MaxLog <- MaxLines, Refused <- Refused,
    written <- Completed,
    ingested <- [i \in 1..Len(applied) |-> LineOf(applied[i])],
    lossy <- MayLose

(* "drains rotated descriptors" (README): each line of the access log is      *)
(* applied once, in order, whole, and eventually, through rotations, I/O      *)
(* errors, failed transactions and lost COMMIT answers, up to the first line  *)
(* whose row is refused: no line behind that one is ever applied.             *)
NginxImplementsLineFeed == Feed!FeedSpec

(* The lines nginx has finished that report this status.                      *)
Reported(status) ==
    {l \in (1..Completed) \ Unparsed : EventOf(l).status = status}

(* Nobody is accused of more than the access log shows: no restart, retry or  *)
(* rotation makes detection count a line twice, though the tables would take  *)
(* the same event again (db.go drops the uniqueness of raw_hash).             *)
NoInventedAttempts ==
    /\ detection[Client].consecutive <= Cardinality(Reported(NotFound))
    /\ offenders[Client].attempts <=
         Cardinality(Reported(IF offenders[Client].reason = "consecutive_404"
                              THEN NotFound ELSE 401))

(* A scan in the log is flagged in the end: threshold 404s in a row, in one   *)
(* second, unless lines may have been lost or a row is refused on the way.    *)
ScanFlaggedInTheEnd ==
    \A k \in Threshold404..MaxLines :
        (k <= Completed /\ (k - Threshold404 + 1)..k \subseteq Missing \ Unparsed)
            ~> \/ MayLose \/ \E l \in Refused : l <= k
               \/ offenders[Client].attempts >= Threshold404
=============================================================================
