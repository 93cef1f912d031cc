------------------------------ MODULE LineFeed ------------------------------
(* What both ingestors promise of a log, whatever happens inside them: its   *)
(* lines reach the database once each and in the order they were written.    *)
(* As long as nothing happens that may lose lines, none is skipped, torn or  *)
(* left behind; afterwards lines may be missing or torn, but a line that     *)
(* arrives is still later than all before it.                                *)
EXTENDS Naturals, Sequences

CONSTANTS
    MaxLog,    \* bound: lines ever written
    Refused    \* the lines the database never takes

VARIABLES
    written,   \* number of lines in the log
    ingested,  \* the lines taken over, by number; 0 is a torn one
    lossy      \* has something happened that may lose lines?

feedVars == <<written, ingested, lossy>>

FeedInit == written = 0 /\ ingested = <<>> /\ lossy \in BOOLEAN

AppendLine == written' = written + 1 /\ lossy' \in {lossy, TRUE} /\ UNCHANGED ingested

Disturbance == lossy' = TRUE /\ UNCHANGED <<written, ingested>>

Later(j) == \A i \in 1..Len(ingested) : ingested[i] < j

Ingest ==
    /\ \E j \in 0..written :
         /\ \/ ~lossy /\ j = Len(ingested) + 1
            \/ lossy /\ (j = 0 \/ Later(j))
         /\ ingested' = Append(ingested, j)
    /\ lossy' \in {lossy, TRUE}
    /\ UNCHANGED written

FeedNext == AppendLine \/ Disturbance \/ Ingest

(* Every line arrives unless something may have lost it, or a line that the  *)
(* database refuses stands before it.                                        *)
FeedLiveness ==
    \A n \in 1..MaxLog :
        written >= n ~> lossy \/ Len(ingested) >= n \/ \E m \in Refused : m <= n

FeedSpec == FeedInit /\ [][FeedNext]_feedVars /\ FeedLiveness
=============================================================================
