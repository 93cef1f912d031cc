-------------------------- MODULE MailIngestProofs --------------------------
(* Theorems about the mail pipeline, for any number of lines, files, faults, *)
(* truncations and workers, any channel capacity and any drain timeout.      *)
EXTENDS MailIngest, FollowerProofs

----------------------------------------------------------------------------
(* The records in flight.                                                    *)

LEMMA ElemsAppend ==
    ASSUME NEW S, NEW s \in Seq(S), NEW x \in S
    PROVE  Elems(Append(s, x)) = Elems(s) \cup {x}
BY AppendProperties, LenProperties DEF Elems

LEMMA ElemsHeadTail ==
    ASSUME NEW S, NEW s \in Seq(S), s # <<>>
    PROVE  Elems(s) = {Head(s)} \cup Elems(Tail(s))
<1>1. Len(s) \in Nat \ {0} /\ Head(s) = s[1]
  BY EmptySeq, LenProperties
<1>2. /\ Len(Tail(s)) = Len(s) - 1
      /\ \A i \in 1..Len(Tail(s)) : Tail(s)[i] = s[i + 1]
  BY HeadTailProperties
<1>3. ASSUME NEW i \in 1..Len(s) PROVE s[i] \in {Head(s)} \cup Elems(Tail(s))
  <2>1. CASE i = 1
    BY <1>1, <2>1
  <2>2. CASE i # 1
    <3>1. i - 1 \in 1..Len(Tail(s)) /\ Tail(s)[i - 1] = s[i]
      BY <1>1, <1>2, <2>2
    <3> QED BY <3>1 DEF Elems
  <2> QED BY <2>1, <2>2
<1>4. \A i \in 1..Len(Tail(s)) : Tail(s)[i] \in Elems(s)
  BY <1>1, <1>2 DEF Elems
<1> QED BY <1>1, <1>3, <1>4 DEF Elems

(* A worker holds at most one record.                                         *)
OneEach == \A w \in Workers : \A r, q \in parsing[w] : r = q

(* Records are numbered by their place among the records cut.                 *)
NumberedByPlace == \A i \in 1..Len(cut) : cut[i].Sequence = i - 1

(* What is in flight is what was cut, under its own number: nobody forges,    *)
(* renumbers or keeps a record of an earlier run.                             *)
InFlightFromCut ==
    \A r \in InFlight : r.Sequence \in 0..(Len(cut) - 1) /\ r = cut[r.Sequence + 1]

IngestInv ==
    /\ FollowerInv /\ IngestTypeOK
    /\ OneEach /\ NumberedByPlace /\ InFlightFromCut
    /\ InSourceOrder /\ NoneLost

(* The four facts about records in flight, kept by every step that neither    *)
(* cuts nor commits one: it may only pass them on.                            *)
LEMMA PassedOn ==
    ASSUME IngestInv, UNCHANGED <<cut, committed, base, nextSequence>>, InFlight' = InFlight
    PROVE  (NumberedByPlace /\ InFlightFromCut /\ InSourceOrder /\ NoneLost)'
BY DEF IngestInv, NumberedByPlace, InFlightFromCut, InSourceOrder, NoneLost

LEMMA IngestInitInv == IngestInit => IngestInv
<1> SUFFICES ASSUME IngestInit PROVE IngestInv
  OBVIOUS
<1>1. FollowerInv
  BY FollowerInitInv DEF IngestInit
<1>2. \A S : <<>> \in Seq(S) /\ Len(<<>>) = 0
  BY EmptySeq
<1>3. IngestTypeOK
  <2>1. NoCheckpoint \in Checkpoint
    BY FollowerAssumption DEF NoCheckpoint, Checkpoint
  <2>2. parsing \in [Workers -> SUBSET lineRecord]
    BY DEF IngestInit
  <2> QED BY <1>1, <1>2, <2>1, <2>2 DEF IngestInit, IngestTypeOK, FollowerInv
<1>4. cut = <<>> /\ records = <<>> /\ fpc = "off"
  BY DEF IngestInit, FollowerInit, FollowInit
<1>5. InFlight = {}
  BY <1>2, <1>4 DEF IngestInit, InFlight, Sending, Parsing, Elems
<1> QED
  BY <1>1, <1>2, <1>3, <1>4, <1>5
  DEF IngestInit, IngestInv, OneEach, NumberedByPlace, InFlightFromCut, InSourceOrder, NoneLost

(* Whatever ends the run, the next one starts clean.                          *)
LEMMA StopInv ==
    ASSUME IngestInv, Stop, UNCHANGED logVars, faults' \in 0..MaxFaults,
           checkpoint' \in Checkpoint, entries' \subseteq Seq(Units),
           committed' \in Seq(lineRecord)
    PROVE  IngestInv'
<1>1. \A S : <<>> \in Seq(S) /\ Len(<<>>) = 0
  BY EmptySeq
<1>2. FollowerInv'
  <2>1. interrupted' \in BOOLEAN
    BY Zenon DEF Stop, StopFollower
  <2> QED
    BY <1>1, <2>1, FollowerAssumption
    DEF IngestInv, FollowerInv, FollowerTypeOK, Stop, StopFollower, logVars, NoFile
<1>3. Len(committed') \in Nat
  BY LenProperties
<1>4. IngestTypeOK'
  BY <1>1, <1>2, <1>3 DEF IngestTypeOK, FollowerInv, Stop, StopFollower
<1>5. (InFlight = {})'
  BY <1>1 DEF Stop, StopFollower, InFlight, Sending, Parsing, Elems
<1> QED
  BY <1>1, <1>2, <1>3, <1>4, <1>5
  DEF Stop, StopFollower, IngestInv, OneEach, NumberedByPlace, InFlightFromCut, InSourceOrder, NoneLost

----------------------------------------------------------------------------
(* One lemma per step of the pipeline.                                        *)

LEMMA LogMovesInv == IngestInv /\ LogMoves => IngestInv'
<1> SUFFICES ASSUME IngestInv, LogMoves PROVE IngestInv'
  OBVIOUS
<1>1. FollowerInv'
  BY EnvironmentInv DEF IngestInv, LogMoves
<1>2. UNCHANGED <<followVars, records, pipelineVars>>
  BY DEF LogMoves, Environment, Write, Rename, Create, WriterReopen, Truncate
<1>3. UNCHANGED <<cut, fpc, records, up, checkpoint, entries, committed, base, parsing,
                  parsedRecords, pending, nextSequence, cpc>>
  BY <1>2 DEF followVars, pipelineVars, durableVars, collectVars
<1>4. InFlight' = InFlight
  BY <1>3 DEF InFlight, Sending, Parsing, Elems
<1>5. (NumberedByPlace /\ InFlightFromCut /\ InSourceOrder /\ NoneLost)'
  BY <1>3, <1>4, PassedOn
<1> QED BY <1>1, <1>3, <1>5 DEF IngestInv, IngestTypeOK, FollowerInv, OneEach

LEMMA FollowInv == IngestInv /\ (Follow \/ FollowFails) => IngestInv'
<1> SUFFICES ASSUME IngestInv, Follow \/ FollowFails PROVE IngestInv'
  OBVIOUS
<1>1. /\ FollowerInv /\ cut \in Seq(lineRecord) /\ records \in Seq(lineRecord)
      /\ Len(cut) \in Nat
  BY LenProperties DEF IngestInv, FollowerInv, FollowerTypeOK
<1>2. UNCHANGED <<up, checkpoint, entries, committed, base, parsing,
                  parsedRecords, pending, nextSequence, cpc>>
  BY DEF Follow, FollowFails, pipelineVars, durableVars, collectVars
<1>3. ASSUME FollowerInv' PROVE (IngestTypeOK /\ OneEach)'
  BY <1>2, <1>3 DEF IngestInv, IngestTypeOK, FollowerInv, OneEach
<1>4. CASE MovesOnly(checkpoint)
  <2>1. checkpoint \in Checkpoint
    BY DEF IngestInv, IngestTypeOK
  <2>2. FollowerInv' /\ cut' = cut /\ records' = records /\ fpc # "send" /\ fpc' # "send"
    BY <1>1, <1>4, <2>1, MovesOnlyInv
  <2>3. InFlight' = InFlight
    BY <1>2, <2>2 DEF InFlight, Sending, Parsing, Elems
  <2>4. (NumberedByPlace /\ InFlightFromCut /\ InSourceOrder /\ NoneLost)'
    BY <1>2, <2>2, <2>3, PassedOn
  <2> QED BY <1>3, <2>2, <2>4 DEF IngestInv
<1>5. CASE ReadEOF
  <2>1. FollowerInv'
    BY <1>1, <1>5, ReadEOFInv
  <2>2. cut' = cut /\ records' = records /\ fpc # "send" /\ fpc' # "send"
    BY <1>5 DEF ReadEOF, Carried
  <2>3. InFlight' = InFlight
    BY <1>2, <2>2 DEF InFlight, Sending, Parsing, Elems
  <2>4. (NumberedByPlace /\ InFlightFromCut /\ InSourceOrder /\ NoneLost)'
    BY <1>2, <2>2, <2>3, PassedOn
  <2> QED BY <1>3, <2>1, <2>4 DEF IngestInv
<1>6. CASE SendRecord
  <2>1. FollowerInv'
    BY <1>1, <1>6, SendRecordInv
  <2>2. /\ fpc = "send" /\ fpc' # "send" /\ cut' = cut
        /\ records' = Append(records, cut[Len(cut)]) /\ cut # <<>>
    BY <1>1, <1>6 DEF SendRecord, sequence, FollowerInv, FollowerTypeOK
  <2>3. cut[Len(cut)] \in lineRecord
    BY <1>1, <2>2, ElementOfSeq, EmptySeq
  <2>4. Elems(records') = Elems(records) \cup {cut[Len(cut)]}
    BY <1>1, <2>2, <2>3, ElemsAppend
  <2>5. (Sending = {})' /\ Sending = {cut[Len(cut)]}
    BY <2>2 DEF Sending
  <2>6. Elems(records)' = Elems(records') /\ Parsing' = Parsing
        /\ Elems(parsedRecords)' = Elems(parsedRecords) /\ pending' = pending
    BY <1>2 DEF Elems, Parsing
  <2>7. InFlight' = InFlight
    BY <2>4, <2>5, <2>6 DEF InFlight
  <2>8. (NumberedByPlace /\ InFlightFromCut /\ InSourceOrder /\ NoneLost)'
    BY <1>2, <2>2, <2>7, PassedOn
  <2> QED BY <1>3, <2>1, <2>8 DEF IngestInv
<1>7. CASE ReadLine
  <2>1. FollowerInv'
    BY <1>1, <1>7, ReadLineCuts
  <2>2. PICK r \in lineRecord : r.Sequence = Len(cut) /\ cut' = Append(cut, r)
    BY <1>1, <1>7, ReadLineCuts
  <2>3. fpc = "read" /\ fpc' = "send" /\ records' = records
    BY <1>7 DEF ReadLine
  <2>4. /\ Len(cut') = Len(cut) + 1 /\ cut'[Len(cut) + 1] = r
        /\ \A i \in 1..Len(cut) : cut'[i] = cut[i]
    BY <1>1, <2>2, AppendProperties
  <2>5. InFlight' = InFlight \cup {r}
    <3>1. Sending = {} /\ Sending' = {r}
      BY <2>3, <2>4 DEF Sending
    <3>2. Elems(records)' = Elems(records) /\ Parsing' = Parsing
          /\ Elems(parsedRecords)' = Elems(parsedRecords) /\ pending' = pending
      BY <1>2, <2>3 DEF Elems, Parsing
    <3> QED BY <3>1, <3>2 DEF InFlight
  <2>6. NumberedByPlace'
    BY <1>1, <2>2, <2>4 DEF IngestInv, NumberedByPlace
  <2>7. InFlightFromCut'
    BY <1>1, <2>2, <2>4, <2>5 DEF IngestInv, InFlightFromCut
  <2>8. nextSequence \in Nat
    BY DEF IngestInv, IngestTypeOK
  <2>9. InSourceOrder'
    BY <1>1, <1>2, <2>4, <2>8 DEF IngestInv, InSourceOrder
  <2>10. NoneLost'
    <3> SUFFICES ASSUME NEW s \in nextSequence..Len(cut)
                 PROVE  \E q \in InFlight' : q = cut'[s + 1]
      BY <1>1, <1>2, <2>4 DEF NoneLost
    <3>1. CASE s = Len(cut)
      BY <2>4, <2>5, <3>1
    <3>2. CASE s # Len(cut)
      <4>1. s \in nextSequence..(Len(cut) - 1) /\ s + 1 \in 1..Len(cut)
        BY <1>1, <2>8, <3>2
      <4> QED BY <4>1, <2>4, <2>5 DEF IngestInv, NoneLost
    <3> QED BY <3>1, <3>2
  <2> QED BY <1>3, <2>1, <2>6, <2>7, <2>9, <2>10 DEF IngestInv
<1> QED BY <1>4, <1>5, <1>6, <1>7 DEF Follow, FollowFails, FollowStep, MovesOnly

(* The follower's state is untouched by the workers and the collector.       *)
LEMMA FollowerKept ==
    ASSUME FollowerInv, UNCHANGED <<logVars, faults, followVars>>,
           records' \in Seq(lineRecord)
    PROVE  FollowerInv'
BY DEF FollowerInv, FollowerTypeOK, logVars, followVars

LEMMA TakeRecordInv ==
    ASSUME IngestInv, NEW w \in Workers, TakeRecord(w)
    PROVE  IngestInv'
<1> DEFINE r == Head(records)
<1>1. records \in Seq(lineRecord) /\ records # <<>>
  BY DEF IngestInv, FollowerInv, FollowerTypeOK, TakeRecord
<1>2. r \in lineRecord /\ records' \in Seq(lineRecord)
  BY <1>1, HeadTailProperties DEF TakeRecord
<1>3. Elems(records) = {r} \cup Elems(records')
  BY <1>1, ElemsHeadTail DEF TakeRecord
<1> HIDE DEF r
<1>4. parsing \in [Workers -> SUBSET lineRecord] /\ parsing[w] = {}
      /\ parsing' = [parsing EXCEPT ![w] = {r}]
  BY DEF IngestInv, IngestTypeOK, TakeRecord, r
<1>5. FollowerInv'
  BY <1>2, FollowerKept DEF IngestInv, TakeRecord
<1>6. UNCHANGED <<cut, fpc, up, checkpoint, entries, committed, base,
                  parsedRecords, pending, nextSequence, cpc>>
  BY DEF TakeRecord, followVars, durableVars, collectVars
<1>7. (IngestTypeOK /\ OneEach)'
  BY <1>2, <1>4, <1>5, <1>6 DEF IngestInv, IngestTypeOK, FollowerInv, OneEach
<1>8. Parsing' = Parsing \cup {r}
  BY <1>4 DEF Parsing
<1>9. Elems(records)' = Elems(records') /\ Sending' = Sending
      /\ Elems(parsedRecords)' = Elems(parsedRecords) /\ pending' = pending
  BY <1>6 DEF Elems, Sending
<1>10. InFlight' = InFlight
  BY <1>3, <1>8, <1>9 DEF InFlight
<1>11. (NumberedByPlace /\ InFlightFromCut /\ InSourceOrder /\ NoneLost)'
  BY <1>6, <1>10, PassedOn
<1> QED BY <1>5, <1>7, <1>11 DEF IngestInv

LEMMA PutParsedInv ==
    ASSUME IngestInv, NEW w \in Workers, PutParsed(w)
    PROVE  IngestInv'
<1>1. PICK r \in parsing[w] : parsedRecords' = Append(parsedRecords, r)
  BY DEF PutParsed
<1>2. /\ parsing \in [Workers -> SUBSET lineRecord] /\ parsedRecords \in Seq(lineRecord)
      /\ parsing[w] = {r} /\ parsing' = [parsing EXCEPT ![w] = {}]
  BY DEF IngestInv, IngestTypeOK, OneEach, PutParsed
<1>3. r \in lineRecord
  BY <1>2
<1>4. parsedRecords' \in Seq(lineRecord) /\ Elems(parsedRecords') = Elems(parsedRecords) \cup {r}
  BY <1>1, <1>2, <1>3, AppendProperties, ElemsAppend
<1>5. UNCHANGED <<logVars, faults, followVars, records>>
  BY DEF PutParsed, followerVars
<1>6. UNCHANGED <<cut, fpc, records, up, checkpoint, entries, committed, base,
                  pending, nextSequence, cpc>>
  BY <1>5 DEF PutParsed, followVars, durableVars
<1>7. FollowerInv'
  BY <1>5, FollowerKept DEF IngestInv, FollowerInv, FollowerTypeOK
<1>8. (IngestTypeOK /\ OneEach)'
  BY <1>2, <1>4, <1>6, <1>7 DEF IngestInv, IngestTypeOK, FollowerInv, OneEach
<1>9. Parsing \cup {r} = Parsing' \cup {r}
  BY <1>2 DEF Parsing
<1>10. r \in Parsing
  BY <1>2 DEF Parsing
<1>11. Elems(parsedRecords)' = Elems(parsedRecords') /\ Sending' = Sending
       /\ Elems(records)' = Elems(records) /\ pending' = pending
  BY <1>6 DEF Elems, Sending
<1>12. InFlight' = InFlight
  BY <1>4, <1>9, <1>10, <1>11 DEF InFlight
<1>13. (NumberedByPlace /\ InFlightFromCut /\ InSourceOrder /\ NoneLost)'
  BY <1>6, <1>12, PassedOn
<1> QED BY <1>7, <1>8, <1>13 DEF IngestInv

LEMMA CollectInv == IngestInv /\ Collect => IngestInv'
<1> SUFFICES ASSUME IngestInv, Collect PROVE IngestInv'
  OBVIOUS
<1> DEFINE r == Head(parsedRecords)
<1>1. parsedRecords \in Seq(lineRecord) /\ parsedRecords # <<>>
  BY DEF IngestInv, IngestTypeOK, Collect
<1>2. r \in lineRecord /\ parsedRecords' \in Seq(lineRecord)
  BY <1>1, HeadTailProperties DEF Collect
<1>3. Elems(parsedRecords) = {r} \cup Elems(parsedRecords')
  BY <1>1, ElemsHeadTail DEF Collect
<1> HIDE DEF r
<1>4. pending' = pending \cup {r} /\ cpc' = "drain"
  BY DEF Collect, r
<1>5. UNCHANGED <<logVars, faults, followVars, records>>
  BY DEF Collect, followerVars
<1>6. UNCHANGED <<cut, fpc, records, up, checkpoint, entries, committed, base, parsing, nextSequence>>
  BY <1>5 DEF Collect, followVars, durableVars
<1>7. FollowerInv'
  BY <1>5, FollowerKept DEF IngestInv, FollowerInv, FollowerTypeOK
<1>8. (IngestTypeOK /\ OneEach)'
  BY <1>2, <1>4, <1>6, <1>7 DEF IngestInv, IngestTypeOK, FollowerInv, OneEach
<1>9. Elems(parsedRecords)' = Elems(parsedRecords') /\ Sending' = Sending
      /\ Elems(records)' = Elems(records) /\ Parsing' = Parsing
  BY <1>6 DEF Elems, Sending, Parsing
<1>10. InFlight' = InFlight
  BY <1>3, <1>4, <1>9 DEF InFlight
<1>11. (NumberedByPlace /\ InFlightFromCut /\ InSourceOrder /\ NoneLost)'
  BY <1>6, <1>10, PassedOn
<1> QED BY <1>7, <1>8, <1>11 DEF IngestInv

(* What persisting a record leaves in PostgreSQL is well typed.               *)
LEMMA PersistType ==
    ASSUME IngestInv, NEW r \in lineRecord, persistMailLogRecord(r)
    PROVE  /\ checkpoint' \in Checkpoint /\ entries' \subseteq Seq(Units)
           /\ committed' \in Seq(lineRecord)
           /\ Len(committed') = Len(committed) + 1
           /\ committed'[Len(committed) + 1] = r
           /\ \A i \in 1..Len(committed) : committed'[i] = committed[i]
<1>1. committed \in Seq(lineRecord) /\ Len(committed) \in Nat
  BY LenProperties DEF IngestInv, IngestTypeOK
<1>2. checkpoint' \in Checkpoint
  BY FollowerAssumption DEF persistMailLogRecord, CheckpointAfter, Checkpoint, lineRecord, Inodes
<1>3. entries' \subseteq Seq(Units)
  BY DEF persistMailLogRecord, CheckpointAfter, lineRecord, IngestInv, IngestTypeOK
<1> QED BY <1>1, <1>2, <1>3, AppendProperties DEF persistMailLogRecord, CheckpointAfter

LEMMA CommitInv == IngestInv /\ Commit => IngestInv'
<1> SUFFICES ASSUME IngestInv, Commit PROVE IngestInv'
  OBVIOUS
<1>1. PICK r \in pending : /\ r.Sequence = nextSequence
                           /\ persistMailLogRecord(r)
                           /\ pending' = pending \ {r}
  BY DEF Commit, Due
<1>2. /\ pending \subseteq lineRecord /\ r \in lineRecord
      /\ nextSequence \in Nat /\ base \in Nat /\ nextSequence' = nextSequence + 1
      /\ cut \in Seq(lineRecord) /\ Len(cut) \in Nat
  BY LenProperties DEF IngestInv, IngestTypeOK, FollowerTypeOK, Commit
<1>3. /\ checkpoint' \in Checkpoint /\ entries' \subseteq Seq(Units)
      /\ committed' \in Seq(lineRecord)
      /\ Len(committed') = Len(committed) + 1
      /\ committed'[Len(committed) + 1] = r
      /\ \A i \in 1..Len(committed) : committed'[i] = committed[i]
  BY <1>1, <1>2, PersistType
<1>4. UNCHANGED <<logVars, faults, followVars, records>>
  BY DEF Commit, followerVars
<1>5. UNCHANGED <<cut, fpc, records, up, base, parsing, parsedRecords, cpc>>
  BY <1>4 DEF Commit, followVars
<1>6. FollowerInv'
  BY <1>4, FollowerKept DEF IngestInv, FollowerInv, FollowerTypeOK
<1>7. (IngestTypeOK /\ OneEach)'
  BY <1>1, <1>2, <1>3, <1>5, <1>6 DEF IngestInv, IngestTypeOK, FollowerInv, OneEach
<1>8. nextSequence < Len(cut) /\ r = cut[nextSequence + 1]
  BY <1>1, <1>2 DEF IngestInv, InFlightFromCut, InFlight
<1>9. InFlight' \subseteq InFlight /\ InFlight \subseteq InFlight' \cup {r}
  <2>1. Elems(parsedRecords)' = Elems(parsedRecords) /\ Sending' = Sending
        /\ Elems(records)' = Elems(records) /\ Parsing' = Parsing
    BY <1>5 DEF Elems, Sending, Parsing
  <2> QED BY <1>1, <2>1 DEF InFlight
<1>10. (NumberedByPlace /\ InFlightFromCut)'
  BY <1>5, <1>9 DEF IngestInv, NumberedByPlace, InFlightFromCut
<1>11. InSourceOrder'
  <2>1. Len(committed) = base + nextSequence
    BY DEF IngestInv, InSourceOrder
  <2>2. \A i \in 1..nextSequence : committed'[base + i] = cut[i]
    BY <1>2, <1>3, <2>1 DEF IngestInv, InSourceOrder
  <2>3. committed'[base + nextSequence + 1] = cut[nextSequence + 1]
    BY <1>3, <1>8, <2>1
  <2>4. \A i \in 1..(nextSequence + 1) : committed'[base + i] = cut[i]
    BY <1>2, <2>2, <2>3, SMTT(30)
  <2> QED BY <1>2, <1>3, <1>5, <1>8, <2>1, <2>4 DEF InSourceOrder
<1>12. NoneLost'
  <2> SUFFICES ASSUME NEW s \in (nextSequence + 1)..(Len(cut) - 1)
               PROVE  cut[s + 1] \in InFlight'
    BY <1>2, <1>5 DEF NoneLost
  <2>1. cut[s + 1] \in InFlight
    BY <1>2 DEF IngestInv, NoneLost
  <2>2. cut[s + 1].Sequence = s
    BY <1>2 DEF IngestInv, NumberedByPlace
  <2>3. cut[s + 1] # r
    BY <1>1, <1>2, <2>2
  <2> QED BY <1>9, <2>1, <2>3
<1> QED BY <1>6, <1>7, <1>10, <1>11, <1>12 DEF IngestInv

(* Start and DrainDone only move a program counter.                           *)
LEMMA CounterInv == IngestInv /\ (Start \/ DrainDone \/ UNCHANGED ingestVars) => IngestInv'
<1> SUFFICES ASSUME IngestInv, Start \/ DrainDone \/ UNCHANGED ingestVars PROVE IngestInv'
  OBVIOUS
<1>1. /\ UNCHANGED <<logVars, faults, followVars, records>>
      /\ UNCHANGED <<checkpoint, entries, committed, base, parsing,
                     parsedRecords, pending, nextSequence>>
      /\ up' \in BOOLEAN /\ cpc' \in {"select", "drain"}
  BY DEF Start, DrainDone, ingestVars, followerVars, pipelineVars, durableVars,
         collectVars, IngestInv, IngestTypeOK
<1>2. UNCHANGED <<cut, fpc, records>>
  BY <1>1 DEF followVars
<1>3. FollowerInv'
  BY <1>1, FollowerKept DEF IngestInv, FollowerInv, FollowerTypeOK
<1>4. (IngestTypeOK /\ OneEach)'
  BY <1>1, <1>3 DEF IngestInv, IngestTypeOK, FollowerInv, OneEach
<1>5. InFlight' = InFlight
  BY <1>1, <1>2 DEF InFlight, Sending, Parsing, Elems
<1>6. (NumberedByPlace /\ InFlightFromCut /\ InSourceOrder /\ NoneLost)'
  BY <1>1, <1>2, <1>5, PassedOn
<1> QED BY <1>3, <1>4, <1>6 DEF IngestInv

LEMMA RunEndsInv ==
    IngestInv /\ (CommitRefused \/ CommitThenFail \/ FollowErrorReported \/ Crash) => IngestInv'
<1> SUFFICES ASSUME IngestInv, CommitRefused \/ CommitThenFail \/ FollowErrorReported \/ Crash
             PROVE  IngestInv'
  OBVIOUS
<1>1. Stop /\ UNCHANGED logVars
  BY DEF CommitRefused, CommitThenFail, FollowErrorReported, Crash
<1>2. faults' \in 0..MaxFaults
  BY FollowerAssumption
  DEF CommitRefused, CommitThenFail, FollowErrorReported, Crash, IngestInv, FollowerInv, FollowerTypeOK
<1>3. checkpoint' \in Checkpoint /\ entries' \subseteq Seq(Units) /\ committed' \in Seq(lineRecord)
  <2>1. CASE CommitThenFail
    <3>1. PICK r \in pending : persistMailLogRecord(r)
      BY <2>1 DEF CommitThenFail
    <3>2. r \in lineRecord
      BY DEF IngestInv, IngestTypeOK
    <3> QED BY <3>1, <3>2, PersistType
  <2>2. CASE UNCHANGED durableVars
    BY <2>2 DEF durableVars, IngestInv, IngestTypeOK
  <2> QED BY <2>1, <2>2 DEF CommitRefused, FollowErrorReported, Crash
<1> QED BY <1>1, <1>2, <1>3, StopInv

----------------------------------------------------------------------------
(* The theorems.                                                             *)

LEMMA IngestInductive == IngestInv /\ [IngestNext]_ingestVars => IngestInv'
<1> SUFFICES ASSUME IngestInv, [IngestNext]_ingestVars PROVE IngestInv'
  OBVIOUS
<1> QED
  BY LogMovesInv, FollowInv, TakeRecordInv, PutParsedInv, CollectInv, CommitInv,
     CounterInv, RunEndsInv
  DEF IngestNext

(* IngestInv holds in every state of every run of the pipeline.               *)
THEOREM IngestCorrect == IngestSpec => []IngestInv
<1>1. IngestInit => IngestInv
  BY IngestInitInv
<1>2. IngestInv /\ [IngestNext]_ingestVars => IngestInv'
  BY IngestInductive
<1> QED BY <1>1, <1>2, PTL DEF IngestSpec

(* Every variable of the log, the follower, the workers and the collector     *)
(* keeps its type through rotations, truncations, errors and restarts.        *)
THEOREM IngestTypeCorrect == IngestSpec => []IngestTypeOK
<1>1. IngestInv => IngestTypeOK
  BY DEF IngestInv
<1> QED BY <1>1, IngestCorrect, PTL

(* However many workers parse concurrently, the checkpoint transactions of a  *)
(* run commit the records the follower cut, in the order it cut them.         *)
THEOREM CommitsInSourceOrder == IngestSpec => []InSourceOrder
<1>1. IngestInv => InSourceOrder
  BY DEF IngestInv
<1> QED BY <1>1, IngestCorrect, PTL

(* No record is lost between the follower and the database within a run: the  *)
(* collector's wait for nextSequence is never for a record nobody holds.      *)
THEOREM NoRecordLost == IngestSpec => []NoneLost
<1>1. IngestInv => NoneLost
  BY DEF IngestInv
<1> QED BY <1>1, IngestCorrect, PTL

----------------------------------------------------------------------------
(* Where the pipeline reads, and what it stores of it: what a restart resumes *)
(* from.  However rotations fall.                                            *)

(* Positions in the log, in the order its files are written.                  *)
Before(i, m, j, n) == i < j \/ (i = j /\ m < n)
NotAfter(i, m, j, n) == i < j \/ (i = j /\ m <= n)

(* A file gets its name when it is created, and is opened under it.           *)
NamedInOrder ==
    /\ path # NoFile => path = lastInode
    /\ inode <= lastInode /\ checkpoint.inode <= lastInode
    /\ \A i \in 1..Len(cut) : cut[i].Inode <= lastInode
    /\ fpc = "off" => inode = NoFile /\ cut = <<>>

(* Records are cut in the order of the log, none twice; what is not yet       *)
(* committed lies behind the checkpoint, and nothing behind the reader.       *)
CutInOrder ==
    \A i, j \in 1..Len(cut) : i < j =>
        Before(cut[i].Inode, cut[i].Offset, cut[j].Inode, cut[j].Offset)
CheckpointBeforeCut ==
    \A i \in (nextSequence + 1)..Len(cut) :
        Before(checkpoint.inode, checkpoint.offset, cut[i].Inode, cut[i].Offset)
ReaderAhead ==
    inode # NoFile =>
        /\ NotAfter(checkpoint.inode, checkpoint.offset, inode, offset)
        /\ \A i \in 1..Len(cut) : NotAfter(cut[i].Inode, cut[i].Offset, inode, offset)

PositionInv ==
    /\ BufferInFile /\ PendingInFile
    /\ \A k \in 1..Len(cut) : WholeLine(cut[k])
    /\ CheckpointResumable
    /\ CutInOrder /\ CheckpointBeforeCut /\ ReaderAhead
    /\ fpc = "reopen" => path # inode

SourceInv ==
    /\ IngestInv /\ NamedInOrder
    /\ truncations = 0 => PositionInv

LEMMA ResumableKept ==
    ASSUME FollowerInv, FollowerInv', checkpoint \in Checkpoint, Grows,
           truncations = 0, CheckpointResumable, UNCHANGED checkpoint
    PROVE  CheckpointResumable'
<1>1. checkpoint.inode # NoFile => checkpoint.inode \in Inodes
  BY FollowerAssumption DEF Checkpoint, Inodes, NoFile
<1>2. \A i \in Inodes : Len(files[i]) \in Nat /\ Len(files'[i]) \in Nat
  BY LenProperties DEF FollowerInv, FollowerTypeOK
<1> QED BY <1>1, <1>2 DEF CheckpointResumable, Grows

----------------------------------------------------------------------------
(* The steps of the pipeline.                                                *)

LEMMA SourceInitInv == IngestInit => SourceInv
<1> SUFFICES ASSUME IngestInit PROVE SourceInv
  OBVIOUS
<1>1. IngestInv
  BY IngestInitInv
<1>2. /\ inode = NoFile /\ NoFile = 0 /\ cut = <<>> /\ Len(cut) = 0 /\ lastInode = 1 /\ path = 1
      /\ checkpoint.inode = NoFile /\ fpc = "off" /\ nextSequence = 0
  BY EmptySeq DEF IngestInit, FollowerInit, FollowInit, LogInit, NoCheckpoint, NoFile
<1>3. NamedInOrder
  BY <1>2 DEF NamedInOrder
<1>4. PositionInv
  BY <1>2 DEF PositionInv, BufferInFile, PendingInFile, CheckpointResumable, CutInOrder,
              CheckpointBeforeCut, ReaderAhead
<1> QED BY <1>1, <1>3, <1>4 DEF SourceInv

(* What every lemma below starts from.                                        *)
LEMMA SourceTypes ==
    ASSUME IngestInv
    PROVE  /\ FollowerInv /\ checkpoint \in Checkpoint
           /\ inode \in Nat /\ offset \in Nat /\ path \in Nat /\ lastInode \in Nat
           /\ checkpoint.inode \in Nat /\ checkpoint.offset \in Nat
           /\ nextSequence \in Nat /\ truncations \in Nat
           /\ cut \in Seq(lineRecord) /\ Len(cut) \in Nat
           /\ \A i \in 1..Len(cut) : /\ cut[i] \in lineRecord
                                     /\ cut[i].Inode \in Nat /\ cut[i].Offset \in Nat
<1>1. /\ FollowerInv /\ checkpoint \in Checkpoint /\ nextSequence \in Nat
      /\ inode \in 0..MaxInode /\ path \in 0..MaxInode /\ lastInode \in Inodes
      /\ offset \in Nat /\ truncations \in 0..MaxTruncations
      /\ cut \in Seq(lineRecord) /\ Len(cut) \in Nat
  BY LenProperties DEF IngestInv, IngestTypeOK, FollowerInv, FollowerTypeOK
<1>2. \A i \in 1..Len(cut) : cut[i] \in lineRecord
  BY <1>1, ElementOfSeq
<1>3. \A r \in lineRecord : r.Inode \in Nat /\ r.Offset \in Nat
  BY FollowerAssumption DEF lineRecord, Inodes
<1>4. checkpoint.inode \in Nat /\ checkpoint.offset \in Nat
  BY <1>1, FollowerAssumption DEF Checkpoint
<1>5. inode \in Nat /\ path \in Nat /\ lastInode \in Nat /\ truncations \in Nat
  BY <1>1, FollowerAssumption DEF Inodes
<1> QED BY <1>1, <1>2, <1>3, <1>4, <1>5

(* Steps that leave the reader, the records cut and the checkpoint alone,     *)
(* while the files may grow.                                                  *)
LEMMA PositionsKept ==
    ASSUME SourceInv, IngestInv', truncations' = 0 => Grows /\ truncations = 0,
           UNCHANGED <<inode, offset, buffered, pendingText, cut, checkpoint, nextSequence>>,
           NamedInOrder',
           truncations' = 0 /\ fpc' = "reopen" => path' # inode
    PROVE  SourceInv'
<1> SUFFICES ASSUME truncations' = 0 PROVE PositionInv'
  BY DEF SourceInv
<1>1. PositionInv /\ Grows /\ truncations = 0 /\ IngestInv /\ NamedInOrder
  BY DEF SourceInv
<1>2. /\ inode # NoFile => inode \in Inodes
      /\ FollowerInv /\ FollowerInv' /\ checkpoint \in Checkpoint
      /\ offset \in Nat /\ Len(buffered) \in Nat /\ Len(pendingText) \in Nat
      /\ \A i \in 1..Len(cut) : cut[i] \in lineRecord
      /\ \A i \in Inodes : Len(files[i]) \in Nat /\ Len(files'[i]) \in Nat
  <2>1. FollowerInv /\ FollowerInv' /\ checkpoint \in Checkpoint /\ offset \in Nat
    BY <1>1, SourceTypes DEF IngestInv
  <2>2. \A i \in 1..Len(cut) : cut[i] \in lineRecord
    BY <1>1, SourceTypes
  <2>3. inode # NoFile => inode \in Inodes
    BY <2>1, FollowerAssumption DEF FollowerInv, FollowerTypeOK, Inodes, NoFile
  <2>4. Len(buffered) \in Nat /\ Len(pendingText) \in Nat
    BY <2>1, LenProperties DEF FollowerInv, FollowerTypeOK
  <2>5. \A i \in Inodes : Len(files[i]) \in Nat /\ Len(files'[i]) \in Nat
    BY <2>1, LenProperties DEF FollowerInv, FollowerTypeOK
  <2> QED BY <2>1, <2>2, <2>3, <2>4, <2>5
<1>3. BufferInFile'
  <2> SUFFICES ASSUME inode # NoFile
               PROVE  /\ offset + Len(buffered) <= Len(files'[inode])
                      /\ \A i \in 1..Len(buffered) : buffered[i] = files'[inode][offset + i]
    BY DEF BufferInFile
  <2>1. /\ offset + Len(buffered) <= Len(files[inode])
        /\ \A i \in 1..Len(buffered) : buffered[i] = files[inode][offset + i]
    BY <1>1 DEF PositionInv, BufferInFile
  <2>2. /\ Len(files[inode]) <= Len(files'[inode])
        /\ \A p \in 1..Len(files[inode]) : files'[inode][p] = files[inode][p]
    BY <1>1, <1>2 DEF Grows
  <2>3. \A i \in 1..Len(buffered) : offset + i \in 1..Len(files[inode])
    BY <1>2, <2>1
  <2>4. offset + Len(buffered) <= Len(files'[inode])
    BY <1>2, <2>1, <2>2
  <2> QED BY <2>1, <2>2, <2>3, <2>4
<1>4. PendingInFile'
  <2> SUFFICES ASSUME inode # NoFile
               PROVE  /\ Len(pendingText) <= offset
                      /\ \A i \in 1..Len(pendingText) :
                           /\ pendingText[i] = files'[inode][offset - Len(pendingText) + i]
                           /\ pendingText[i] # NL
                      /\ \/ offset = Len(pendingText)
                         \/ files'[inode][offset - Len(pendingText)] = NL
    BY DEF PendingInFile
  <2>1. /\ Len(pendingText) <= offset
        /\ \A i \in 1..Len(pendingText) :
             /\ pendingText[i] = files[inode][offset - Len(pendingText) + i]
             /\ pendingText[i] # NL
        /\ offset = Len(pendingText) \/ files[inode][offset - Len(pendingText)] = NL
        /\ offset + Len(buffered) <= Len(files[inode])
    BY <1>1 DEF PositionInv, PendingInFile, BufferInFile
  <2>2. \A p \in 1..Len(files[inode]) : files'[inode][p] = files[inode][p]
    BY <1>1, <1>2 DEF Grows
  <2>3. /\ \A i \in 1..Len(pendingText) : offset - Len(pendingText) + i \in 1..Len(files[inode])
        /\ offset # Len(pendingText) => offset - Len(pendingText) \in 1..Len(files[inode])
    BY <1>2, <2>1
  <2> QED BY <2>1, <2>2, <2>3
<1>5. \A k \in 1..Len(cut') : WholeLine(cut[k])'
  BY <1>1, <1>2, WholeLineKept DEF PositionInv
<1>6. CheckpointResumable'
  BY <1>1, <1>2, ResumableKept DEF PositionInv
<1>7. (CutInOrder /\ CheckpointBeforeCut /\ ReaderAhead)'
  BY <1>1 DEF PositionInv, CutInOrder, CheckpointBeforeCut, ReaderAhead
<1> QED BY <1>3, <1>4, <1>5, <1>6, <1>7 DEF PositionInv

(* The daemon only appends and logrotate only creates newer files.            *)
LEMMA LogMovesSource ==
    ASSUME SourceInv, IngestInv', LogMoves
    PROVE  SourceInv'
<1>1. IngestInv /\ NamedInOrder /\ FollowerInv
  BY DEF SourceInv, IngestInv
<1>2. UNCHANGED <<fpc, inode, offset, buffered, pendingText, cut, checkpoint, nextSequence>>
  BY DEF LogMoves, Environment, Write, Rename, Create, WriterReopen, Truncate, followVars,
         pipelineVars, durableVars, collectVars
<1>3. truncations' = 0 => Grows /\ truncations = 0
  BY <1>1, WriteGrows DEF LogMoves
<1>4. \/ UNCHANGED <<path, lastInode>>
      \/ path' = NoFile /\ lastInode' = lastInode
      \/ path' = lastInode + 1 /\ lastInode' = lastInode + 1
  BY DEF LogMoves, Environment, Write, Rename, Create, WriterReopen, Truncate
<1>5. /\ inode \in Nat /\ lastInode \in Nat /\ checkpoint.inode \in Nat
      /\ inode <= lastInode /\ checkpoint.inode <= lastInode
      /\ \A i \in 1..Len(cut) : cut[i].Inode <= lastInode /\ cut[i].Inode \in Nat
  BY <1>1, SourceTypes DEF NamedInOrder
<1>6. NamedInOrder'
  BY <1>1, <1>2, <1>4, <1>5 DEF NamedInOrder
<1>7. truncations' = 0 /\ fpc' = "reopen" => path' # inode
  <2> SUFFICES ASSUME truncations' = 0, fpc = "reopen" PROVE path' # inode
    BY <1>2
  <2>1. path # inode /\ inode # NoFile
    BY <1>1, <1>3, FollowerAssumption
    DEF SourceInv, PositionInv, FollowerInv, FollowerTypeOK, Inodes, NoFile
  <2> QED BY <1>4, <1>5, <2>1
<1> QED BY <1>2, <1>3, <1>6, <1>7, PositionsKept

(* Steps that touch neither the files, the reader nor the checkpoint.         *)
LEMMA QuietSource ==
    ASSUME SourceInv, IngestInv',
           UNCHANGED <<files, path, lastInode, truncations>>,
           UNCHANGED <<inode, offset, buffered, pendingText, cut, checkpoint, nextSequence>>,
           fpc' = "off" => fpc = "off",
           truncations = 0 /\ fpc' = "reopen" => fpc = "reopen" \/ path # inode
    PROVE  SourceInv'
<1>1. NamedInOrder'
  BY DEF SourceInv, NamedInOrder
<1>2. Grows
  BY SameFilesGrow DEF SourceInv, IngestInv
<1>3. truncations' = 0 /\ fpc' = "reopen" => path' # inode
  BY DEF SourceInv, PositionInv
<1> QED BY <1>1, <1>2, <1>3, PositionsKept

(* The follower opens the log at its start or where a checkpoint says, and    *)
(* both are behind a newline or at the beginning.                             *)
LEMMA OpenSource ==
    ASSUME SourceInv, IngestInv', path # NoFile, NEW ck \in Checkpoint, openMailLog(ck),
           (ck = checkpoint /\ fpc = "off") \/ (ck = NoCheckpoint /\ fpc = "reopen"),
           UNCHANGED <<files, path, lastInode, truncations, cut, checkpoint, nextSequence>>
    PROVE  SourceInv'
<1>1. IngestInv /\ NamedInOrder /\ (truncations = 0 => PositionInv)
  BY DEF SourceInv
<1>2. /\ inode' = path /\ offset' = (IF Resumable(ck) THEN ck.offset ELSE 0)
      /\ buffered' = <<>> /\ pendingText' = <<>> /\ fpc' = "read"
  BY DEF openMailLog, FreshLocals
<1>3. /\ path = lastInode /\ path \in Nat /\ path \in Inodes /\ Len(files[path]) \in Nat
      /\ inode \in Nat /\ inode <= path /\ checkpoint.inode <= path
      /\ checkpoint.inode \in Nat /\ checkpoint.offset \in Nat
      /\ Len(buffered') = 0 /\ Len(pendingText') = 0
  <2>1. FollowerInv /\ path \in Nat /\ inode \in Nat /\ lastInode \in Nat
        /\ checkpoint.inode \in Nat /\ checkpoint.offset \in Nat
    BY <1>1, SourceTypes
  <2>2. path = lastInode /\ inode <= path /\ checkpoint.inode <= path
    BY <1>1 DEF NamedInOrder
  <2>3. path \in Inodes
    BY <2>1, FollowerAssumption DEF FollowerInv, FollowerTypeOK, Inodes, NoFile
  <2>4. Len(files[path]) \in Nat
    BY <2>1, <2>3, LenProperties DEF FollowerInv, FollowerTypeOK
  <2> QED BY <1>2, <2>1, <2>2, <2>3, <2>4, EmptySeq
<1>4. NamedInOrder'
  BY <1>1, <1>2, <1>3 DEF NamedInOrder
<1> SUFFICES ASSUME truncations = 0 PROVE PositionInv'
  BY <1>4 DEF SourceInv
<1>5. PositionInv
  BY <1>1
<1>6. /\ offset' \in Nat /\ offset' <= Len(files[path])
      /\ offset' = 0 \/ files[path][offset'] = NL
      /\ NotAfter(checkpoint.inode, checkpoint.offset, path, offset')
  <2>1. CASE fpc = "off" /\ ck = checkpoint
    <3>1. CASE checkpoint.inode = path
      <4>1. checkpoint.offset \in 1..Len(files[path]) /\ files[path][checkpoint.offset] = NL
        BY <1>5, <3>1 DEF PositionInv, CheckpointResumable
      <4>2. Resumable(ck) /\ offset' = checkpoint.offset
        BY <1>2, <1>3, <2>1, <3>1, <4>1 DEF Resumable, NoFile
      <4> QED BY <1>3, <3>1, <4>1, <4>2 DEF NotAfter
    <3>2. CASE checkpoint.inode # path
      <4>1. offset' = 0
        BY <1>2, <2>1, <3>2 DEF Resumable
      <4> QED BY <1>3, <3>2, <4>1 DEF NotAfter
    <3> QED BY <3>1, <3>2
  <2>2. CASE fpc = "reopen" /\ ck = NoCheckpoint
    <3>1. offset' = 0
      BY <1>2, <2>2 DEF Resumable, NoCheckpoint
    <3>2. inode # NoFile /\ inode # path
      BY <1>1, <1>5, <2>2, FollowerAssumption
      DEF PositionInv, IngestInv, FollowerInv, FollowerTypeOK, Inodes, NoFile
    <3>3. checkpoint.inode <= inode
      BY <1>3, <1>5, <3>2 DEF PositionInv, ReaderAhead, NotAfter
    <3> QED BY <1>3, <3>1, <3>2, <3>3 DEF NotAfter
  <2> QED BY <2>1, <2>2
<1>7. \A i \in 1..Len(cut) : NotAfter(cut[i].Inode, cut[i].Offset, path, offset')
  <2>1. CASE fpc = "off"
    BY <1>1, <2>1, EmptySeq DEF NamedInOrder
  <2>2. CASE fpc = "reopen"
    <3>1. inode # NoFile /\ inode # path
      BY <1>1, <1>5, <2>2, FollowerAssumption
      DEF PositionInv, IngestInv, FollowerInv, FollowerTypeOK, Inodes, NoFile
    <3>2. \A i \in 1..Len(cut) : cut[i].Inode <= inode /\ cut[i].Inode \in Nat
      BY <1>1, <1>3, <1>5, <3>1, SourceTypes DEF PositionInv, ReaderAhead, NotAfter
    <3> QED BY <1>3, <3>1, <3>2 DEF NotAfter
  <2> QED BY <2>1, <2>2
<1>8. BufferInFile'
  BY <1>2, <1>3, <1>6 DEF BufferInFile
<1>9. PendingInFile'
  <2>1. offset' - Len(pendingText') = offset' /\ Len(pendingText') <= offset'
    BY <1>3, <1>6
  <2> QED BY <1>2, <1>3, <1>6, <2>1 DEF PendingInFile
<1>10. ReaderAhead'
  BY <1>2, <1>6, <1>7 DEF ReaderAhead
<1>11. (CutInOrder /\ CheckpointBeforeCut /\ CheckpointResumable)'
  BY <1>5 DEF PositionInv, CutInOrder, CheckpointBeforeCut, CheckpointResumable
<1>12. \A k \in 1..Len(cut') : WholeLine(cut[k])'
  BY <1>5 DEF PositionInv, WholeLine
<1> QED BY <1>2, <1>8, <1>9, <1>10, <1>11, <1>12 DEF PositionInv

LEMMA FollowSource ==
    ASSUME SourceInv, IngestInv', Follow \/ FollowFails
    PROVE  SourceInv'
<1>1. IngestInv /\ NamedInOrder /\ FollowerInv /\ (truncations = 0 => PositionInv)
  BY DEF SourceInv, IngestInv
<1>2. UNCHANGED <<checkpoint, nextSequence>>
  BY DEF Follow, FollowFails, pipelineVars, durableVars, collectVars
<1>3. UNCHANGED <<files, path, lastInode, truncations>>
  BY DEF Follow, FollowFails, FollowOpen, FollowStep, FollowError, ReadLine, ReadEOF,
         SendRecord, CheckRotation, Reopen, Poll, logVars
<1>4. checkpoint \in Checkpoint /\ NoCheckpoint \in Checkpoint
  BY <1>1, SourceTypes, FollowerAssumption DEF NoCheckpoint, Checkpoint
<1>5. CASE (FollowOpen(checkpoint) \/ Reopen) /\ path = NoFile
  BY <1>2, <1>3, <1>5, QuietSource DEF FollowOpen, Reopen, OpenFails, Fail
<1>6. CASE FollowOpen(checkpoint) /\ path # NoFile
  <2>1. PICK ck \in Checkpoint : ck = checkpoint
    BY <1>4
  <2>2. openMailLog(ck) /\ UNCHANGED cut /\ fpc = "off"
    BY <1>6, <2>1 DEF FollowOpen, OpenFails
  <2>3. (ck = checkpoint /\ fpc = "off") \/ (ck = NoCheckpoint /\ fpc = "reopen")
    BY <2>1, <2>2
  <2>4. /\ path # NoFile
        /\ UNCHANGED <<files, path, lastInode, truncations, cut, checkpoint, nextSequence>>
    BY <1>2, <1>3, <1>6, <2>2
  <2> QED BY <2>2, <2>3, <2>4, OpenSource
<1>7. CASE Reopen /\ path # NoFile
  <2>1. openMailLog(NoCheckpoint) /\ UNCHANGED cut /\ fpc = "reopen"
    BY <1>7 DEF Reopen, OpenFails
  <2> QED BY <1>2, <1>3, <1>4, <1>7, <2>1, OpenSource
<1>8. CASE SendRecord \/ Poll \/ FollowError
  BY <1>2, <1>3, <1>8, QuietSource DEF SendRecord, Poll, FollowError, Fail
<1>9. CASE CheckRotation
  <2>1. UNCHANGED <<inode, offset, buffered, pendingText, cut>> /\ fpc' # "off"
    BY <1>9 DEF CheckRotation
  <2>2. truncations = 0 /\ fpc' = "reopen" => path # inode
    <3> SUFFICES ASSUME truncations = 0, fpc' = "reopen", path = inode PROVE FALSE
      OBVIOUS
    <3>1. Len(files[inode]) < offset /\ fpc = "check"
      BY <1>9 DEF CheckRotation, Truncated, Rotated
    <3>2. inode \in Inodes /\ inode # NoFile /\ buffered \in Seq(Units) /\ offset \in Nat
      BY <1>1, <3>1, FollowerAssumption DEF FollowerInv, FollowerTypeOK, Inodes, NoFile
    <3>3. Len(files[inode]) \in Nat /\ Len(buffered) \in Nat
      BY <1>1, <3>2, LenProperties DEF FollowerInv, FollowerTypeOK
    <3>4. offset + Len(buffered) <= Len(files[inode])
      BY <1>1, <3>2 DEF PositionInv, BufferInFile
    <3> QED BY <3>1, <3>2, <3>3, <3>4
  <2> QED BY <1>2, <1>3, <2>1, <2>2, QuietSource
<1>10. CASE ReadEOF
  <2>1. UNCHANGED <<inode, cut>> /\ fpc' = "check"
    BY <1>10 DEF ReadEOF
  <2>2. NamedInOrder'
    BY <1>1, <1>2, <1>3, <2>1 DEF NamedInOrder
  <2> SUFFICES ASSUME truncations = 0 PROVE PositionInv'
    BY <1>3, <2>2 DEF SourceInv
  <2>3. PositionInv
    BY <1>1
  <2>4. (BufferInFile /\ PendingInFile)' /\ offset' >= offset /\ offset' \in Nat
    BY <1>1, <1>10, <2>3, ReadEOFPosition DEF PositionInv
  <2>5. ReaderAhead'
    <3>1. \A i, m \in Nat : NotAfter(i, m, inode, offset) => NotAfter(i, m, inode, offset')
      BY <1>1, <2>4, SourceTypes DEF NotAfter
    <3> QED BY <1>1, <1>2, <2>1, <2>3, <3>1, SourceTypes DEF PositionInv, ReaderAhead
  <2>6. (CutInOrder /\ CheckpointBeforeCut /\ CheckpointResumable)'
    BY <1>2, <1>3, <2>1, <2>3 DEF PositionInv, CutInOrder, CheckpointBeforeCut, CheckpointResumable
  <2>7. \A k \in 1..Len(cut') : WholeLine(cut[k])'
    BY <1>3, <2>1, <2>3 DEF PositionInv, WholeLine
  <2> QED BY <2>1, <2>4, <2>5, <2>6, <2>7 DEF PositionInv
<1>11. CASE ReadLine
  <2>1. /\ inode' = inode /\ fpc' = "send" /\ inode # NoFile
        /\ inode \in Nat /\ offset \in Nat /\ nextSequence \in Nat
        /\ checkpoint.inode \in Nat /\ checkpoint.offset \in Nat
        /\ cut \in Seq(lineRecord) /\ Len(cut) \in Nat
    BY <1>1, <1>11, SourceTypes, FollowerAssumption
    DEF ReadLine, FollowerInv, FollowerTypeOK, Inodes, NoFile
  <2>2. ASSUME NEW r \in lineRecord, cut' = Append(cut, r)
        PROVE  /\ Len(cut') = Len(cut) + 1 /\ cut'[Len(cut) + 1] = r
               /\ \A i \in 1..Len(cut) : cut'[i] = cut[i]
               /\ \A i \in 1..Len(cut') : i = Len(cut) + 1 \/ i \in 1..Len(cut)
    BY <2>1, <2>2, AppendProperties
  <2>3. NamedInOrder'
    <3>1. PICK r \in lineRecord : cut' = Append(cut, r)
      BY <1>1, <1>11, ReadLineCuts
    <3>2. cut'[Len(cut) + 1].Inode = inode
      BY <1>11, <2>1 DEF ReadLine
    <3> QED BY <1>1, <1>2, <1>3, <2>1, <2>2, <3>1, <3>2 DEF NamedInOrder
  <2> SUFFICES ASSUME truncations = 0 PROVE PositionInv'
    BY <1>3, <2>3 DEF SourceInv
  <2>4. PositionInv
    BY <1>1
  <2>5. /\ (BufferInFile /\ PendingInFile)' /\ offset' \in Nat /\ offset' > offset
        /\ \E r \in lineRecord : /\ cut' = Append(cut, r) /\ WholeLine(r)
                                 /\ r.Inode = inode /\ r.Offset = offset'
    BY <1>1, <1>11, <2>4, ReadLinePosition DEF PositionInv
  <2>6. PICK r \in lineRecord : /\ cut' = Append(cut, r) /\ WholeLine(r)
                                /\ r.Inode = inode /\ r.Offset = offset'
    BY <2>5
  <2>7. /\ Len(cut') = Len(cut) + 1 /\ cut'[Len(cut) + 1] = r
        /\ \A i \in 1..Len(cut) : cut'[i] = cut[i]
        /\ \A i \in 1..Len(cut') : i = Len(cut) + 1 \/ i \in 1..Len(cut)
    BY <2>2, <2>6
  <2>8. /\ \A i, m \in Nat : NotAfter(i, m, inode, offset) => Before(i, m, inode, offset')
        /\ \A i, m \in Nat : NotAfter(i, m, inode, offset) => NotAfter(i, m, inode, offset')
        /\ NotAfter(inode, offset', inode, offset')
    BY <2>1, <2>5 DEF NotAfter, Before
  <2>9. /\ NotAfter(checkpoint.inode, checkpoint.offset, inode, offset)
        /\ \A i \in 1..Len(cut) : /\ cut[i].Inode \in Nat /\ cut[i].Offset \in Nat
                                  /\ NotAfter(cut[i].Inode, cut[i].Offset, inode, offset)
    BY <1>1, <2>1, <2>4, SourceTypes DEF PositionInv, ReaderAhead
  <2>10. ReaderAhead'
    BY <1>2, <2>1, <2>6, <2>7, <2>8, <2>9 DEF ReaderAhead
  <2>11. CutInOrder'
    <3> SUFFICES ASSUME NEW i \in 1..Len(cut'), NEW j \in 1..Len(cut'), i < j
                 PROVE  Before(cut'[i].Inode, cut'[i].Offset, cut'[j].Inode, cut'[j].Offset)
      BY DEF CutInOrder
    <3>1. i \in 1..Len(cut)
      BY <2>1, <2>7
    <3>2. CASE j \in 1..Len(cut)
      BY <2>4, <2>7, <3>1, <3>2 DEF PositionInv, CutInOrder
    <3>3. CASE j = Len(cut) + 1
      BY <2>6, <2>7, <2>8, <2>9, <3>1, <3>3
    <3> QED BY <2>7, <3>2, <3>3
  <2>12. CheckpointBeforeCut'
    <3> SUFFICES ASSUME NEW i \in (nextSequence + 1)..Len(cut')
                 PROVE  Before(checkpoint.inode, checkpoint.offset, cut'[i].Inode, cut'[i].Offset)
      BY <1>2 DEF CheckpointBeforeCut
    <3>1. CASE i \in (nextSequence + 1)..Len(cut)
      <4>1. i \in 1..Len(cut)
        BY <2>1, <3>1
      <4> QED BY <2>4, <2>7, <3>1, <4>1 DEF PositionInv, CheckpointBeforeCut
    <3>2. CASE i = Len(cut) + 1
      BY <2>1, <2>6, <2>7, <2>8, <2>9, <3>2
    <3> QED BY <2>1, <2>7, <3>1, <3>2
  <2>13. CheckpointResumable'
    BY <1>2, <1>3, <2>4 DEF PositionInv, CheckpointResumable
  <2>14. \A k \in 1..Len(cut') : WholeLine(cut[k])'
    <3>1. WholeLine(r) /\ \A k \in 1..Len(cut) : WholeLine(cut[k])
      BY <2>4, <2>6 DEF PositionInv
    <3>2. \A k \in 1..Len(cut') : WholeLine(cut'[k])
      BY <2>7, <3>1
    <3> QED BY <1>3, <3>2 DEF WholeLine
  <2> QED BY <2>1, <2>5, <2>10, <2>11, <2>12, <2>13, <2>14 DEF PositionInv
<1> QED BY <1>5, <1>6, <1>7, <1>8, <1>9, <1>10, <1>11 DEF Follow, FollowFails, FollowStep

(* The record the collector commits is the next one cut.                      *)
LEMMA CommittedIsNext ==
    ASSUME SourceInv, NEW r \in pending, Due(r)
    PROVE  /\ nextSequence + 1 \in 1..Len(cut) /\ r = cut[nextSequence + 1]
           /\ r \in lineRecord /\ r.Inode \in Inodes /\ r.Offset \in Nat
           /\ r.Inode <= lastInode
           /\ truncations = 0 => WholeLine(r)
           /\ truncations = 0 => Before(checkpoint.inode, checkpoint.offset, r.Inode, r.Offset)
<1>1. IngestInv /\ NamedInOrder /\ (truncations = 0 => PositionInv)
  BY DEF SourceInv
<1>2. nextSequence \in Nat /\ Len(cut) \in Nat /\ \A i \in 1..Len(cut) : cut[i] \in lineRecord
  BY <1>1, SourceTypes
<1>3. r.Sequence \in 0..(Len(cut) - 1) /\ r = cut[r.Sequence + 1]
  BY <1>1 DEF IngestInv, InFlightFromCut, InFlight
<1>4. nextSequence + 1 \in 1..Len(cut) /\ r = cut[nextSequence + 1]
  BY <1>2, <1>3 DEF Due
<1>5. r \in lineRecord /\ r.Inode \in Inodes /\ r.Offset \in Nat
  BY <1>2, <1>4 DEF lineRecord
<1>6. r.Inode <= lastInode
  BY <1>1, <1>4 DEF NamedInOrder
<1>7. truncations = 0 =>
        WholeLine(r) /\ Before(checkpoint.inode, checkpoint.offset, r.Inode, r.Offset)
  BY <1>1, <1>2, <1>4 DEF PositionInv, CheckpointBeforeCut
<1> QED BY <1>4, <1>5, <1>6, <1>7

LEMMA CommitSource ==
    ASSUME SourceInv, IngestInv', Commit
    PROVE  SourceInv'
<1>1. IngestInv /\ NamedInOrder /\ (truncations = 0 => PositionInv)
  BY DEF SourceInv
<1>2. PICK r \in pending : Due(r) /\ checkpoint' = CheckpointAfter(r)
  BY DEF Commit, persistMailLogRecord
<1>3. checkpoint'.inode = r.Inode /\ checkpoint'.offset = r.Offset
  BY <1>2 DEF CheckpointAfter
<1>4. /\ UNCHANGED <<files, path, lastInode, truncations>>
      /\ UNCHANGED <<fpc, inode, offset, buffered, pendingText, cut>>
      /\ nextSequence' = nextSequence + 1
  BY DEF Commit, followerVars, followVars, logVars
<1>5. /\ nextSequence + 1 \in 1..Len(cut) /\ r = cut[nextSequence + 1]
      /\ r.Inode <= lastInode
      /\ truncations = 0 => WholeLine(r)
  BY <1>2, CommittedIsNext
<1>6. nextSequence \in Nat /\ Len(cut) \in Nat
  BY <1>1, SourceTypes
<1>7. NamedInOrder'
  BY <1>1, <1>3, <1>4, <1>5 DEF NamedInOrder
<1> SUFFICES ASSUME truncations = 0 PROVE PositionInv'
  BY <1>4, <1>7 DEF SourceInv
<1>8. PositionInv
  BY <1>1
<1>9. CheckpointResumable'
  BY <1>3, <1>4, <1>5 DEF CheckpointResumable, WholeLine
<1>10. CheckpointBeforeCut'
  <2> SUFFICES ASSUME NEW i \in (nextSequence + 2)..Len(cut)
               PROVE  Before(r.Inode, r.Offset, cut[i].Inode, cut[i].Offset)
    BY <1>3, <1>4, <1>6 DEF CheckpointBeforeCut
  <2>1. i \in 1..Len(cut) /\ nextSequence + 1 < i
    BY <1>6
  <2> QED BY <1>5, <1>8, <2>1 DEF PositionInv, CutInOrder
<1>11. ReaderAhead'
  BY <1>3, <1>4, <1>5, <1>8 DEF PositionInv, ReaderAhead
<1>12. (BufferInFile /\ PendingInFile /\ CutInOrder)'
  BY <1>4, <1>8 DEF PositionInv, BufferInFile, PendingInFile, CutInOrder
<1>13. \A k \in 1..Len(cut') : WholeLine(cut[k])'
  BY <1>4, <1>8 DEF PositionInv, WholeLine
<1>14. fpc' = "reopen" => path' # inode'
  BY <1>4, <1>8 DEF PositionInv
<1> QED BY <1>9, <1>10, <1>11, <1>12, <1>13, <1>14 DEF PositionInv

(* After a run has ended, only the checkpoint is left to start from.          *)
LEMMA RunEndsSource ==
    ASSUME SourceInv, IngestInv',
           CommitRefused \/ CommitThenFail \/ FollowErrorReported \/ Crash
    PROVE  SourceInv'
<1>1. IngestInv /\ NamedInOrder /\ (truncations = 0 => PositionInv)
  BY DEF SourceInv
<1>2. /\ fpc' = "off" /\ inode' = NoFile /\ cut' = <<>> /\ Len(cut') = 0 /\ nextSequence' = 0
      /\ UNCHANGED <<files, path, lastInode, truncations>>
  BY EmptySeq DEF CommitRefused, CommitThenFail, FollowErrorReported, Crash, Stop, StopFollower, logVars
<1>3. checkpoint'.inode <= lastInode /\ (truncations = 0 => CheckpointResumable')
  <2>1. CASE CommitThenFail
    <3>1. PICK r \in pending : Due(r) /\ checkpoint' = CheckpointAfter(r)
      BY <2>1 DEF CommitThenFail, persistMailLogRecord
    <3>2. checkpoint'.inode = r.Inode /\ checkpoint'.offset = r.Offset
      BY <3>1 DEF CheckpointAfter
    <3>3. r.Inode <= lastInode /\ (truncations = 0 => WholeLine(r))
      BY <3>1, CommittedIsNext
    <3> QED BY <1>2, <3>2, <3>3 DEF CheckpointResumable, WholeLine
  <2>2. CASE UNCHANGED checkpoint
    BY <1>1, <1>2, <2>2 DEF NamedInOrder, PositionInv, CheckpointResumable
  <2> QED BY <2>1, <2>2 DEF CommitRefused, FollowErrorReported, Crash, durableVars
<1>4. NamedInOrder'
  <2>1. lastInode \in Nat
    BY <1>1, SourceTypes
  <2> QED BY <1>1, <1>2, <1>3, <2>1 DEF NamedInOrder, NoFile
<1>5. truncations = 0 => PositionInv'
  BY <1>2, <1>3 DEF PositionInv, BufferInFile, PendingInFile, CutInOrder,
                    CheckpointBeforeCut, ReaderAhead
<1> QED BY <1>2, <1>4, <1>5 DEF SourceInv

LEMMA PipelineSource ==
    ASSUME SourceInv, IngestInv',
           \/ Start \/ DrainDone \/ Collect \/ UNCHANGED ingestVars
           \/ \E w \in Workers : TakeRecord(w) \/ PutParsed(w)
    PROVE  SourceInv'
<1>1. UNCHANGED <<logVars, followVars, checkpoint, nextSequence>>
  BY DEF Start, DrainDone, Collect, TakeRecord, PutParsed, ingestVars, pipelineVars,
         followerVars, durableVars, collectVars
<1>2. /\ UNCHANGED <<files, path, lastInode, truncations>>
      /\ UNCHANGED <<fpc, inode, offset, buffered, pendingText, cut, checkpoint, nextSequence>>
  BY <1>1 DEF logVars, followVars
<1> QED BY <1>2, QuietSource

----------------------------------------------------------------------------
(* The theorems.                                                             *)

LEMMA SourceInductive == SourceInv /\ [IngestNext]_ingestVars => SourceInv'
<1> SUFFICES ASSUME SourceInv, [IngestNext]_ingestVars PROVE SourceInv'
  OBVIOUS
<1>1. IngestInv'
  BY IngestInductive DEF SourceInv
<1> QED
  BY <1>1, LogMovesSource, FollowSource, CommitSource, RunEndsSource, PipelineSource
  DEF IngestNext

(* Reader, records and checkpoint agree with the files: SourceInv holds in    *)
(* every state of every run of the pipeline.                                  *)
THEOREM SourceCorrect == IngestSpec => []SourceInv
<1>1. IngestInit => SourceInv
  BY SourceInitInv
<1>2. SourceInv /\ [IngestNext]_ingestVars => SourceInv'
  BY SourceInductive
<1> QED BY <1>1, <1>2, PTL DEF IngestSpec

(* As long as no file is truncated, every record followMailLog cuts is one    *)
(* whole line of the file it names, up to the offset it names, whether the    *)
(* daemon's writes were seen in part and however the files were rotated.      *)
THEOREM RecordsWhole == IngestSpec => []RecordsAreWholeLines
<1>1. SourceInv => RecordsAreWholeLines
  BY DEF SourceInv, PositionInv, RecordsAreWholeLines
<1> QED BY <1>1, SourceCorrect, PTL

(* As long as no file is truncated, the checkpoint of ingest_state is at the  *)
(* end of a line of the file it names, so that a restart resumes between two  *)
(* lines.                                                                     *)
THEOREM ResumesBetweenLines == IngestSpec => []CheckpointResumable
<1>1. SourceInv => CheckpointResumable
  BY DEF SourceInv, PositionInv, CheckpointResumable
<1> QED BY <1>1, SourceCorrect, PTL

(* persistMailLogRecord moves the checkpoint forward with every line it       *)
(* commits, and nothing else moves it: retries, rotations and out-of-order    *)
(* workers never take it back, as long as no file is truncated.               *)
THEOREM CheckpointOnlyAdvances == IngestSpec => CheckpointAdvances
<1> DEFINE Advance ==
             truncations = 0 /\ <<checkpoint, committed>>' # <<checkpoint, committed>> =>
               \/ checkpoint'.inode > checkpoint.inode
               \/ checkpoint'.inode = checkpoint.inode /\ checkpoint'.offset > checkpoint.offset
<1>1. SourceInv /\ [IngestNext]_ingestVars => [Advance]_ingestVars
  <2> SUFFICES ASSUME SourceInv, IngestNext PROVE Advance
    OBVIOUS
  <2>1. CASE Commit \/ CommitThenFail
    <3>1. PICK r \in pending : Due(r) /\ checkpoint' = CheckpointAfter(r)
      BY <2>1 DEF Commit, CommitThenFail, persistMailLogRecord
    <3>2. checkpoint'.inode = r.Inode /\ checkpoint'.offset = r.Offset
      BY <3>1 DEF CheckpointAfter
    <3>3. truncations = 0 => Before(checkpoint.inode, checkpoint.offset, r.Inode, r.Offset)
      BY <3>1, CommittedIsNext
    <3>4. /\ checkpoint.inode \in Nat /\ checkpoint.offset \in Nat
          /\ r.Inode \in Nat /\ r.Offset \in Nat
      BY <3>1, CommittedIsNext, SourceTypes, FollowerAssumption DEF SourceInv, Inodes
    <3> QED BY <3>2, <3>3, <3>4 DEF Before
  <2>2. CASE UNCHANGED <<checkpoint, committed>>
    BY <2>2
  <2>3. Commit \/ CommitThenFail \/ UNCHANGED <<checkpoint, committed>>
    BY DEF IngestNext, LogMoves, Start, Follow, FollowFails, TakeRecord, PutParsed, Collect,
           DrainDone, CommitRefused, FollowErrorReported, Crash, pipelineVars, durableVars
  <2> QED BY <2>1, <2>2, <2>3
<1>2. IngestSpec => [][Advance]_ingestVars
  BY <1>1, SourceCorrect, PTL DEF IngestSpec
<1> QED BY <1>2 DEF CheckpointAdvances

----------------------------------------------------------------------------
(* The records taken from the mail log and not lost: those committed by the   *)
(* runs before, and those this run has cut.                                   *)
Taken ==
    [k \in 1..(base + Len(cut)) |-> IF k <= base THEN committed[k] ELSE cut[k - base]]

(* The checkpoint is the place of the last record committed.                  *)
CheckpointIsLast ==
    checkpoint = IF committed = <<>> THEN NoCheckpoint
                 ELSE CheckpointAfter(committed[Len(committed)])

OrderInv ==
    /\ SourceInv
    /\ LogOrder /\ ReaderOrder /\ CutOrder(Taken)
    /\ CheckpointIsLast

LEMMA TakenType ==
    ASSUME IngestInv
    PROVE  /\ base \in Nat /\ Len(cut) \in Nat /\ Len(committed) \in Nat /\ nextSequence \in Nat
           /\ cut \in Seq(lineRecord) /\ committed \in Seq(lineRecord)
           /\ base <= Len(committed) /\ Len(committed) = base + nextSequence
           /\ Len(committed) <= Len(Taken)
           /\ Taken \in Seq(lineRecord) /\ Len(Taken) = base + Len(cut) /\ Len(Taken) \in Nat
           /\ \A k \in 1..Len(committed) : k \in 1..Len(Taken) /\ Taken[k] = committed[k]
           /\ \A k \in 1..Len(cut) : base + k \in 1..Len(Taken) /\ Taken[base + k] = cut[k]
<1>1. /\ base \in Nat /\ Len(cut) \in Nat /\ Len(committed) \in Nat /\ nextSequence \in Nat
      /\ cut \in Seq(lineRecord) /\ committed \in Seq(lineRecord)
  BY LenProperties DEF IngestInv, IngestTypeOK, FollowerInv, FollowerTypeOK
<1>2. /\ Len(committed) = base + nextSequence /\ nextSequence <= Len(cut)
      /\ \A i \in 1..nextSequence : committed[base + i] = cut[i]
  BY DEF IngestInv, InSourceOrder
<1>3. PICK n \in Nat : n = base + Len(cut)
  BY <1>1
<1>4. /\ \A k \in 1..Len(cut) : cut[k] \in lineRecord
      /\ \A k \in 1..Len(committed) : committed[k] \in lineRecord
  BY <1>1, ElementOfSeq
<1>5. \A k \in 1..n : (IF k <= base THEN committed[k] ELSE cut[k - base]) \in lineRecord
  <2> SUFFICES ASSUME NEW k \in 1..n
               PROVE  (IF k <= base THEN committed[k] ELSE cut[k - base]) \in lineRecord
    OBVIOUS
  <2>1. k <= base => k \in 1..Len(committed)
    BY <1>1, <1>2
  <2>2. k > base => k - base \in 1..Len(cut)
    BY <1>1, <1>3
  <2> QED BY <1>1, <1>4, <2>1, <2>2
<1>6. Taken = [k \in 1..n |-> IF k <= base THEN committed[k] ELSE cut[k - base]]
  BY <1>3 DEF Taken
<1>7. Taken \in [1..n -> lineRecord]
  BY <1>5, <1>6
<1>8. Taken \in Seq(lineRecord) /\ Len(Taken) = n
  BY <1>7
<1>9. ASSUME NEW k \in 1..Len(cut)
      PROVE  base + k \in 1..Len(Taken) /\ Taken[base + k] = cut[k]
  <2>1. PICK j \in Nat : j = base + k
    BY <1>1
  <2>2. j \in 1..n /\ ~(j <= base) /\ j - base = k
    BY <1>1, <1>3, <2>1
  <2>3. Taken[j] = cut[k]
    BY <1>6, <2>2
  <2> QED BY <1>8, <2>1, <2>2, <2>3
<1>10. ASSUME NEW k \in 1..Len(committed)
       PROVE  k \in 1..Len(Taken) /\ Taken[k] = committed[k]
  <2>1. k \in 1..n
    BY <1>1, <1>2, <1>3
  <2>2. CASE k <= base
    BY <1>6, <1>8, <2>1, <2>2
  <2>3. CASE k > base
    <3>1. PICK i \in Nat : i = k - base
      BY <1>1, <2>3
    <3>2. i \in 1..nextSequence /\ i \in 1..Len(cut) /\ base + i = k
      BY <1>1, <1>2, <2>3, <3>1
    <3>3. Taken[base + i] = cut[i] /\ committed[base + i] = cut[i]
      BY <1>2, <1>9, <3>2
    <3> QED BY <1>8, <2>1, <3>2, <3>3
  <2> QED BY <1>1, <2>2, <2>3
<1> QED BY <1>1, <1>2, <1>3, <1>8, <1>9, <1>10, SMTT(30)

LEMMA TakenKept ==
    ASSUME UNCHANGED <<cut, base>>, \A k \in 1..base : committed'[k] = committed[k], base \in Nat,
           Len(cut) \in Nat
    PROVE  Taken' = Taken
<1>1. PICK n \in Nat : n = base + Len(cut)
  OBVIOUS
<1>2. Taken = [k \in 1..n |-> IF k <= base THEN committed[k] ELSE cut[k - base]]
  BY <1>1 DEF Taken
<1>3. Taken' = [k \in 1..n |-> IF k <= base THEN committed'[k] ELSE cut[k - base]]
  BY <1>1 DEF Taken
<1>4. ASSUME NEW k \in 1..n
      PROVE  (IF k <= base THEN committed'[k] ELSE cut[k - base])
               = (IF k <= base THEN committed[k] ELSE cut[k - base])
  OBVIOUS
<1> QED BY <1>2, <1>3, <1>4

LEMMA CutOrderNow ==
    ASSUME NEW u, Taken' = u, CutOrder(u)'
    PROVE  CutOrder(Taken)'
BY DEF CutOrder

LEMMA SameTaken ==
    ASSUME CutOrder(Taken), Taken' = Taken, UNCHANGED logVars,
           \A t : BeforeReader(t) => BeforeReader(t)'
    PROVE  CutOrder(Taken)'
<1>1. ASSUME NEW u, u = Taken PROVE CutOrder(u)'
  <2>1. CutOrder(u)
    BY <1>1
  <2> QED BY <2>1, QuietCut
<1> QED BY <1>1, CutOrderNow

LEMMA OrderInitially == IngestInit => OrderInv
<1> SUFFICES ASSUME IngestInit PROVE OrderInv
  OBVIOUS
<1>1. SourceInv /\ IngestInv /\ LogOrder
  BY SourceInitInv, LogOrderInit DEF SourceInv, IngestInit
<1>2. /\ committed = <<>> /\ checkpoint = NoCheckpoint /\ base = 0 /\ cut = <<>> /\ inode = NoFile
  BY DEF IngestInit, FollowerInit, FollowInit
<1>3. Len(Taken) = 0
  BY <1>1, <1>2, EmptySeq, TakenType
<1>4. CutOrder(Taken)
  BY <1>3 DEF CutOrder
<1>5. ReaderOrder
  BY <1>2 DEF ReaderOrder
<1> QED BY <1>1, <1>2, <1>4, <1>5 DEF OrderInv, CheckpointIsLast

LEMMA LogMovesOrder ==
    ASSUME OrderInv, SourceInv', LogMoves
    PROVE  OrderInv' /\ Taken' = Taken
<1>1. /\ IngestInv /\ FollowerInv /\ FollowerInv' /\ Environment
      /\ LogOrder /\ ReaderOrder /\ CutOrder(Taken) /\ CheckpointIsLast
  BY DEF OrderInv, SourceInv, IngestInv, LogMoves
<1>2. UNCHANGED <<cut, base, committed, checkpoint>>
  BY DEF LogMoves, pipelineVars, durableVars, Environment, Write, Rename, Create, WriterReopen,
         Truncate, followVars
<1>3. Taken' = Taken
  BY <1>2 DEF Taken
<1>4. Taken \in Seq(lineRecord)
  BY <1>1, TakenType
<1>5. LogOrder' /\ ReaderOrder'
  BY <1>1, LogOrderKept, ReaderOrderKept
<1>6. ASSUME NEW u, u = Taken PROVE CutOrder(u)'
  <2>1. u \in Seq(lineRecord) /\ CutOrder(u)
    BY <1>1, <1>4, <1>6
  <2> QED BY <1>1, <2>1, EnvironmentCut
<1>7. CutOrder(Taken)'
  BY <1>3, <1>6, CutOrderNow
<1> QED BY <1>1, <1>2, <1>3, <1>5, <1>7 DEF OrderInv, CheckpointIsLast

(* A record more is cut.                                                      *)
LEMMA ReadLineTaken ==
    ASSUME OrderInv, FollowerInv', ReadLine, UNCHANGED <<base, committed>>
    PROVE  /\ CutOrder(Taken)'
           /\ \E r \in lineRecord : cut' = Append(cut, r) /\ Taken' = Append(Taken, r)
<1>1. IngestInv /\ FollowerInv /\ LogOrder /\ ReaderOrder /\ CutOrder(Taken)
  BY DEF OrderInv, SourceInv, IngestInv
<1>2. /\ Taken \in Seq(lineRecord) /\ cut \in Seq(lineRecord) /\ base \in Nat
      /\ Len(cut) \in Nat /\ Len(Taken) = base + Len(cut)
  BY <1>1, TakenType
<1>3. PICK u : u = Taken
  OBVIOUS
<1>4. u \in Seq(lineRecord) /\ CutOrder(u)
  BY <1>1, <1>2, <1>3
<1>5. PICK r \in lineRecord : cut' = Append(cut, r) /\ CutOrder(Append(u, r))'
  BY <1>1, <1>4, ReadLineCut
<1>6. PICK n \in Nat, c \in Nat : n = base + Len(cut) /\ c = Len(cut)
  <2>1. PICK c \in Nat : c = Len(cut)
    BY <1>2
  <2>2. PICK b \in Nat : b = base
    BY <1>2
  <2>3. PICK n \in Nat : n = b + c
    OBVIOUS
  <2> QED BY <2>1, <2>2, <2>3
<1>7. /\ Len(cut') = c + 1 /\ cut'[c + 1] = r /\ \A i \in 1..c : cut'[i] = cut[i]
  BY <1>2, <1>5, <1>6, AppendProperties
<1>8. Taken' = [k \in 1..(n + 1) |-> IF k <= base THEN committed[k] ELSE cut'[k - base]]
  <2>1. base' + Len(cut') = n + 1
    BY <1>2, <1>6, <1>7
  <2> QED BY <2>1 DEF Taken
<1>9. Taken = [k \in 1..n |-> IF k <= base THEN committed[k] ELSE cut[k - base]]
  BY <1>6 DEF Taken
<1>10. /\ Append(u, r) \in Seq(lineRecord) /\ Len(Append(u, r)) = n + 1
       /\ Append(u, r)[n + 1] = r /\ \A k \in 1..n : Append(u, r)[k] = u[k]
  BY <1>2, <1>3, <1>4, <1>6, AppendProperties
<1>11. ASSUME NEW k \in 1..(n + 1)
       PROVE  (IF k <= base THEN committed[k] ELSE cut'[k - base]) = Append(u, r)[k]
  <2>1. CASE k <= base
    <3>1. k \in 1..n
      BY <1>2, <1>6, <2>1
    <3> QED BY <1>3, <1>9, <1>10, <2>1, <3>1
  <2>2. CASE k > base /\ k <= n
    <3>1. k \in 1..n /\ k - base \in 1..c /\ ~(k <= base)
      BY <1>2, <1>6, <2>2
    <3>2. Taken[k] = cut[k - base]
      BY <1>9, <3>1
    <3> QED BY <1>3, <1>7, <1>10, <3>1, <3>2
  <2>3. CASE k = n + 1
    <3>1. k - base = c + 1 /\ ~(k <= base)
      BY <1>2, <1>6, <2>3
    <3> QED BY <1>7, <1>10, <2>3, <3>1
  <2>4. k <= base \/ (k > base /\ k <= n) \/ k = n + 1
    <3>1. base \in Nat
      BY <1>2
    <3> QED BY <3>1
  <2> QED BY <2>1, <2>2, <2>3, <2>4
<1>12. Append(u, r) = [k \in 1..(n + 1) |-> Append(u, r)[k]]
  BY <1>10, LenProperties
<1>13. Taken' = Append(u, r)
  BY <1>8, <1>11, <1>12
<1>14. ASSUME NEW v, v = Append(u, r) PROVE CutOrder(v)'
  BY <1>5, <1>14
<1>15. CutOrder(Taken)'
  BY <1>13, <1>14, CutOrderNow
<1> QED BY <1>3, <1>5, <1>13, <1>15

(* The follower starts where the last record committed ends.                  *)
LEMMA OpenTaken ==
    ASSUME OrderInv, FollowerInv', FollowOpen(checkpoint), path # NoFile,
           UNCHANGED <<base, committed>>
    PROVE  ReaderOrder' /\ CutOrder(Taken)' /\ Taken' = Taken /\ Taken = committed
<1>1. /\ IngestInv /\ FollowerInv /\ LogOrder /\ CutOrder(Taken) /\ checkpoint \in Checkpoint
      /\ NamedInOrder /\ CheckpointIsLast
  BY SourceTypes DEF OrderInv, SourceInv
<1>2. /\ openMailLog(checkpoint) /\ UNCHANGED logVars /\ fpc = "off" /\ UNCHANGED cut
  BY DEF FollowOpen, OpenFails, openMailLog
<1>3. Taken' = Taken
  BY <1>2 DEF Taken
<1>4. cut = <<>> /\ Len(cut) = 0
  BY <1>1, <1>2, EmptySeq DEF NamedInOrder
<1>5. /\ Taken \in Seq(lineRecord) /\ committed \in Seq(lineRecord) /\ Len(Taken) = Len(committed)
      /\ Len(committed) \in Nat /\ \A k \in 1..Len(committed) : Taken[k] = committed[k]
  BY <1>1, <1>4, TakenType
<1>6. Taken = committed
  BY <1>5, SeqEqual
<1>7. committed # <<>> => /\ checkpoint.inode = committed[Len(committed)].Inode
                          /\ checkpoint.offset = committed[Len(committed)].Offset
  BY <1>1 DEF CheckpointIsLast, CheckpointAfter
<1>8. PICK ck \in Checkpoint : ck = checkpoint
  BY <1>1
<1>9. ASSUME NEW u, u = Taken PROVE CutOrder(u)'
  <2>1. /\ u \in Seq(lineRecord) /\ CutOrder(u) /\ openMailLog(ck)
        /\ u # <<>> => ck.inode = u[Len(u)].Inode /\ ck.offset = u[Len(u)].Offset
    BY <1>1, <1>2, <1>5, <1>6, <1>7, <1>8, <1>9
  <2> QED BY <1>1, <1>2, <2>1, OpenedCut
<1>10. ReaderOrder'
  BY <1>1, <1>2, OpenedOrder
<1> QED BY <1>3, <1>6, <1>9, <1>10, CutOrderNow

LEMMA FollowKeepsOrder ==
    ASSUME OrderInv, SourceInv', Follow \/ FollowFails
    PROVE  OrderInv'
<1>1. /\ IngestInv /\ FollowerInv /\ FollowerInv' /\ LogOrder /\ ReaderOrder /\ CutOrder(Taken)
      /\ CheckpointIsLast /\ checkpoint \in Checkpoint
  BY SourceTypes DEF OrderInv, SourceInv, IngestInv
<1>2. UNCHANGED <<base, committed, checkpoint>>
  BY DEF Follow, FollowFails, pipelineVars, durableVars
<1>3. ASSUME UNCHANGED logVars, ReaderOrder', CutOrder(Taken)'
      PROVE  OrderInv'
  <2>1. LogOrder'
    BY <1>1, <1>3 DEF LogOrder, TodoShape, Completed, logVars
  <2> QED BY <1>1, <1>2, <1>3, <2>1 DEF OrderInv, CheckpointIsLast
<1>4. CASE FollowOpen(checkpoint)
  <2>1. UNCHANGED logVars
    BY <1>4 DEF FollowOpen
  <2>2. CASE path # NoFile
    BY <1>1, <1>2, <1>3, <1>4, <2>1, <2>2, OpenTaken
  <2>3. CASE path = NoFile
    <3>1. /\ UNCHANGED <<inode, offset, buffered, pendingText, cut>>
          /\ fpc = "off" /\ fpc' = "failed"
      BY <1>4, <2>3 DEF FollowOpen, OpenFails, Fail
    <3>2. Taken' = Taken
      BY <1>2, <3>1 DEF Taken
    <3>3. ReaderOrder' /\ \A t : BeforeReader(t) => BeforeReader(t)'
      BY <1>1, <2>1, <3>1, SameReader
    <3> QED BY <1>1, <1>3, <2>1, <3>2, <3>3, SameTaken
  <2> QED BY <2>2, <2>3
<1>5. CASE ReadLine
  <2>1. UNCHANGED logVars
    BY <1>5 DEF ReadLine
  <2>2. ReaderOrder'
    BY <1>1, <1>5, ReadLineOrder
  <2> QED BY <1>1, <1>2, <1>3, <1>5, <2>1, <2>2, ReadLineTaken
<1>6. CASE ReadEOF \/ SendRecord \/ CheckRotation \/ Reopen \/ Poll \/ FollowError
  <2>1. UNCHANGED logVars /\ ReaderOrder' /\ \A t : BeforeReader(t) => BeforeReader(t)'
    <3>1. CASE ReadEOF
      BY <1>1, <3>1, ReadEOFOrder DEF ReadEOF
    <3>2. CASE ~ReadEOF
      BY <1>1, <1>6, <3>2, FollowOrder
    <3> QED BY <3>1, <3>2
  <2>2. UNCHANGED cut
    BY <1>6 DEF ReadEOF, SendRecord, CheckRotation, Reopen, Poll, FollowError, Fail, openMailLog
  <2>3. Taken' = Taken
    BY <1>2, <2>2 DEF Taken
  <2> QED BY <1>1, <1>3, <2>1, <2>3, SameTaken
<1> QED BY <1>4, <1>5, <1>6 DEF Follow, FollowFails, FollowStep

(* A commit moves neither what is taken nor where the reader is.              *)
LEMMA CommitOrder ==
    ASSUME OrderInv, SourceInv', Commit
    PROVE  OrderInv' /\ Taken' = Taken
<1>1. /\ IngestInv /\ LogOrder /\ ReaderOrder /\ CutOrder(Taken)
      /\ base \in Nat /\ Len(cut) \in Nat /\ base <= Len(committed) /\ Len(committed) \in Nat
  BY TakenType DEF OrderInv, SourceInv
<1>2. PICK r \in pending : Due(r) /\ persistMailLogRecord(r)
  BY DEF Commit
<1>3. r \in lineRecord
  BY <1>2, CommittedIsNext DEF OrderInv
<1>4. /\ Len(committed') = Len(committed) + 1 /\ committed'[Len(committed) + 1] = r
      /\ \A i \in 1..Len(committed) : committed'[i] = committed[i]
      /\ checkpoint' = CheckpointAfter(r)
  BY <1>1, <1>2, <1>3, PersistType DEF persistMailLogRecord
<1>5. /\ UNCHANGED <<fpc, inode, offset, buffered, pendingText, cut, base>>
      /\ UNCHANGED logVars
  BY DEF Commit, followerVars, followVars
<1>6. Taken' = Taken
  <2>1. \A k \in 1..base : committed'[k] = committed[k]
    BY <1>1, <1>4
  <2> QED BY <1>1, <1>5, <2>1, TakenKept
<1>7. LogOrder' /\ ReaderOrder' /\ \A t : BeforeReader(t) => BeforeReader(t)'
  BY <1>1, <1>5, SameReader DEF BeforeReader
<1>8. CutOrder(Taken)'
  BY <1>1, <1>5, <1>6, <1>7, SameTaken
<1>9. CheckpointIsLast'
  <2>1. Len(committed') # 0
    BY <1>1, <1>4
  <2>2. committed' # <<>>
    BY <2>1, EmptySeq
  <2>3. committed'[Len(committed')] = r
    BY <1>4
  <2> QED BY <1>4, <2>2, <2>3 DEF CheckpointIsLast
<1> QED BY <1>6, <1>7, <1>8, <1>9 DEF OrderInv

(* What is committed when the run ends is what the next run starts with.      *)
LEMMA RunEndsTaken ==
    ASSUME OrderInv, IngestInv', CommitRefused \/ CommitThenFail \/ FollowErrorReported \/ Crash
    PROVE  /\ Len(Taken') = Len(committed') /\ Len(committed') <= Len(Taken)
           /\ \A k \in 1..Len(committed') : committed'[k] = Taken[k] /\ Taken'[k] = committed'[k]
           /\ Taken' \in Seq(lineRecord) /\ Len(committed') \in Nat
           /\ CheckpointIsLast'
<1>1. IngestInv /\ CheckpointIsLast
  BY DEF OrderInv, SourceInv
<1>2. base' = Len(committed') /\ cut' = <<>>
  BY DEF CommitRefused, CommitThenFail, FollowErrorReported, Crash, Stop, StopFollower
<1>3. Len(cut') = 0
  BY <1>2, EmptySeq
<1>4. /\ base \in Nat /\ Len(cut) \in Nat /\ Len(committed) \in Nat /\ nextSequence \in Nat
      /\ Len(committed) = base + nextSequence /\ Len(committed) <= Len(Taken)
      /\ Len(Taken) = base + Len(cut)
      /\ \A k \in 1..Len(committed) : Taken[k] = committed[k]
      /\ \A k \in 1..Len(cut) : Taken[base + k] = cut[k]
  BY <1>1, TakenType
<1>5. committed' \in Seq(lineRecord)
  BY DEF IngestInv, IngestTypeOK
<1>6. /\ Taken' = committed' /\ Taken' \in Seq(lineRecord)
      /\ Len(committed') \in Nat /\ Len(Taken') = Len(committed')
  <2>1. PICK u \in Seq(lineRecord) : u = committed'
    BY <1>5
  <2>2. PICK m \in Nat : m = Len(u)
    BY <2>1, LenProperties
  <2>3. base' = m /\ base' + Len(cut') = m
    BY <1>2, <1>3, <2>1, <2>2
  <2>4. Taken' = [k \in 1..m |-> IF k <= m THEN u[k] ELSE cut'[k - m]]
    BY <2>1, <2>3 DEF Taken
  <2>5. Taken' = [k \in 1..m |-> u[k]]
    BY <2>4
  <2>6. u = [k \in 1..m |-> u[k]]
    BY <2>2, LenProperties
  <2> QED BY <2>1, <2>2, <2>5, <2>6
<1>7. CASE UNCHANGED <<committed, checkpoint>>
  BY <1>1, <1>4, <1>6, <1>7 DEF CheckpointIsLast
<1>8. CASE CommitThenFail
  <2>1. PICK r \in pending : Due(r) /\ persistMailLogRecord(r)
    BY <1>8 DEF CommitThenFail
  <2>2. r \in lineRecord /\ nextSequence + 1 \in 1..Len(cut) /\ r = cut[nextSequence + 1]
    BY <2>1, CommittedIsNext DEF OrderInv
  <2>3. /\ Len(committed') = Len(committed) + 1 /\ committed'[Len(committed) + 1] = r
        /\ \A i \in 1..Len(committed) : committed'[i] = committed[i]
        /\ checkpoint' = CheckpointAfter(r)
    BY <1>1, <2>1, <2>2, PersistType DEF persistMailLogRecord
  <2>4. PICK m \in Nat, b \in Nat, n \in Nat, c \in Nat :
          m = Len(committed) /\ b = base /\ n = nextSequence /\ c = Len(cut)
    BY <1>4
  <2>5. m = b + n /\ n + 1 <= c /\ m + 1 = b + (n + 1) /\ m + 1 <= b + c
    BY <1>4, <2>2, <2>4
  <2>6. Taken[b + (n + 1)] = r
    BY <1>4, <2>2, <2>4
  <2>7. Len(committed') <= Len(Taken)
    BY <1>4, <2>3, <2>4, <2>5
  <2>8. ASSUME NEW k \in 1..(m + 1) PROVE committed'[k] = Taken[k]
    <3>1. k \in 1..m \/ k = m + 1
      OBVIOUS
    <3> QED BY <1>4, <2>3, <2>4, <2>5, <2>6, <3>1
  <2>9. CheckpointIsLast'
    <3>1. Len(committed') # 0
      BY <2>3, <2>4
    <3>2. committed' # <<>>
      BY <3>1, EmptySeq
    <3>3. committed'[Len(committed')] = r
      BY <2>3
    <3> QED BY <2>3, <3>2, <3>3 DEF CheckpointIsLast
  <2> QED BY <1>6, <2>3, <2>4, <2>7, <2>8, <2>9
<1> QED BY <1>7, <1>8 DEF CommitRefused, FollowErrorReported, Crash, durableVars

LEMMA RunEndsOrder ==
    ASSUME OrderInv, SourceInv', CommitRefused \/ CommitThenFail \/ FollowErrorReported \/ Crash
    PROVE  OrderInv'
<1>1. IngestInv /\ IngestInv' /\ LogOrder /\ CutOrder(Taken)
  BY DEF OrderInv, SourceInv
<1>2. UNCHANGED logVars /\ inode' = NoFile
  BY DEF CommitRefused, CommitThenFail, FollowErrorReported, Crash, Stop, StopFollower
<1>3. /\ Len(Taken') = Len(committed') /\ Len(committed') <= Len(Taken)
      /\ \A k \in 1..Len(committed') : committed'[k] = Taken[k] /\ Taken'[k] = committed'[k]
      /\ Taken' \in Seq(lineRecord) /\ Len(committed') \in Nat /\ CheckpointIsLast'
  BY <1>1, RunEndsTaken
<1>4. PICK u, v : u = Taken' /\ v = Taken
  OBVIOUS
<1>5. /\ u \in Seq(lineRecord) /\ v \in Seq(lineRecord) /\ CutOrder(v)
      /\ Len(u) <= Len(v) /\ \A k \in 1..Len(u) : u[k] = v[k]
  BY <1>1, <1>3, <1>4, TakenType
<1>6. CutOrder(u)'
  BY <1>2, <1>5, StoppedCut
<1>7. CutOrder(Taken)'
  BY <1>4, <1>6, CutOrderNow
<1>8. LogOrder' /\ ReaderOrder'
  BY <1>1, <1>2 DEF LogOrder, TodoShape, Completed, logVars, ReaderOrder
<1> QED BY <1>3, <1>7, <1>8 DEF OrderInv

(* Workers and collector pass records on.                                     *)
LEMMA PipelineKeeps ==
    ASSUME \/ Start \/ DrainDone \/ Collect \/ UNCHANGED ingestVars
           \/ \E w \in Workers : TakeRecord(w) \/ PutParsed(w)
    PROVE  /\ UNCHANGED logVars
           /\ UNCHANGED <<fpc, inode, offset, buffered, pendingText, rotatedAt, cut,
                          interrupted, checkpoint, committed, base>>
           /\ Taken' = Taken
<1>1. UNCHANGED <<logVars, faults, followVars, durableVars, base>>
  BY DEF Start, DrainDone, Collect, TakeRecord, PutParsed, ingestVars, pipelineVars, followerVars
<1>2. /\ UNCHANGED logVars
      /\ UNCHANGED <<fpc, inode, offset, buffered, pendingText, rotatedAt, cut,
                     interrupted, checkpoint, committed, base>>
  BY <1>1 DEF followVars, durableVars
<1>3. Taken' = Taken
  BY <1>2 DEF Taken
<1> QED BY <1>2, <1>3

LEMMA OrderInductive == OrderInv /\ [IngestNext]_ingestVars => OrderInv'
<1> SUFFICES ASSUME OrderInv, [IngestNext]_ingestVars PROVE OrderInv'
  OBVIOUS
<1>1. SourceInv'
  BY SourceInductive DEF OrderInv
<1>2. CASE \/ Start \/ DrainDone \/ Collect \/ UNCHANGED ingestVars
           \/ \E w \in Workers : TakeRecord(w) \/ PutParsed(w)
  <2>1. /\ UNCHANGED logVars /\ Taken' = Taken
        /\ UNCHANGED <<fpc, inode, offset, buffered, pendingText, checkpoint, committed>>
    BY <1>2, PipelineKeeps
  <2>2. LogOrder' /\ ReaderOrder' /\ \A t : BeforeReader(t) => BeforeReader(t)'
    BY <2>1, SameReader DEF OrderInv, BeforeReader
  <2>3. CutOrder(Taken)'
    BY <2>1, <2>2, SameTaken DEF OrderInv
  <2> QED BY <1>1, <2>1, <2>2, <2>3 DEF OrderInv, CheckpointIsLast
<1> QED
  BY <1>1, <1>2, LogMovesOrder, FollowKeepsOrder, CommitOrder, RunEndsOrder DEF IngestNext

(* Every record that is cut holds later lines of the mail log than those cut  *)
(* before it, in this run or an earlier one, whatever is truncated, rotated,  *)
(* refused or run again, and the checkpoint is where the last one committed   *)
(* ends.                                                                      *)
THEOREM MailOrdered == IngestSpec => []OrderInv
<1>1. IngestInit => OrderInv
  BY OrderInitially
<1>2. OrderInv /\ [IngestNext]_ingestVars => OrderInv'
  BY OrderInductive
<1> QED BY <1>1, <1>2, PTL DEF IngestSpec

----------------------------------------------------------------------------
(* No line left out.  While nothing has happened that may lose lines, the     *)
(* k-th record taken holds line k, and the reader is in the line after the    *)
(* last one taken; while no file is open no rotation has begun.               *)
InStep ==
    /\ \A k \in 1..Len(Taken) : LineOf(Taken[k]) = k
    /\ ReaderInStep(Len(Taken) + 1)
    /\ inode = NoFile => path = 1 /\ lastInode = 1

CommittedWhole == \A k \in 1..Len(committed) : WholeLine(committed[k])

StepInv ==
    /\ OrderInv
    /\ truncations = 0 => LogInSteps /\ CommittedWhole
    /\ ~MayLose => InStep

LEMMA MailGrows ==
    ASSUME OrderInv, OrderInv', [IngestNext]_ingestVars
    PROVE  /\ orderly' = orderly
           /\ truncations \in Nat /\ truncations' \in Nat /\ truncations <= truncations'
           /\ interrupted => interrupted'
           /\ Completed' = Completed \/ Completed' = Completed + 1
           /\ LogMoves \/ UNCHANGED logVars
<1>1. FollowerInv /\ FollowerInv' /\ LogOrder
  BY DEF OrderInv, SourceInv, IngestInv
<1>2. LogMoves \/ UNCHANGED logVars
  BY DEF IngestNext, Start, Follow, FollowFails, TakeRecord, PutParsed, Collect, Commit, DrainDone,
         CommitRefused, CommitThenFail, FollowErrorReported, Crash, FollowOpen, FollowStep,
         FollowError, ReadLine, ReadEOF, SendRecord, CheckRotation, Reopen, Poll, ingestVars,
         followerVars
<1>3. truncations \in Nat /\ truncations' \in Nat
  <2>1. truncations \in 0..MaxTruncations /\ truncations' \in 0..MaxTruncations
    BY <1>1 DEF FollowerInv, FollowerTypeOK
  <2> QED BY <2>1, FollowerAssumption
<1>4. Stop \/ interrupted' = interrupted
  <2>1. CASE LogMoves
    BY <2>1 DEF LogMoves, Environment, Write, Rename, Create, WriterReopen, Truncate, followVars
  <2>2. CASE Follow \/ FollowFails
    BY <2>2 DEF Follow, FollowFails, FollowOpen, FollowStep, FollowError, ReadLine, ReadEOF,
                SendRecord, CheckRotation, Reopen, Poll, openMailLog, Fail
  <2>3. CASE \/ Start \/ DrainDone \/ Collect \/ UNCHANGED ingestVars
             \/ \E w \in Workers : TakeRecord(w) \/ PutParsed(w)
    BY <2>3, PipelineKeeps
  <2>4. CASE Commit \/ CommitRefused \/ CommitThenFail \/ FollowErrorReported \/ Crash
    BY <2>4 DEF Commit, followerVars, followVars, CommitRefused, CommitThenFail,
                FollowErrorReported, Crash
  <2> QED BY <2>1, <2>2, <2>3, <2>4 DEF IngestNext
<1>5. interrupted => interrupted'
  BY <1>4 DEF Stop, StopFollower
<1>6. CASE LogMoves
  <2>1. Environment
    BY <1>6 DEF LogMoves
  <2>2. Completed' \in {Completed, Completed + 1}
    BY <1>1, <2>1, EnvironmentMoves
  <2>3. orderly' = orderly /\ truncations' \in {truncations, truncations + 1}
    BY <2>1 DEF Environment, Write, Rename, Create, WriterReopen, Truncate
  <2> QED BY <1>2, <1>3, <1>5, <2>2, <2>3
<1>7. CASE UNCHANGED logVars
  <2>1. UNCHANGED <<orderly, truncations>> /\ Completed' = Completed
    BY <1>7 DEF logVars, Completed
  <2> QED BY <1>2, <1>3, <1>5, <2>1
<1> QED BY <1>2, <1>6, <1>7

(* What is known before and after a step that loses nothing.                  *)
LEMMA StillIntact ==
    ASSUME StepInv, OrderInv', [IngestNext]_ingestVars, ~MayLose'
    PROVE  /\ ~MayLose /\ InStep /\ LogInSteps /\ CommittedWhole /\ orderly
           /\ truncations = 0 /\ truncations' = 0 /\ BufferInFile /\ PendingInFile
<1>1. /\ orderly' = orderly /\ (interrupted => interrupted')
      /\ truncations \in Nat /\ truncations' \in Nat /\ truncations <= truncations'
  BY MailGrows DEF StepInv
<1>2. orderly' /\ ~(truncations' > 0) /\ ~interrupted'
  BY DEF MayLose
<1>3. orderly /\ truncations = 0 /\ truncations' = 0 /\ ~interrupted
  BY <1>1, <1>2
<1>4. ~MayLose
  BY <1>3 DEF MayLose
<1>5. BufferInFile /\ PendingInFile
  BY <1>3 DEF StepInv, OrderInv, SourceInv, PositionInv
<1> QED BY <1>3, <1>4, <1>5 DEF StepInv

(* The primes of ReaderInStep at an unchanged number.                         *)
LEMMA SameNumber ==
    ASSUME NEW n, Len(Taken') + 1 = n, ReaderInStep(n)'
    PROVE  ReaderInStep(Len(Taken) + 1)'
BY DEF ReaderInStep, ReaderAtLine

LEMMA CommittedWholeKept ==
    ASSUME StepInv, OrderInv', [IngestNext]_ingestVars, truncations' = 0
    PROVE  CommittedWhole'
<1>1. /\ OrderInv /\ SourceInv /\ IngestInv /\ FollowerInv /\ FollowerInv'
      /\ committed \in Seq(lineRecord) /\ Len(committed) \in Nat
  BY TakenType DEF StepInv, OrderInv, SourceInv, IngestInv
<1>2. truncations = 0 /\ CommittedWhole
  BY <1>1, MailGrows DEF StepInv
<1>3. ASSUME NEW r \in lineRecord, WholeLine(r) PROVE WholeLine(r)'
  <2>1. Grows
    <3>1. CASE LogMoves
      BY <1>1, <3>1, WriteGrows DEF LogMoves
    <3>2. CASE UNCHANGED logVars
      BY <1>1, <3>2, SameFilesGrow DEF logVars
    <3> QED BY <1>1, <3>1, <3>2, MailGrows
  <2> QED BY <1>1, <1>3, <2>1, WholeLineKept
<1>4. ASSUME NEW k \in 1..Len(committed) PROVE committed[k] \in lineRecord /\ WholeLine(committed[k])
  BY <1>1, <1>2, ElementOfSeq DEF CommittedWhole
<1>5. ASSUME NEW k \in 1..Len(committed')
      PROVE  \E r \in lineRecord : committed'[k] = r /\ WholeLine(r)
  <2>1. CASE Commit \/ CommitThenFail
    <3>1. PICK r \in pending : Due(r) /\ persistMailLogRecord(r)
      BY <2>1 DEF Commit, CommitThenFail
    <3>2. r \in lineRecord /\ WholeLine(r)
      BY <1>1, <1>2, <3>1, CommittedIsNext
    <3>3. /\ Len(committed') = Len(committed) + 1 /\ committed'[Len(committed) + 1] = r
          /\ \A i \in 1..Len(committed) : committed'[i] = committed[i]
      BY <1>1, <3>1, <3>2, PersistType
    <3>4. k \in 1..Len(committed) \/ k = Len(committed) + 1
      BY <1>1, <3>3
    <3> QED BY <1>4, <3>2, <3>3, <3>4
  <2>2. CASE UNCHANGED committed
    BY <1>4, <2>2
  <2>3. Commit \/ CommitThenFail \/ UNCHANGED committed
    BY PipelineKeeps
    DEF IngestNext, LogMoves, Follow, FollowFails, CommitRefused, FollowErrorReported, Crash,
        pipelineVars, durableVars
  <2> QED BY <2>1, <2>2, <2>3
<1> SUFFICES ASSUME NEW k \in 1..Len(committed') PROVE WholeLine(committed[k])'
  BY DEF CommittedWhole
<1>6. PICK r \in lineRecord : committed'[k] = r /\ WholeLine(r)
  BY <1>5
<1>7. WholeLine(r)'
  BY <1>3, <1>6
<1> QED BY <1>6, <1>7 DEF WholeLine

LEMMA LogInStepsStill ==
    ASSUME StepInv, OrderInv', [IngestNext]_ingestVars, truncations' = 0
    PROVE  LogInSteps'
<1>1. FollowerInv /\ FollowerInv' /\ LogOrder
  BY DEF StepInv, OrderInv, SourceInv, IngestInv
<1>2. truncations = 0 /\ LogInSteps
  BY MailGrows DEF StepInv
<1>3. CASE LogMoves
  BY <1>1, <1>2, <1>3, LogInStepsKept DEF LogMoves
<1>4. CASE UNCHANGED logVars
  BY <1>2, <1>4 DEF logVars, LogInSteps, FirstLine, LastStart
<1> QED BY <1>3, <1>4, MailGrows DEF StepInv

LEMMA SameInStep ==
    ASSUME InStep, Taken' = Taken,
           UNCHANGED <<files, path, lastInode, wfd, todo, written, fpc, inode, offset,
                       pendingText, rotatedAt>>
    PROVE  InStep'
<1>1. PICK n : n = Len(Taken) + 1
  OBVIOUS
<1>2. FirstLine' = FirstLine /\ DrainElapsed' = DrainElapsed
  BY DEF FirstLine, DrainElapsed
<1>3. ReaderAtLine(n) => ReaderAtLine(n)'
  BY <1>2 DEF ReaderAtLine
<1>4. LeftBehind => LeftBehind'
  BY <1>2 DEF LeftBehind
<1>5. Draining => Draining'
  BY <1>2 DEF Draining
<1>6. ReaderInStep(n)
  BY <1>1 DEF InStep
<1>7. ReaderInStep(n)'
  BY <1>3, <1>4, <1>5, <1>6 DEF ReaderInStep
<1>8. ReaderInStep(Len(Taken) + 1)'
  BY <1>1, <1>7, SameNumber
<1> QED BY <1>8 DEF InStep

LEMMA LogMovesInStep ==
    ASSUME StepInv, OrderInv', LogMoves, ~MayLose'
    PROVE  InStep'
<1>1. /\ IngestInv /\ FollowerInv /\ FollowerInv' /\ LogOrder /\ Environment
      /\ [IngestNext]_ingestVars
  BY DEF StepInv, OrderInv, SourceInv, IngestInv, LogMoves, IngestNext
<1>2. /\ InStep /\ LogInSteps /\ orderly /\ truncations' = 0 /\ BufferInFile /\ PendingInFile
  BY <1>1, StillIntact
<1>3. Taken' = Taken
  BY LogMovesOrder DEF StepInv, OrderInv
<1>4. UNCHANGED <<fpc, inode>>
  BY <1>1 DEF Environment, Write, Rename, Create, WriterReopen, Truncate, followVars
<1>5. PICK n \in Nat : n = Len(Taken) + 1
  <2>1. PICK m \in Nat : m = Len(Taken)
    BY <1>1, TakenType
  <2> QED BY <2>1
<1>6. ReaderInStep(n)
  BY <1>2, <1>5 DEF InStep
<1>7. ReaderInStep(n)'
  BY <1>1, <1>2, <1>6, EnvironmentInStep
<1>8. ReaderInStep(Len(Taken) + 1)'
  BY <1>3, <1>5, <1>7, SameNumber
<1>9. \A k \in 1..Len(Taken') : LineOf(Taken'[k]) = k
  BY <1>2, <1>3 DEF InStep
<1>10. inode' = NoFile => path' = 1 /\ lastInode' = 1
  <2>1. inode = NoFile => path = 1 /\ lastInode = 1
    BY <1>2 DEF InStep
  <2>2. inode = NoFile => ~Rename /\ ~Create
    <3> SUFFICES ASSUME inode = NoFile PROVE ~Rename /\ ~Create
      OBVIOUS
    <3>1. path = 1
      BY <2>1
    <3> QED BY <1>2, <3>1 DEF Rename, Create, NoFile
  <2>3. inode = NoFile => UNCHANGED <<path, lastInode>>
    BY <1>1, <2>2 DEF Environment, Write, WriterReopen, Truncate
  <2> QED BY <1>4, <2>1, <2>3
<1> QED BY <1>8, <1>9, <1>10 DEF InStep

LEMMA FollowInStep ==
    ASSUME StepInv, OrderInv', Follow \/ FollowFails, ~MayLose'
    PROVE  InStep'
<1>1. /\ OrderInv /\ IngestInv /\ FollowerInv /\ FollowerInv' /\ LogOrder /\ CutOrder(Taken)
      /\ CheckpointIsLast /\ NamedInOrder /\ [IngestNext]_ingestVars
  BY DEF StepInv, OrderInv, SourceInv, IngestInv, IngestNext
<1>2. UNCHANGED <<base, committed, checkpoint>> /\ UNCHANGED logVars
  BY DEF Follow, FollowFails, pipelineVars, durableVars, FollowOpen, FollowStep, FollowError,
         ReadLine, ReadEOF, SendRecord, CheckRotation, Reopen, Poll
<1>3. UNCHANGED <<files, path, lastInode, wfd, todo, written, truncations, orderly>>
  BY <1>2 DEF logVars
<1>4. /\ InStep /\ LogInSteps /\ CommittedWhole /\ orderly /\ BufferInFile /\ PendingInFile
  BY <1>1, StillIntact
<1>5. PICK m \in Nat, n \in Nat : m = Len(Taken) /\ n = m + 1
  <2>1. PICK m \in Nat : m = Len(Taken)
    BY <1>1, TakenType
  <2> QED BY <2>1
<1>6. /\ ReaderInStep(n) /\ \A k \in 1..m : LineOf(Taken[k]) = k
      /\ inode = NoFile => path = 1 /\ lastInode = 1
      /\ Taken \in Seq(lineRecord) /\ committed \in Seq(lineRecord)
  BY <1>1, <1>4, <1>5, TakenType DEF InStep
<1>7. ASSUME Taken' = Taken, ReaderInStep(n)', inode' # NoFile \/ inode' = inode
      PROVE  InStep'
  <2>1. ReaderInStep(Len(Taken) + 1)'
    BY <1>5, <1>7, SameNumber
  <2>2. \A k \in 1..Len(Taken') : LineOf(Taken'[k]) = k
    BY <1>5, <1>6, <1>7
  <2> QED BY <1>3, <1>6, <1>7, <2>1, <2>2 DEF InStep
<1>8. CASE FollowOpen(checkpoint) /\ path = NoFile
  <2>1. inode = NoFile
    BY <1>1, <1>8 DEF FollowOpen, NamedInOrder
  <2> QED BY <1>6, <1>8, <2>1 DEF NoFile
<1>9. CASE FollowOpen(checkpoint) /\ path # NoFile
  <2>1. PICK ck \in Checkpoint : ck = checkpoint
    BY <1>1, SourceTypes
  <2>2. /\ openMailLog(ck) /\ fpc = "off" /\ fpc' = "read" /\ inode' = path
    BY <1>9, <2>1 DEF FollowOpen, OpenFails, openMailLog
  <2>3. inode = NoFile
    BY <1>1, <2>2 DEF NamedInOrder
  <2>4. lastInode = 1
    BY <1>4, <1>6, <2>3
  <2>5. Taken = committed /\ Taken' = Taken /\ Len(committed) = m
    BY <1>1, <1>2, <1>5, <1>9, OpenTaken
  <2>6. \/ m = 0 /\ ck = NoCheckpoint
        \/ \E r \in lineRecord : /\ WholeLine(r) /\ LineOf(r) = m /\ m # 0 /\ r.Inode = 1
                                 /\ ck.inode = r.Inode /\ ck.offset = r.Offset
    <3>1. CASE committed = <<>>
      BY <1>1, <2>1, <2>5, <3>1, EmptySeq DEF CheckpointIsLast
    <3>2. CASE committed # <<>>
      <4>1. m \in 1..m /\ m # 0
        BY <1>6, <2>5, <3>2, EmptySeq
      <4>2. PICK r \in lineRecord : r = committed[m]
        BY <1>6, <2>5, <4>1, ElementOfSeq
      <4>3. WholeLine(r) /\ LineOf(r) = m
        BY <1>4, <1>6, <2>5, <4>1, <4>2 DEF CommittedWhole
      <4>4. ck.inode = r.Inode /\ ck.offset = r.Offset
        BY <1>1, <2>1, <2>5, <3>2, <4>2 DEF CheckpointIsLast, CheckpointAfter
      <4>5. r.Inode = 1
        <5>1. r.Inode <= lastInode
          BY <1>1, <1>5, <2>5, <4>1, <4>2 DEF CutOrder
        <5>2. r.Inode \in Nat \ {0}
          BY FollowerAssumption DEF lineRecord, Inodes
        <5> QED BY <2>4, <5>1, <5>2
      <4> QED BY <4>1, <4>3, <4>4, <4>5
    <3> QED BY <3>1, <3>2
  <2>7. ReaderInStep(m + 1)'
    BY <1>1, <1>3, <1>4, <1>9, <2>2, <2>4, <2>6, OpenInStep
  <2>8. ReaderInStep(n)'
    BY <1>5, <2>7
  <2> QED BY <1>7, <1>9, <2>2, <2>5, <2>8
<1>10. CASE ReadLine
  <2>1. PICK r \in lineRecord : cut' = Append(cut, r) /\ Taken' = Append(Taken, r)
    BY <1>1, <1>2, <1>10, ReadLineTaken
  <2>2. /\ \E x \in lineRecord : cut' = Append(cut, x) /\ LineOf(x) = n
        /\ ReaderInStep(n + 1)'
    BY <1>1, <1>4, <1>6, <1>10, ReadLineInStep
  <2>3. PICK x \in lineRecord : cut' = Append(cut, x) /\ LineOf(x) = n
    BY <2>2
  <2>4. x = r
    <3>1. cut \in Seq(lineRecord)
      BY <1>1 DEF FollowerInv, FollowerTypeOK
    <3>2. cut'[Len(cut) + 1] = r
      BY <2>1, <3>1, AppendProperties
    <3>3. cut'[Len(cut) + 1] = x
      BY <2>3, <3>1, AppendProperties
    <3> QED BY <3>2, <3>3
  <2>5. /\ Len(Taken') = m + 1 /\ Taken'[m + 1] = r
        /\ \A k \in 1..m : Taken'[k] = Taken[k]
    BY <1>5, <1>6, <2>1, AppendProperties
  <2>6. \A k \in 1..Len(Taken') : LineOf(Taken'[k]) = k
    <3> SUFFICES ASSUME NEW k \in 1..(m + 1) PROVE LineOf(Taken'[k]) = k
      BY <2>5
    <3>1. k \in 1..m \/ k = m + 1
      OBVIOUS
    <3> QED BY <1>5, <1>6, <2>3, <2>4, <2>5, <3>1
  <2>7. ReaderInStep(Len(Taken) + 1)'
    <3>1. PICK v : v = n + 1
      OBVIOUS
    <3>2. Len(Taken') + 1 = v /\ ReaderInStep(v)'
      BY <1>5, <2>2, <2>5, <3>1
    <3> QED BY <3>2, SameNumber
  <2>8. inode' = inode
    BY <1>10 DEF ReadLine
  <2> QED BY <1>3, <1>4, <1>6, <2>6, <2>7, <2>8 DEF InStep
<1>11. CASE ReadEOF
  <2>1. inode' = inode /\ UNCHANGED cut
    BY <1>11 DEF ReadEOF
  <2>2. Taken' = Taken
    BY <1>2, <2>1 DEF Taken
  <2>3. ReaderInStep(n)'
    BY <1>1, <1>4, <1>6, <1>11, ReadEOFInStep
  <2> QED BY <1>7, <2>1, <2>2, <2>3
<1>12. CASE SendRecord \/ CheckRotation \/ Poll \/ FollowError
  <2>1. inode' = inode /\ UNCHANGED cut
    BY <1>12 DEF SendRecord, CheckRotation, Poll, FollowError, Fail
  <2>2. ReaderInStep(n)'
    BY <1>1, <1>4, <1>6, <1>12, PollInStep
  <2>3. Taken' = Taken
    BY <1>2, <2>1 DEF Taken
  <2> QED BY <1>7, <2>1, <2>2, <2>3
<1>13. CASE Reopen
  <2>1. path # NoFile /\ ReaderInStep(n)'
    BY <1>1, <1>4, <1>6, <1>13, ReopenInStep
  <2>2. fpc' = "read" /\ inode' = path /\ UNCHANGED cut
    BY <1>13, <2>1 DEF Reopen, OpenFails, openMailLog
  <2>3. Taken' = Taken
    BY <1>2, <2>2 DEF Taken
  <2> QED BY <1>7, <2>1, <2>2, <2>3
<1> QED BY <1>8, <1>9, <1>10, <1>11, <1>12, <1>13 DEF Follow, FollowFails, FollowStep

(* A run that ends before any rotation leaves the log where the next one       *)
(* resumes.                                                                   *)
LEMMA RunEndsInStep ==
    ASSUME StepInv, OrderInv', CommitRefused \/ CommitThenFail \/ FollowErrorReported \/ Crash,
           ~MayLose'
    PROVE  InStep'
<1>1. OrderInv /\ IngestInv /\ IngestInv' /\ [IngestNext]_ingestVars
  BY DEF StepInv, OrderInv, SourceInv, IngestNext
<1>2. InStep
  BY <1>1, StillIntact
<1>3. path' = 1 /\ lastInode' = 1
  <2>1. Stop /\ UNCHANGED <<path, lastInode>>
    BY DEF CommitRefused, CommitThenFail, FollowErrorReported, Crash, logVars
  <2>2. ~interrupted' /\ interrupted' = (interrupted \/ path = NoFile \/ lastInode > 1)
    BY <2>1 DEF Stop, StopFollower, MayLose
  <2>3. path # NoFile /\ ~(lastInode > 1)
    BY <2>2, Zenon
  <2>4. lastInode \in 1..MaxInode /\ (path = NoFile \/ path = lastInode)
    BY <1>1 DEF IngestInv, FollowerInv, FollowerTypeOK, Inodes, OrderInv, SourceInv, LogOrder
  <2> QED BY <2>1, <2>3, <2>4, FollowerAssumption
<1>4. inode' = NoFile
  BY DEF CommitRefused, CommitThenFail, FollowErrorReported, Crash, Stop, StopFollower
<1>5. /\ Len(Taken') = Len(committed') /\ Len(committed') <= Len(Taken)
      /\ \A k \in 1..Len(committed') : committed'[k] = Taken[k] /\ Taken'[k] = committed'[k]
      /\ Len(committed') \in Nat /\ Len(Taken) \in Nat
  BY <1>1, RunEndsTaken, TakenType
<1>6. PICK m \in Nat, t \in Nat : m = Len(committed') /\ t = Len(Taken) /\ m <= t
  BY <1>5
<1>7. ASSUME NEW k \in 1..m PROVE LineOf(Taken'[k]) = k
  <2>1. k \in 1..t
    BY <1>6
  <2>2. LineOf(Taken[k]) = k
    BY <1>2, <1>6, <2>1 DEF InStep
  <2> QED BY <1>5, <1>6, <2>2
<1>8. \A k \in 1..Len(Taken') : LineOf(Taken'[k]) = k
  BY <1>5, <1>6, <1>7
<1> QED BY <1>3, <1>4, <1>8 DEF InStep, ReaderInStep

LEMMA StepInductive == StepInv /\ [IngestNext]_ingestVars => StepInv'
<1> SUFFICES ASSUME StepInv, [IngestNext]_ingestVars PROVE StepInv'
  OBVIOUS
<1>1. OrderInv /\ OrderInv'
  BY OrderInductive DEF StepInv
<1>2. ASSUME ~MayLose' PROVE InStep'
  <2>1. InStep
    BY <1>1, <1>2, StillIntact
  <2>2. CASE \/ Start \/ DrainDone \/ Collect \/ UNCHANGED ingestVars
             \/ \E w \in Workers : TakeRecord(w) \/ PutParsed(w)
    <3>1. /\ UNCHANGED logVars /\ Taken' = Taken
          /\ UNCHANGED <<fpc, inode, offset, pendingText, rotatedAt>>
      BY <2>2, PipelineKeeps
    <3> QED BY <2>1, <3>1, SameInStep DEF logVars
  <2>3. CASE Commit
    <3>1. /\ UNCHANGED logVars /\ Taken' = Taken
          /\ UNCHANGED <<fpc, inode, offset, pendingText, rotatedAt>>
      BY <1>1, <2>3, CommitOrder DEF Commit, followerVars, followVars, OrderInv
    <3> QED BY <2>1, <3>1, SameInStep DEF logVars
  <2> QED
    BY <1>1, <1>2, <2>2, <2>3, LogMovesInStep, FollowInStep, RunEndsInStep DEF IngestNext
<1> QED BY <1>1, <1>2, CommittedWholeKept, LogInStepsStill DEF StepInv

LEMMA StepInitially == IngestInit => StepInv
<1> SUFFICES ASSUME IngestInit PROVE StepInv
  OBVIOUS
<1>1. OrderInv /\ IngestInv
  BY OrderInitially DEF OrderInv, SourceInv
<1>2. /\ inode = NoFile /\ cut = <<>> /\ committed = <<>> /\ base = 0 /\ fpc = "off"
      /\ path = 1 /\ lastInode = 1
  BY DEF IngestInit, FollowerInit, FollowInit, LogInit
<1>3. Len(committed) = 0 /\ Len(Taken) = 0
  BY <1>1, <1>2, EmptySeq, TakenType
<1>4. LogInSteps /\ CommittedWhole
  BY <1>3, LogInStepsInit DEF IngestInit, CommittedWhole
<1>5. InStep
  BY <1>2, <1>3 DEF InStep, ReaderInStep
<1> QED BY <1>1, <1>4, <1>5 DEF StepInv

(* While nothing has happened that may lose lines, no line is left out: the   *)
(* records taken from the mail log, by all runs together, are its lines 1, 2, *)
(* 3, ... in order, and the reader is in the line after the last one, also    *)
(* while a rotated file is drained and when a run starts again.               *)
THEOREM MailInStep == IngestSpec => []StepInv
<1>1. IngestInit => StepInv
  BY StepInitially
<1>2. StepInv /\ [IngestNext]_ingestVars => StepInv'
  BY StepInductive
<1> QED BY <1>1, <1>2, PTL DEF IngestSpec

----------------------------------------------------------------------------
(* The steps of the line feed.                                                *)
Ingested == [i \in 1..Len(committed) |-> LineOf(committed[i])]

FeedSafety == Feed!FeedInit /\ [][Feed!FeedNext]_(Feed!feedVars)

(* What was lost stays lost.                                                  *)
LEMMA LossStays ==
    ASSUME OrderInv, OrderInv', [IngestNext]_ingestVars
    PROVE  MayLose' = MayLose \/ MayLose' = TRUE
<1>1. /\ orderly' = orderly /\ (interrupted => interrupted')
      /\ truncations \in Nat /\ truncations' \in Nat /\ truncations <= truncations'
  BY MailGrows
<1>2. truncations > 0 => truncations' > 0
  BY <1>1
<1>3. MayLose => MayLose'
  BY <1>1, <1>2 DEF MayLose
<1>4. MayLose \in BOOLEAN /\ MayLose' \in BOOLEAN
  BY DEF MayLose
<1> QED BY <1>3, <1>4

(* Nothing committed: a line may be finished, and some may be lost.           *)
LEMMA FeedQuiet ==
    ASSUME UNCHANGED committed, Completed' = Completed \/ Completed' = Completed + 1,
           MayLose' = MayLose \/ MayLose' = TRUE
    PROVE  [Feed!FeedNext]_(Feed!feedVars)
<1>1. Ingested' = Ingested
  BY DEF Ingested
<1>2. CASE Completed' = Completed + 1
  BY <1>1, <1>2 DEF Feed!FeedNext, Feed!AppendLine, Ingested
<1>3. CASE Completed' = Completed /\ MayLose' = MayLose
  BY <1>1, <1>3 DEF Feed!feedVars, Ingested
<1>4. CASE Completed' = Completed /\ MayLose' = TRUE
  BY <1>1, <1>4 DEF Feed!FeedNext, Feed!Disturbance, Ingested
<1> QED BY <1>2, <1>3, <1>4

(* The record that is due holds a finished line, and a later one than those   *)
(* committed before it.                                                       *)
LEMMA NextIsLater ==
    ASSUME OrderInv, NEW r \in pending, Due(r)
    PROVE  /\ r \in lineRecord
           /\ LineOf(r) \in 0..Completed /\ Completed \in Nat
           /\ Len(committed) + 1 \in 1..Len(Taken) /\ Taken[Len(committed) + 1] = r
           /\ \A k \in 1..Len(committed) :
                /\ LineOf(committed[k]) \in Nat
                /\ LineOf(r) # 0 => LineOf(committed[k]) < LineOf(r)
<1>1. SourceInv /\ IngestInv /\ FollowerInv /\ LogOrder /\ CutOrder(Taken)
  BY DEF OrderInv, SourceInv, IngestInv
<1>2. r \in lineRecord /\ nextSequence + 1 \in 1..Len(cut) /\ r = cut[nextSequence + 1]
  BY <1>1, CommittedIsNext
<1>3. /\ base \in Nat /\ nextSequence \in Nat /\ Len(committed) = base + nextSequence
      /\ \A k \in 1..Len(committed) : k \in 1..Len(Taken) /\ Taken[k] = committed[k]
      /\ \A k \in 1..Len(cut) : base + k \in 1..Len(Taken) /\ Taken[base + k] = cut[k]
      /\ Taken \in Seq(lineRecord) /\ Len(Taken) \in Nat
  BY <1>1, TakenType
<1>4. PICK n \in Nat : n = Len(committed) + 1 /\ n = base + (nextSequence + 1)
  BY <1>3
<1>5. n \in 1..Len(Taken) /\ Taken[n] = r
  BY <1>2, <1>3, <1>4
<1>6. Completed \in Nat
  BY <1>1, CompletedType DEF LogOrder
<1>7. ASSUME NEW k \in 1..Len(Taken) PROVE LineOf(Taken[k]) \in 0..Completed
  <2>1. Settled(Taken[k].Text)
    BY <1>1 DEF CutOrder
  <2>2. CASE LineOf(Taken[k]) # 0
    <3>1. LineOf(Taken[k]) \in 1..Completed
      BY <2>1, <2>2, LineOfText DEF Settled
    <3> QED BY <1>6, <3>1
  <2> QED BY <1>6, <2>2
<1>8. ASSUME NEW k \in 1..Len(committed), LineOf(r) # 0
      PROVE  LineOf(committed[k]) < LineOf(r)
  <2>1. k \in 1..Len(Taken) /\ Taken[k] = committed[k]
    BY <1>3
  <2>2. k \in 1..(n - 1)
    BY <1>3, <1>4
  <2>3. PICK a \in Nat, b \in Nat : a = LineOf(committed[k]) /\ b = LineOf(r)
    <3>1. LineOf(committed[k]) \in Nat /\ LineOf(r) \in Nat
      BY <1>5, <1>6, <1>7, <2>1
    <3> QED BY <3>1
  <2>4. CASE a # 0
    <3>1. Under(committed[k].Text, 1, Len(committed[k].Text), r.Text, 1, Len(r.Text))
      BY <1>1, <1>5, <2>1, <2>2 DEF CutOrder
    <3>2. /\ 1 \in 1..Len(r.Text) /\ r.Text[1] = b
          /\ 1 \in 1..Len(committed[k].Text) /\ committed[k].Text[1] = a
      BY <1>8, <2>3, <2>4, LineOfText
    <3> QED BY <1>8, <2>3, <2>4, <3>1, <3>2 DEF Under, NL
  <2> QED BY <1>8, <2>3, <2>4
<1>9. \A k \in 1..Len(committed) : LineOf(committed[k]) \in Nat
  BY <1>3, <1>6, <1>7
<1>10. LineOf(r) \in 0..Completed
  BY <1>5, <1>7
<1> QED BY <1>2, <1>4, <1>5, <1>6, <1>8, <1>9, <1>10

LEMMA FeedTakes ==
    ASSUME StepInv, Commit \/ CommitThenFail, UNCHANGED logVars,
           MayLose' = MayLose \/ MayLose' = TRUE
    PROVE  [Feed!FeedNext]_(Feed!feedVars)
<1>1. OrderInv /\ IngestInv
  BY DEF StepInv, OrderInv, SourceInv
<1>2. PICK r \in pending : Due(r) /\ persistMailLogRecord(r)
  BY DEF Commit, CommitThenFail
<1>3. /\ r \in lineRecord /\ LineOf(r) \in 0..Completed
      /\ Len(committed) + 1 \in 1..Len(Taken) /\ Taken[Len(committed) + 1] = r
      /\ \A k \in 1..Len(committed) : /\ LineOf(committed[k]) \in Nat
                                      /\ LineOf(r) # 0 => LineOf(committed[k]) < LineOf(r)
      /\ Completed \in Nat
  BY <1>1, <1>2, NextIsLater
<1>4. PICK m \in Nat, j \in Nat : m = Len(committed) /\ j = LineOf(r)
  <2>1. Len(committed) \in Nat
    BY <1>1, TakenType
  <2>2. LineOf(r) \in Nat
    BY <1>3
  <2> QED BY <2>1, <2>2
<1>5. /\ j \in 0..Completed
      /\ \A k \in 1..m : /\ LineOf(committed[k]) \in Nat
                         /\ j # 0 => LineOf(committed[k]) < j
  BY <1>3, <1>4
<1>6. Completed' = Completed
  BY DEF logVars, Completed
<1>7. /\ Len(committed') = m + 1 /\ \A k \in 1..m : committed'[k] = committed[k]
      /\ LineOf(committed'[m + 1]) = j
  BY <1>1, <1>2, <1>3, <1>4, PersistType
<1>8. /\ Ingested = [i \in 1..m |-> LineOf(committed[i])]
      /\ Ingested' = [i \in 1..(m + 1) |-> LineOf(committed'[i])]
  BY <1>4, <1>7 DEF Ingested
<1>9. Ingested \in Seq({LineOf(committed[i]) : i \in 1..m}) /\ Len(Ingested) = m
  BY <1>8
<1>10. Ingested' = Append(Ingested, j)
  BY <1>7, <1>8, <1>9
<1>11. ~MayLose => j = m + 1
  <2> SUFFICES ASSUME ~MayLose PROVE j = m + 1
    OBVIOUS
  <2>1. \A k \in 1..Len(Taken) : LineOf(Taken[k]) = k
    BY DEF StepInv, InStep
  <2> QED BY <1>3, <1>4, <2>1
<1>12. MayLose => j = 0 \/ \A i \in 1..Len(Ingested) : Ingested[i] < j
  BY <1>5, <1>8, <1>9
<1> QED
  BY <1>5, <1>6, <1>9, <1>10, <1>11, <1>12 DEF Feed!FeedNext, Feed!Ingest, Feed!Later, Ingested

LEMMA FeedStep ==
    ASSUME StepInv, StepInv', [IngestNext]_ingestVars
    PROVE  [Feed!FeedNext]_(Feed!feedVars)
<1>1. OrderInv /\ OrderInv'
  BY DEF StepInv
<1>2. MayLose' = MayLose \/ MayLose' = TRUE
  BY <1>1, LossStays
<1>3. Completed' = Completed \/ Completed' = Completed + 1
  BY <1>1, MailGrows
<1>4. CASE Commit \/ CommitThenFail
  <2>1. UNCHANGED logVars
    BY <1>4 DEF Commit, CommitThenFail, followerVars
  <2> QED BY <1>2, <1>4, <2>1, FeedTakes
<1>5. CASE UNCHANGED committed
  BY <1>2, <1>3, <1>5, FeedQuiet
<1>6. Commit \/ CommitThenFail \/ UNCHANGED committed
  BY PipelineKeeps
  DEF IngestNext, LogMoves, Follow, FollowFails, CommitRefused, FollowErrorReported, Crash,
      pipelineVars, durableVars
<1> QED BY <1>4, <1>5, <1>6

(* Every step of the mail pipeline is a step of the line feed, or none: while *)
(* nothing has happened that may lose lines, the transaction that commits     *)
(* next is that of the next line of the log, whole; afterwards, that of a     *)
(* later line than all before it, or of a torn one.                           *)
THEOREM MailFeedsLines == IngestSpec => FeedSafety
<1>1. IngestInit => Feed!FeedInit
  <2> SUFFICES ASSUME IngestInit PROVE Feed!FeedInit
    OBVIOUS
  <2>1. todo = <<>> /\ written = 0 /\ committed = <<>>
    BY DEF IngestInit, FollowerInit, LogInit
  <2>2. Completed = 0
    BY <2>1 DEF Completed
  <2>3. [i \in 1..Len(committed) |-> LineOf(committed[i])] = <<>>
    <3>1. Len(committed) = 0
      BY <2>1, EmptySeq
    <3> QED BY <3>1
  <2>4. MayLose \in BOOLEAN
    BY DEF MayLose
  <2> QED BY <2>2, <2>3, <2>4 DEF Feed!FeedInit
<1>2. StepInv /\ StepInv' /\ [IngestNext]_ingestVars => [Feed!FeedNext]_(Feed!feedVars)
  BY FeedStep
<1> QED BY <1>1, <1>2, MailInStep, PTL DEF IngestSpec, FeedSafety
=============================================================================
