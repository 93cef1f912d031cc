--------------------------- MODULE FollowerProofs ---------------------------
(* Lemmas about the log follower that both ingestors' proofs rest on: types,  *)
(* what the reader's buffer and pending line have to do with the files, and  *)
(* the order in which lines are written and read.  For any number of lines,  *)
(* files, truncations and faults.                                            *)
EXTENDS LogFollower, SequenceTheorems, WellFoundedInduction, TLAPS

----------------------------------------------------------------------------
(* Sequences.                                                                *)

(* A sequence with a newline has a first one.                                 *)
LEMMA FirstNewline ==
    ASSUME NEW s \in Seq(Units), HasNL(s)
    PROVE  /\ FirstNL(s) \in 1..Len(s)
           /\ s[FirstNL(s)] = NL
           /\ \A j \in 1..(FirstNL(s) - 1) : s[j] # NL
<1> DEFINE T == {i \in 1..Len(s) : s[i] = NL}
<1>1. Len(s) \in Nat
  BY LenProperties
<1>2. T # {} /\ T \subseteq Nat
  BY <1>1 DEF HasNL
<1>3. \E x \in T : \A y \in T : ~(<<y, x>> \in OpToRel(<, Nat))
  <2> HIDE DEF T
  <2> QED BY <1>2, NatLessThanWellFounded, WFMin
<1>4. PICK x \in T : \A y \in T : ~(<<y, x>> \in OpToRel(<, Nat))
  BY <1>3
<1>5. \A y \in T : ~(y < x)
  BY <1>2, <1>4 DEF OpToRel
<1>6. \A j \in 1..(x - 1) : s[j] # NL
  BY <1>1, <1>5
<1> QED BY <1>1, <1>6 DEF FirstNL

(* A part of a sequence is a sequence over the same set.                      *)
LEMMA PartOfSeq ==
    ASSUME NEW S, NEW s \in Seq(S), NEW m \in Nat \ {0}, NEW n \in Nat, n <= Len(s)
    PROVE  SubSeq(s, m, n) \in Seq(S)
<1>1. \A i \in m..n : s[i] \in S
  BY ElementOfSeq, LenProperties
<1> QED BY <1>1, SubSeqProperties

----------------------------------------------------------------------------
(* Type correctness of the log and its follower.                             *)

FollowerInv ==
    /\ FollowerTypeOK
    /\ (path = NoFile => lastInode < MaxInode)

LEMMA BodyType == \A l \in 1..MaxLines : Body(l) \in Seq(Units)
<1> TAKE l \in 1..MaxLines
<1>1. l \in Units
  BY FollowerAssumption DEF Units
<1>2. <<l>> \in Seq(Units) /\ <<l, l>> \in Seq(Units)
  BY <1>1
<1> QED BY <1>2 DEF Body

LEMMA FollowerInitInv == FollowerInit => FollowerInv
<1> SUFFICES ASSUME FollowerInit PROVE FollowerInv
  OBVIOUS
<1>1. \A S : <<>> \in Seq(S)
  BY EmptySeq
<1>2. /\ path = 1 /\ lastInode = 1 /\ wfd = 1 /\ todo = <<>> /\ written = 0
      /\ truncations = 0 /\ faults = 0 /\ orderly \in BOOLEAN
      /\ files = [i \in Inodes |-> <<>>]
  BY DEF FollowerInit, LogInit
<1>3. /\ fpc = "off" /\ inode = NoFile /\ offset = 0 /\ rotatedAt = 0 /\ records = <<>>
      /\ buffered = <<>> /\ pendingText = <<>> /\ cut = <<>>
  BY DEF FollowerInit, FollowInit
<1>6. interrupted \in BOOLEAN
  BY Zenon DEF FollowerInit, FollowInit
<1>4. files \in [Inodes -> Seq(Units)]
  BY <1>1, <1>2
<1>5. /\ todo \in Seq(Units) /\ buffered \in Seq(Units) /\ pendingText \in Seq(Units)
      /\ cut \in Seq(lineRecord) /\ records \in Seq(lineRecord)
  BY <1>1, <1>2, <1>3
<1> QED
  BY <1>2, <1>3, <1>4, <1>5, <1>6, FollowerAssumption
  DEF FollowerInv, FollowerTypeOK, NoFile, Inodes

LEMMA EnvironmentInv ==
    FollowerInv /\ Environment => FollowerInv'
<1> SUFFICES ASSUME FollowerInv, Environment PROVE FollowerInv'
  OBVIOUS
<1> USE FollowerAssumption DEF FollowerInv, FollowerTypeOK, Inodes, NoFile
<1>1. CASE Write
  <2> DEFINE rest == IF todo # <<>> THEN todo ELSE Body(written + 1) \o <<NL>>
  <2>1. rest \in Seq(Units)
    <3>1. CASE todo # <<>>
      BY <3>1
    <3>2. CASE todo = <<>>
      <4>1. Body(written + 1) \in Seq(Units)
        BY <1>1, <3>2, BodyType DEF Write
      <4>2. <<NL>> \in Seq(Units)
        BY DEF NL, Units
      <4> QED BY <3>2, <4>1, <4>2, ConcatProperties
    <3> QED BY <3>1, <3>2
  <2> HIDE DEF rest
  <2>2. PICK k \in 1..Len(rest) :
          /\ files' = [files EXCEPT ![wfd] = @ \o SubSeq(rest, 1, k)]
          /\ todo' = SubSeq(rest, k + 1, Len(rest))
    BY <1>1 DEF Write, rest
  <2>3. Len(rest) \in Nat
    BY <2>1, LenProperties
  <2>4. SubSeq(rest, 1, k) \in Seq(Units) /\ SubSeq(rest, k + 1, Len(rest)) \in Seq(Units)
    BY <2>1, <2>3, PartOfSeq
  <2>5. files[wfd] \o SubSeq(rest, 1, k) \in Seq(Units)
    BY <2>4, ConcatProperties
  <2>6. files' \in [Inodes -> Seq(Units)]
    BY <2>2, <2>5
  <2>7. written' \in 0..MaxLines
    BY <1>1 DEF Write
  <2> QED BY <1>1, <2>2, <2>4, <2>6, <2>7 DEF Write, followVars
<1>2. CASE Rename
  BY <1>2 DEF Rename, followVars
<1>3. CASE Create
  BY <1>3 DEF Create, followVars
<1>4. CASE WriterReopen
  BY <1>4 DEF WriterReopen, followVars
<1>5. CASE Truncate
  <2>1. <<>> \in Seq(Units)
    BY EmptySeq
  <2> QED BY <1>5, <2>1 DEF Truncate, followVars
<1> QED BY <1>1, <1>2, <1>3, <1>4, <1>5 DEF Environment

(* What bufio can hand out is a sequence of units.                            *)
LEMMA AvailableType ==
    ASSUME FollowerInv, fpc = "read"
    PROVE  Available \in Seq(Units)
<1> DEFINE position == offset + Len(buffered)
<1>1. inode \in Inodes /\ files[inode] \in Seq(Units) /\ buffered \in Seq(Units)
  BY DEF FollowerInv, FollowerTypeOK
<1>2. position \in Nat /\ Len(files[inode]) \in Nat
  BY <1>1, LenProperties DEF FollowerInv, FollowerTypeOK
<1> HIDE DEF position
<1>3. SubSeq(files[inode], position + 1, Len(files[inode])) \in Seq(Units)
  BY <1>1, <1>2, PartOfSeq
<1>4. buffered \o SubSeq(files[inode], position + 1, Len(files[inode])) \in Seq(Units)
  BY <1>1, <1>3, ConcatProperties
<1> QED BY <1>1, <1>4 DEF Available, position

(* A ReadLine step cuts one record more, numbered by its place, and keeps it  *)
(* to send.                                                                   *)
LEMMA ReadLineCuts ==
    ASSUME FollowerInv, ReadLine
    PROVE  /\ FollowerInv'
           /\ \E r \in lineRecord : r.Sequence = Len(cut) /\ cut' = Append(cut, r)
<1> DEFINE n == FirstNL(Available)
           r == [Sequence |-> sequence,
                 Text |-> pendingText \o SubSeq(Available, 1, n - 1),
                 Inode |-> inode, Offset |-> offset + n]
<1>1. Available \in Seq(Units) /\ Len(Available) \in Nat
  BY AvailableType, LenProperties DEF ReadLine
<1>2. n \in 1..Len(Available)
  BY <1>1, FirstNewline DEF ReadLine
<1>3. /\ SubSeq(Available, 1, n - 1) \in Seq(Units)
      /\ SubSeq(Available, n + 1, Len(Available)) \in Seq(Units)
  <2> HIDE DEF n
  <2> QED BY <1>1, <1>2, PartOfSeq
<1>4. pendingText \o SubSeq(Available, 1, n - 1) \in Seq(Units)
  BY <1>3, ConcatProperties DEF FollowerInv, FollowerTypeOK
<1>5. Len(cut) \in Nat
  BY LenProperties DEF FollowerInv, FollowerTypeOK
<1>6. r \in lineRecord /\ r.Sequence = Len(cut)
  <2>1. offset + n \in Nat
    <3>1. offset \in Nat /\ n \in Nat
      BY <1>1, <1>2 DEF FollowerInv, FollowerTypeOK
    <3> HIDE DEF n
    <3> QED BY <3>1
  <2> HIDE DEF n
  <2> QED BY <2>1, <1>4, <1>5 DEF FollowerInv, FollowerTypeOK, lineRecord, sequence, ReadLine
<1>7. cut' = Append(cut, r)
  BY DEF ReadLine
<1>8. /\ offset' = offset + n /\ buffered' = SubSeq(Available, n + 1, Len(Available))
      /\ pendingText' = <<>> /\ fpc' = "send"
      /\ UNCHANGED <<inode, rotatedAt, logVars, faults, records>>
  BY DEF ReadLine
<1> HIDE DEF n, r
<1>9. cut' \in Seq(lineRecord) /\ cut' # <<>>
  <2>1. cut \in Seq(lineRecord)
    BY DEF FollowerInv, FollowerTypeOK
  <2>2. Append(cut, r) \in Seq(lineRecord) /\ Len(Append(cut, r)) = Len(cut) + 1
    BY <1>6, <2>1, AppendProperties
  <2>3. Append(cut, r) # <<>>
    BY <1>5, <2>2, EmptySeq
  <2> QED BY <1>7, <2>2, <2>3
<1>10. offset' \in Nat /\ buffered' \in Seq(Units) /\ pendingText' \in Seq(Units)
  BY <1>1, <1>2, <1>3, <1>8, EmptySeq DEF FollowerInv, FollowerTypeOK
<1>11. FollowerInv'
  BY <1>8, <1>9, <1>10 DEF FollowerInv, FollowerTypeOK, ReadLine, logVars
<1> QED BY <1>6, <1>7, <1>11

LEMMA ReadEOFInv == FollowerInv /\ ReadEOF => FollowerInv'
<1> SUFFICES ASSUME FollowerInv, ReadEOF PROVE FollowerInv'
  OBVIOUS
<1>1. Available \in Seq(Units) /\ Len(Available) \in Nat
  BY AvailableType, LenProperties DEF ReadEOF, Carried
<1>2. pendingText' \in Seq(Units) /\ buffered' \in Seq(Units) /\ offset' \in Nat
  BY <1>1, ConcatProperties, EmptySeq DEF ReadEOF, Carried, FollowerInv, FollowerTypeOK
<1> QED BY <1>2 DEF ReadEOF, Carried, FollowerInv, FollowerTypeOK, logVars

LEMMA SendRecordInv == FollowerInv /\ SendRecord => FollowerInv'
<1> SUFFICES ASSUME FollowerInv, SendRecord PROVE FollowerInv'
  OBVIOUS
<1>1. cut[sequence] \in lineRecord
  BY LenProperties, ElementOfSeq, EmptySeq DEF SendRecord, sequence, FollowerInv, FollowerTypeOK
<1>2. records' \in Seq(lineRecord)
  BY <1>1, AppendProperties DEF SendRecord, FollowerInv, FollowerTypeOK
<1> QED BY <1>2 DEF SendRecord, FollowerInv, FollowerTypeOK, logVars

(* The steps that only move the follower's own position.                      *)
MovesOnly(ck) ==
    FollowOpen(ck) \/ CheckRotation \/ Reopen \/ Poll \/ FollowError

LEMMA MovesOnlyInv ==
    ASSUME FollowerInv, NEW ck \in Checkpoint, MovesOnly(ck)
    PROVE  FollowerInv' /\ cut' = cut /\ records' = records /\ fpc # "send" /\ fpc' # "send"
<1>1. <<>> \in Seq(Units)
  BY EmptySeq
<1> USE FollowerAssumption DEF FollowerInv, FollowerTypeOK, logVars, NoFile, Inodes
<1>2. CASE FollowOpen(ck)
  <2>1. CASE path = NoFile
    BY <1>2, <2>1 DEF FollowOpen, OpenFails, Fail
  <2>2. CASE path # NoFile
    <3>1. offset' \in Nat
      BY <1>2, <2>2 DEF FollowOpen, OpenFails, openMailLog, Resumable, FreshLocals, Checkpoint
    <3> QED BY <1>1, <1>2, <2>2, <3>1 DEF FollowOpen, OpenFails, openMailLog, Resumable, FreshLocals
  <2> QED BY <2>1, <2>2
<1>3. CASE CheckRotation
  BY <1>3 DEF CheckRotation
<1>4. CASE Reopen
  <2>1. CASE path = NoFile
    BY <1>4, <2>1 DEF Reopen, OpenFails, Fail
  <2>2. CASE path # NoFile
    <3>1. offset' = 0
      BY <1>4, <2>2 DEF Reopen, OpenFails, openMailLog, Resumable, FreshLocals, NoCheckpoint
    <3> QED BY <1>1, <1>4, <2>2, <3>1 DEF Reopen, OpenFails, openMailLog, Resumable, FreshLocals
  <2> QED BY <2>1, <2>2
<1>5. CASE Poll
  BY <1>5 DEF Poll
<1>6. CASE FollowError
  BY <1>6 DEF FollowError, Fail
<1> QED BY <1>2, <1>3, <1>4, <1>5, <1>6 DEF MovesOnly

----------------------------------------------------------------------------
(* Files that only grow: what was in a file stays where it was.              *)

Grows == \A i \in Inodes : /\ Len(files[i]) <= Len(files'[i])
                           /\ \A p \in 1..Len(files[i]) : files'[i][p] = files[i][p]

LEMMA WriteGrows ==
    ASSUME FollowerInv, Environment, truncations' = 0
    PROVE  Grows /\ truncations = 0
<1>1. /\ files \in [Inodes -> Seq(Units)] /\ wfd \in Inodes /\ truncations \in Nat
      /\ \A i \in Inodes : Len(files[i]) \in Nat
  BY FollowerAssumption, LenProperties DEF FollowerInv, FollowerTypeOK
<1>2. CASE Write
  <2> DEFINE rest == IF todo # <<>> THEN todo ELSE Body(written + 1) \o <<NL>>
  <2>1. rest \in Seq(Units) /\ Len(rest) \in Nat
    <3>1. CASE todo # <<>>
      BY <3>1, LenProperties DEF FollowerInv, FollowerTypeOK
    <3>2. CASE todo = <<>>
      <4>1. written + 1 \in 1..MaxLines
        BY <1>2, <3>2, FollowerAssumption DEF Write, FollowerInv, FollowerTypeOK
      <4>2. Body(written + 1) \in Seq(Units)
        BY <4>1, BodyType
      <4>3. <<NL>> \in Seq(Units)
        BY FollowerAssumption DEF NL, Units
      <4> QED BY <3>2, <4>2, <4>3, ConcatProperties, LenProperties
    <3> QED BY <3>1, <3>2
  <2> HIDE DEF rest
  <2>2. PICK k \in 1..Len(rest) : files' = [files EXCEPT ![wfd] = @ \o SubSeq(rest, 1, k)]
    BY <1>2 DEF Write, rest
  <2>3. SubSeq(rest, 1, k) \in Seq(Units)
    BY <2>1, PartOfSeq
  <2>4. /\ Len(files[wfd]) <= Len(files[wfd] \o SubSeq(rest, 1, k))
        /\ \A p \in 1..Len(files[wfd]) :
             (files[wfd] \o SubSeq(rest, 1, k))[p] = files[wfd][p]
    BY <1>1, <2>3, ConcatProperties, LenProperties
  <2>5. /\ files'[wfd] = files[wfd] \o SubSeq(rest, 1, k)
        /\ \A i \in Inodes : i # wfd => files'[i] = files[i]
    BY <1>1, <2>2
  <2>6. \A i \in Inodes : /\ Len(files[i]) <= Len(files'[i])
                          /\ \A p \in 1..Len(files[i]) : files'[i][p] = files[i][p]
    <3> TAKE i \in Inodes
    <3>1. CASE i = wfd
      BY <2>4, <2>5, <3>1
    <3>2. CASE i # wfd
      BY <1>1, <2>5, <3>2
    <3> QED BY <3>1, <3>2
  <2> QED BY <1>1, <1>2, <2>6 DEF Grows, Write
<1>3. CASE Rename \/ Create \/ WriterReopen
  BY <1>1, <1>3 DEF Rename, Create, WriterReopen, Grows
<1>4. CASE Truncate
  BY <1>1, <1>4 DEF Truncate
<1> QED BY <1>2, <1>3, <1>4 DEF Environment

LEMMA SameFilesGrow ==
    ASSUME FollowerInv, UNCHANGED files
    PROVE  Grows
BY LenProperties DEF Grows, FollowerInv, FollowerTypeOK

(* Joining sequences, and taking a part of one, by index.                     *)
LEMMA Joined ==
    ASSUME NEW S, NEW s \in Seq(S), NEW t \in Seq(S)
    PROVE  /\ s \o t \in Seq(S) /\ Len(s \o t) = Len(s) + Len(t)
           /\ \A i \in 1..Len(s \o t) : i <= Len(s) => (s \o t)[i] = s[i]
           /\ \A i \in 1..Len(s \o t) : i > Len(s) => (s \o t)[i] = t[i - Len(s)]
<1>1. Len(s) \in Nat /\ Len(t) \in Nat
  BY LenProperties
<1>2. /\ s \o t \in Seq(S) /\ Len(s \o t) = Len(s) + Len(t)
      /\ \A i \in 1..(Len(s) + Len(t)) :
           (s \o t)[i] = IF i <= Len(s) THEN s[i] ELSE t[i - Len(s)]
  BY ConcatProperties
<1> DEFINE u == s \o t
<1> HIDE DEF u
<1>3. /\ \A i \in 1..Len(u) : i <= Len(s) => u[i] = s[i]
      /\ \A i \in 1..Len(u) : i > Len(s) => u[i] = t[i - Len(s)]
  <2>1. /\ Len(u) = Len(s) + Len(t)
        /\ \A i \in 1..(Len(s) + Len(t)) : u[i] = IF i <= Len(s) THEN s[i] ELSE t[i - Len(s)]
    BY <1>2 DEF u
  <2> QED BY <1>1, <2>1
<1> QED BY <1>2, <1>3 DEF u

LEMMA PartProperties ==
    ASSUME NEW S, NEW s \in Seq(S), NEW m \in Nat \ {0}, NEW n \in Nat,
           m <= n + 1, n <= Len(s)
    PROVE  /\ SubSeq(s, m, n) \in Seq(S) /\ Len(SubSeq(s, m, n)) = n - m + 1
           /\ \A i \in 1..(n - m + 1) : SubSeq(s, m, n)[i] = s[m - 1 + i]
<1>1. Len(s) \in Nat /\ \A i \in m..n : s[i] \in S
  BY ElementOfSeq, LenProperties
<1>2. /\ SubSeq(s, m, n) \in Seq(S)
      /\ Len(SubSeq(s, m, n)) = IF m <= n THEN n - m + 1 ELSE 0
      /\ \A i \in 1..(n - m + 1) : SubSeq(s, m, n)[i] = s[m + i - 1]
  BY <1>1, SubSeqProperties
<1> DEFINE u == SubSeq(s, m, n)
<1> HIDE DEF u
<1>3. Len(u) = n - m + 1
  BY <1>2 DEF u
<1>4. ASSUME NEW i \in 1..(n - m + 1) PROVE u[i] = s[m - 1 + i]
  <2>1. m + i - 1 = m - 1 + i
    OBVIOUS
  <2> QED BY <1>2, <2>1 DEF u
<1> QED BY <1>2, <1>3, <1>4 DEF u

LEMMA SameParts ==
    ASSUME NEW S, NEW f \in Seq(S), NEW g \in Seq(S), NEW m \in Nat \ {0}, NEW n \in Nat,
           n <= Len(f), n <= Len(g), \A p \in m..n : f[p] = g[p]
    PROVE  SubSeq(f, m, n) = SubSeq(g, m, n)
<1> DEFINE u == SubSeq(f, m, n)
           v == SubSeq(g, m, n)
<1>1. CASE m <= n
  <2>1. /\ u \in Seq(S) /\ Len(u) = n - m + 1 /\ \A i \in 1..(n - m + 1) : u[i] = f[m - 1 + i]
        /\ v \in Seq(S) /\ Len(v) = n - m + 1 /\ \A i \in 1..(n - m + 1) : v[i] = g[m - 1 + i]
    BY <1>1, PartProperties
  <2> HIDE DEF u, v
  <2>2. \A i \in 1..Len(u) : u[i] = v[i]
    BY <2>1
  <2> QED BY <2>1, <2>2, SeqEqual DEF u, v
<1>2. CASE n < m
  BY <1>2, SubSeqEmpty
<1> QED BY <1>1, <1>2

(* Whole lines and resumable checkpoints stay so in files that only grow.     *)
LEMMA WholeLineKept ==
    ASSUME FollowerInv, FollowerInv', Grows, NEW r \in lineRecord, WholeLine(r)
    PROVE  WholeLine(r)'
<1> DEFINE f == files[r.Inode]
           g == files'[r.Inode]
           start == r.Offset - Len(r.Text)
<1>1. /\ r.Inode \in Inodes /\ r.Offset \in Nat /\ r.Text \in Seq(Units) /\ Len(r.Text) \in Nat
      /\ f \in Seq(Units) /\ g \in Seq(Units) /\ Len(f) \in Nat /\ Len(g) \in Nat
  BY LenProperties DEF lineRecord, FollowerInv, FollowerTypeOK
<1>2. Len(f) <= Len(g) /\ \A p \in 1..Len(f) : g[p] = f[p]
  BY <1>1 DEF Grows
<1>3. r.Offset \in 1..Len(f) /\ start >= 1
  BY DEF WholeLine
<1>4. f[r.Offset] = NL /\ ~HasNL(r.Text) /\ (start = 1 \/ f[start - 1] = NL)
  BY DEF WholeLine
<1>5. r.Text = SubSeq(f, start, r.Offset - 1)
  BY DEF WholeLine
<1> HIDE DEF f, g
<1>6. start \in Nat \ {0} /\ start <= r.Offset /\ r.Offset - 1 \in Nat
  BY <1>1, <1>3
<1> HIDE DEF start
<1>7. SubSeq(f, start, r.Offset - 1) = SubSeq(g, start, r.Offset - 1)
  <2>1. /\ r.Offset - 1 <= Len(f) /\ r.Offset - 1 <= Len(g)
        /\ \A p \in start..(r.Offset - 1) : p \in 1..Len(f)
    BY <1>1, <1>2, <1>3, <1>6
  <2>2. \A p \in start..(r.Offset - 1) : f[p] = g[p]
    BY <1>2, <2>1
  <2> QED BY <1>1, <1>6, <2>1, <2>2, SameParts
<1>8. r.Offset \in 1..Len(g) /\ g[r.Offset] = NL
  BY <1>1, <1>2, <1>3, <1>4
<1>9. start # 1 => start - 1 \in 1..Len(f)
  BY <1>1, <1>3, <1>6
<1>10. start = 1 \/ g[start - 1] = NL
  BY <1>2, <1>4, <1>9
<1> QED BY <1>3, <1>4, <1>5, <1>7, <1>8, <1>10 DEF WholeLine, g, start

----------------------------------------------------------------------------
(* Reading.                                                                  *)

(* The reader's buffer is what the open file holds after the offset, pending  *)
(* what it holds between the last newline and the offset.                     *)
BufferInFile ==
    inode # NoFile =>
        /\ offset + Len(buffered) <= Len(files[inode])
        /\ \A i \in 1..Len(buffered) : buffered[i] = files[inode][offset + i]
PendingInFile ==
    inode # NoFile =>
        /\ Len(pendingText) <= offset
        /\ \A i \in 1..Len(pendingText) :
             /\ pendingText[i] = files[inode][offset - Len(pendingText) + i]
             /\ pendingText[i] # NL
        /\ offset = Len(pendingText) \/ files[inode][offset - Len(pendingText)] = NL

(* What bufio can hand out is what the file holds after the offset.           *)
LEMMA AvailableInFile ==
    ASSUME FollowerInv, fpc = "read", BufferInFile
    PROVE  /\ Available \in Seq(Units) /\ Len(Available) \in Nat
           /\ offset + Len(Available) <= Len(files[inode])
           /\ \A i \in 1..Len(Available) : Available[i] = files[inode][offset + i]
<1> DEFINE f == files[inode]
           position == offset + Len(buffered)
           rest == SubSeq(f, position + 1, Len(f))
<1>1. /\ inode \in Inodes /\ inode # NoFile /\ f \in Seq(Units) /\ buffered \in Seq(Units)
      /\ offset \in Nat /\ Len(buffered) \in Nat /\ Len(f) \in Nat
  BY LenProperties, FollowerAssumption DEF FollowerInv, FollowerTypeOK, Inodes, NoFile
<1>2. /\ position <= Len(f) /\ position \in Nat
      /\ \A i \in 1..Len(buffered) : buffered[i] = f[offset + i]
  BY <1>1 DEF BufferInFile
<1>3. Available \in Seq(Units) /\ Len(Available) \in Nat
  BY AvailableType, LenProperties
<1>4. CASE HasNL(buffered)
  BY <1>1, <1>2, <1>3, <1>4 DEF Available
<1>5. CASE ~HasNL(buffered)
  <2>1. Available = buffered \o rest
    BY <1>5 DEF Available
  <2> HIDE DEF position, f
  <2>2. /\ rest \in Seq(Units) /\ Len(rest) = Len(f) - position
        /\ \A i \in 1..Len(rest) : rest[i] = f[position + i]
    <3>1. /\ rest \in Seq(Units) /\ Len(rest) = Len(f) - (position + 1) + 1
          /\ \A i \in 1..(Len(f) - (position + 1) + 1) : rest[i] = f[position + 1 - 1 + i]
      BY <1>1, <1>2, PartProperties
    <3> HIDE DEF rest
    <3>2. Len(rest) = Len(f) - position /\ position + 1 - 1 = position
      BY <1>1, <1>2, <3>1
    <3>3. 1..(Len(f) - (position + 1) + 1) = 1..Len(rest)
      BY <1>1, <1>2, <3>2
    <3> QED BY <3>1, <3>2, <3>3
  <2> HIDE DEF rest
  <2>3. /\ Len(Available) = Len(buffered) + Len(rest)
        /\ \A i \in 1..Len(Available) : i <= Len(buffered) => Available[i] = buffered[i]
        /\ \A i \in 1..Len(Available) : i > Len(buffered) => Available[i] = rest[i - Len(buffered)]
    <3> DEFINE u == buffered \o rest
    <3>1. /\ Len(u) = Len(buffered) + Len(rest)
          /\ \A i \in 1..Len(u) : i <= Len(buffered) => u[i] = buffered[i]
          /\ \A i \in 1..Len(u) : i > Len(buffered) => u[i] = rest[i - Len(buffered)]
      <4>1. buffered \in Seq(Units) /\ rest \in Seq(Units)
        BY <1>1, <2>2
      <4> QED BY <4>1, Joined
    <3>2. Available = u
      BY <2>1
    <3> HIDE DEF u
    <3> QED BY <3>1, <3>2
  <2>4. Len(Available) = Len(f) - offset
    BY <1>1, <1>2, <2>2, <2>3 DEF position
  <2>5. ASSUME NEW i \in 1..Len(Available) PROVE Available[i] = f[offset + i]
    <3>1. CASE i <= Len(buffered)
      BY <1>1, <1>2, <2>3, <3>1
    <3>2. CASE ~(i <= Len(buffered))
      <4>1. i - Len(buffered) \in 1..Len(rest) /\ position + (i - Len(buffered)) = offset + i
        BY <1>1, <1>2, <2>2, <2>3, <2>4, <3>2 DEF position
      <4> QED BY <2>2, <2>3, <3>2, <4>1
    <3> QED BY <3>1, <3>2
  <2> QED BY <1>1, <1>3, <2>4, <2>5 DEF f
<1> QED BY <1>4, <1>5

(* The record a ReadLine step cuts is the line that ends at its offset, and   *)
(* the reader stands behind that line.                                        *)
LEMMA ReadLinePosition ==
    ASSUME FollowerInv, ReadLine, BufferInFile, PendingInFile
    PROVE  /\ (BufferInFile /\ PendingInFile)'
           /\ \E r \in lineRecord : /\ cut' = Append(cut, r) /\ WholeLine(r)
                                    /\ r.Inode = inode /\ r.Offset = offset'
           /\ offset' \in Nat /\ offset' > offset
<1> DEFINE f == files[inode]
           a == Available
           n == FirstNL(Available)
           text == SubSeq(Available, 1, n - 1)
           r == [Sequence |-> sequence, Text |-> pendingText \o text,
                 Inode |-> inode, Offset |-> offset + n]
<1>1. /\ inode \in Inodes /\ inode # NoFile /\ f \in Seq(Units) /\ Len(f) \in Nat
      /\ offset \in Nat /\ pendingText \in Seq(Units) /\ Len(pendingText) \in Nat
      /\ cut \in Seq(lineRecord) /\ Len(cut) \in Nat
  BY LenProperties, FollowerAssumption DEF FollowerInv, FollowerTypeOK, Inodes, NoFile, ReadLine
<1>2. /\ a \in Seq(Units) /\ Len(a) \in Nat /\ offset + Len(a) <= Len(f)
      /\ \A i \in 1..Len(a) : a[i] = f[offset + i]
  BY AvailableInFile DEF ReadLine
<1>3. n \in 1..Len(a) /\ a[n] = NL /\ \A j \in 1..(n - 1) : a[j] # NL
  BY <1>2, FirstNewline DEF ReadLine
<1>4. /\ offset' = offset + n /\ buffered' = SubSeq(a, n + 1, Len(a)) /\ pendingText' = <<>>
      /\ cut' = Append(cut, r) /\ inode' = inode /\ files' = files
  BY DEF ReadLine, logVars
<1> HIDE DEF a, n
<1>5. /\ text \in Seq(Units) /\ Len(text) = n - 1 /\ \A i \in 1..(n - 1) : text[i] = a[i]
  <2>1. n - 1 \in Nat /\ n - 1 <= Len(a)
    BY <1>2, <1>3
  <2>2. /\ text \in Seq(Units) /\ Len(text) = n - 1 - 1 + 1
        /\ \A i \in 1..(n - 1 - 1 + 1) : text[i] = a[1 - 1 + i]
    BY <1>2, <2>1, PartProperties DEF a
  <2> HIDE DEF text
  <2> QED BY <1>2, <1>3, <2>2
<1> HIDE DEF text
<1> DEFINE line == pendingText \o text
           L == Len(pendingText)
           start == offset - L + 1
<1>6. /\ line \in Seq(Units) /\ Len(line) = L + Len(text)
      /\ \A i \in 1..Len(line) : i <= L => line[i] = pendingText[i]
      /\ \A i \in 1..Len(line) : i > L => line[i] = text[i - L]
  BY <1>1, <1>5, Joined
<1>7. /\ L <= offset /\ (offset = L \/ f[offset - L] = NL)
      /\ \A i \in 1..L : pendingText[i] = f[offset - L + i] /\ pendingText[i] # NL
  BY <1>1 DEF PendingInFile
<1> HIDE DEF f, line, L
<1>8. /\ L \in Nat /\ n \in Nat /\ Len(line) = L + (n - 1) /\ Len(line) \in Nat
      /\ start \in Nat \ {0} /\ start = offset + n - Len(line)
      /\ offset + n \in 1..Len(f) /\ offset + n - 1 \in Nat
  BY <1>1, <1>2, <1>3, <1>5, <1>6, <1>7 DEF L
<1>9. ASSUME NEW i \in 1..Len(line) PROVE line[i] = f[offset - L + i] /\ line[i] # NL
  <2>1. CASE i <= L
    <3>1. i \in 1..L
      BY <1>8, <2>1
    <3> QED BY <1>6, <1>7, <2>1, <3>1
  <2>2. CASE i > L
    <3>1. /\ i - L \in 1..(n - 1) /\ i - L \in 1..Len(a) /\ offset + (i - L) = offset - L + i
      BY <1>1, <1>2, <1>3, <1>8, <2>2
    <3>2. line[i] = text[i - L]
      BY <1>6, <2>2
    <3>3. text[i - L] = a[i - L] /\ a[i - L] # NL
      BY <1>3, <1>5, <3>1
    <3>4. a[i - L] = f[offset + (i - L)]
      BY <1>2, <3>1
    <3> QED BY <3>1, <3>2, <3>3, <3>4
  <2> QED BY <1>8, <2>1, <2>2
<1>10. line = SubSeq(f, start, offset + n - 1)
  <2> DEFINE sub == SubSeq(f, start, offset + n - 1)
  <2> HIDE DEF start
  <2>1. start <= offset + n - 1 + 1 /\ offset + n - 1 <= Len(f)
    BY <1>1, <1>8
  <2>2. /\ sub \in Seq(Units) /\ Len(sub) = offset + n - 1 - start + 1
        /\ \A i \in 1..(offset + n - 1 - start + 1) : sub[i] = f[start - 1 + i]
    BY <1>1, <1>8, <2>1, PartProperties
  <2> HIDE DEF sub
  <2>3. Len(sub) = Len(line)
    BY <1>1, <1>8, <2>2
  <2>4. ASSUME NEW i \in 1..Len(line) PROVE line[i] = sub[i]
    <3>1. i \in 1..(offset + n - 1 - start + 1)
      BY <1>1, <1>8
    <3>2. start - 1 + i = offset - L + i
      BY <1>1, <1>8 DEF start
    <3> QED BY <1>9, <2>2, <3>1, <3>2
  <2>5. line = sub
    BY <1>6, <2>2, <2>3, <2>4, SeqEqual
  <2> QED BY <2>5 DEF sub
<1>11. f[offset + n] = NL
  BY <1>2, <1>3
<1>12. start = 1 \/ f[start - 1] = NL
  <2>1. start - 1 = offset - L
    BY <1>1, <1>8
  <2>2. offset = L => start = 1
    BY <1>1, <1>8
  <2> QED BY <1>7, <2>1, <2>2
<1>13. r \in lineRecord /\ r.Text = line /\ r.Inode = inode /\ r.Offset = offset + n
  BY <1>1, <1>6, <1>8 DEF lineRecord, sequence, line
<1> HIDE DEF r, start
<1>14. WholeLine(r)
  <2>1. ~HasNL(line)
    BY <1>9 DEF HasNL
  <2>2. r.Offset = offset + n /\ Len(r.Text) = Len(line)
    BY <1>13
  <2>3. start >= 1 /\ start = r.Offset - Len(r.Text) /\ r.Offset - 1 = offset + n - 1
    BY <1>1, <1>8, <2>2
  <2>4. /\ r.Offset \in 1..Len(files[r.Inode]) /\ files[r.Inode][r.Offset] = NL
        /\ start = 1 \/ files[r.Inode][start - 1] = NL
        /\ ~HasNL(r.Text)
    BY <1>8, <1>11, <1>12, <1>13, <2>1 DEF f
  <2>5. r.Text = SubSeq(files[r.Inode], start, r.Offset - 1)
    <3>1. files[r.Inode] = f /\ r.Text = line
      BY <1>13 DEF f
    <3> QED BY <1>10, <2>3, <3>1
  <2> QED BY <2>3, <2>4, <2>5 DEF WholeLine
<1>15. BufferInFile'
  <2> DEFINE sub == SubSeq(a, n + 1, Len(a))
  <2>1. n + 1 <= Len(a) + 1
    BY <1>2, <1>3
  <2>2. /\ sub \in Seq(Units) /\ Len(sub) = Len(a) - (n + 1) + 1
        /\ \A i \in 1..(Len(a) - (n + 1) + 1) : sub[i] = a[n + 1 - 1 + i]
    BY <1>2, <1>8, <2>1, PartProperties
  <2>3. buffered' = sub
    BY <1>4
  <2> HIDE DEF sub
  <2>4. Len(sub) = Len(a) - n /\ offset + n + Len(sub) <= Len(f)
    BY <1>1, <1>2, <1>8, <2>2
  <2>5. ASSUME NEW i \in 1..Len(sub) PROVE sub[i] = f[offset + n + i]
    <3>1. /\ i \in 1..(Len(a) - (n + 1) + 1) /\ n + 1 - 1 + i = n + i
          /\ n + i \in 1..Len(a) /\ offset + (n + i) = offset + n + i
      BY <1>1, <1>2, <1>8, <2>4
    <3> QED BY <1>2, <2>2, <3>1
  <2> QED BY <1>4, <2>3, <2>4, <2>5 DEF BufferInFile, f
<1>16. PendingInFile'
  <2>1. Len(pendingText') = 0
    BY <1>4, EmptySeq
  <2>2. offset' - 0 = offset + n /\ offset' >= 0
    BY <1>1, <1>4, <1>8
  <2> QED BY <1>4, <1>11, <2>1, <2>2 DEF PendingInFile, f
<1>17. offset' > offset /\ offset' \in Nat
  BY <1>1, <1>3, <1>4, <1>8
<1> QED BY <1>4, <1>13, <1>14, <1>15, <1>16, <1>17

(* At the end of the file all there is joins the unfinished line.             *)
LEMMA ReadEOFPosition ==
    ASSUME FollowerInv, ReadEOF, BufferInFile, PendingInFile
    PROVE  (BufferInFile /\ PendingInFile)' /\ offset' >= offset /\ offset' \in Nat
<1> DEFINE f == files[inode]
           a == Available
           L == Len(pendingText)
           text == pendingText \o a
<1>1. /\ inode \in Inodes /\ inode # NoFile /\ f \in Seq(Units) /\ Len(f) \in Nat
      /\ offset \in Nat /\ pendingText \in Seq(Units) /\ L \in Nat
  BY LenProperties, FollowerAssumption DEF FollowerInv, FollowerTypeOK, Inodes, NoFile, ReadEOF
<1>2. /\ a \in Seq(Units) /\ Len(a) \in Nat /\ offset + Len(a) <= Len(f)
      /\ \A i \in 1..Len(a) : a[i] = f[offset + i]
  BY AvailableInFile DEF ReadEOF
<1>3. \A i \in 1..Len(a) : a[i] # NL
  BY DEF ReadEOF, HasNL
<1>4. /\ offset' = offset + Len(a) /\ pendingText' = text /\ buffered' = <<>>
      /\ inode' = inode /\ files' = files
  BY DEF ReadEOF, Carried, logVars
<1> HIDE DEF a
<1>5. /\ Len(text) = L + Len(a)
      /\ \A i \in 1..Len(text) : i <= L => text[i] = pendingText[i]
      /\ \A i \in 1..Len(text) : i > L => text[i] = a[i - L]
  BY <1>1, <1>2, Joined
<1>6. /\ L <= offset /\ (offset = L \/ f[offset - L] = NL)
      /\ \A i \in 1..L : pendingText[i] = f[offset - L + i] /\ pendingText[i] # NL
  BY <1>1 DEF PendingInFile
<1> HIDE DEF f, L, text
<1>7. /\ Len(text) <= offset + Len(a) /\ offset + Len(a) - Len(text) = offset - L
      /\ (offset + Len(a) = Len(text) <=> offset = L)
  <2>1. Len(text) = L + Len(a) /\ L <= offset
    BY <1>5, <1>6
  <2>2. L \in Nat /\ offset \in Nat /\ Len(a) \in Nat
    BY <1>1, <1>2
  <2> QED BY <2>1, <2>2
<1>8. ASSUME NEW i \in 1..Len(text) PROVE text[i] = f[offset - L + i] /\ text[i] # NL
  <2>1. CASE i <= L
    <3>1. i \in 1..L
      BY <1>1, <2>1
    <3> QED BY <1>5, <1>6, <2>1, <3>1
  <2>2. CASE i > L
    <3>1. i - L \in 1..Len(a) /\ offset + (i - L) = offset - L + i
      BY <1>1, <1>2, <1>5, <2>2
    <3> QED BY <1>2, <1>3, <1>5, <2>2, <3>1
  <2> QED BY <1>1, <2>1, <2>2
<1>9. PendingInFile'
  <2>1. /\ Len(pendingText') <= offset' /\ offset' - Len(pendingText') = offset - L
        /\ (offset' = Len(pendingText') <=> offset = L)
    <3>1. offset' = offset + Len(a) /\ Len(pendingText') = Len(text)
      BY <1>4
    <3>2. L \in Nat /\ offset \in Nat /\ Len(a) \in Nat /\ Len(text) = L + Len(a)
      BY <1>1, <1>2, <1>5
    <3> QED BY <1>7, <3>1, <3>2
  <2>2. /\ \A i \in 1..Len(pendingText') : /\ pendingText'[i] = f[offset - L + i]
                                           /\ pendingText'[i] # NL
        /\ offset = L \/ f[offset - L] = NL
    BY <1>4, <1>6, <1>8
  <2>3. files'[inode'] = f
    BY <1>4 DEF f
  <2> QED BY <2>1, <2>2, <2>3 DEF PendingInFile
<1>10. BufferInFile'
  <2>1. Len(buffered') = 0
    BY <1>4, EmptySeq
  <2> QED BY <1>1, <1>2, <1>4, <2>1 DEF BufferInFile, f
<1> QED BY <1>1, <1>2, <1>4, <1>9, <1>10

----------------------------------------------------------------------------
(* Lines in the order they were written.                                     *)

(* The units of f from lo to hi, when w lines were begun and m finished: what *)
(* has a newline behind it is finished, and what lies behind a newline is of  *)
(* a later line.                                                              *)
Lines(f, lo, hi, w, m) ==
    /\ \A c \in lo..hi : f[c] \in 0..w
    /\ \A c, d \in lo..hi : c < d /\ f[d] = NL => f[c] <= m
    /\ \A c, d \in lo..hi : c < d /\ f[d] # NL => f[c] <= f[d]
    /\ \A c, e, d \in lo..hi : c < e /\ e < d /\ f[e] = NL /\ f[d] # NL => f[c] < f[d]

AtMost(f, lo, hi, m) == \A c \in lo..hi : f[c] <= m

(* All of f is of earlier lines than anything of g.                           *)
Under(f, a, b, g, lo, hi) ==
    \A c \in a..b, d \in lo..hi : g[d] # NL => f[c] < g[d]

(* g goes on where f ends, with units of line m + 1 or the newline after it.  *)
Continues(f, lo, hi, g, last, m, done) ==
    /\ hi <= last
    /\ \A c \in lo..hi : g[c] = f[c]
    /\ \A c \in (hi + 1)..last : g[c] = m + 1 \/ (g[c] = NL /\ c = last /\ done = m + 1)

LEMMA LinesPart ==
    ASSUME NEW f, NEW g, NEW lo \in Int, NEW hi \in Int, NEW w \in Nat, NEW m \in Nat,
           Lines(f, lo, hi, w, m),
           NEW from \in Int, NEW to \in Int, NEW begun \in Nat, NEW done \in Nat,
           lo <= from, to <= hi, w <= begun, m <= done,
           \A c \in from..to : g[c] = f[c]
    PROVE  Lines(g, from, to, begun, done)
<1>1. \A c \in from..to : c \in lo..hi /\ g[c] = f[c]
  OBVIOUS
<1>2. \A c \in from..to : g[c] \in 0..begun
  <2>1. \A c \in lo..hi : f[c] \in 0..w
    BY DEF Lines
  <2> QED BY <1>1, <2>1
<1>3. \A c, d \in from..to : c < d /\ g[d] = NL => g[c] <= done
  <2> TAKE c \in from..to, d \in from..to
  <2>1. f[c] \in 0..w /\ (c < d /\ f[d] = NL => f[c] <= m)
    BY <1>1 DEF Lines
  <2> QED BY <1>1, <2>1
<1>4. \A c, d \in from..to : c < d /\ g[d] # NL => g[c] <= g[d]
  BY <1>1 DEF Lines
<1>5. \A c, e, d \in from..to : c < e /\ e < d /\ g[e] = NL /\ g[d] # NL => g[c] < g[d]
  BY <1>1 DEF Lines
<1> QED BY <1>2, <1>3, <1>4, <1>5 DEF Lines

LEMMA LinesContinued ==
    ASSUME NEW f, NEW g, NEW lo \in Int, NEW hi \in Int, NEW w \in Nat, NEW m \in Nat,
           Lines(f, lo, hi, w, m), w <= m + 1,
           NEW last \in Int, NEW done \in {m, m + 1},
           Continues(f, lo, hi, g, last, m, done)
    PROVE  Lines(g, lo, last, m + 1, done)
<1>1. ASSUME NEW c \in lo..last
      PROVE  \/ c \in lo..hi /\ g[c] = f[c]
             \/ c > hi /\ (g[c] = m + 1 \/ (g[c] = NL /\ c = last /\ done = m + 1))
  BY DEF Continues
<1>2. \A c \in lo..hi : f[c] \in 0..w
  BY DEF Lines
<1>3. \A c \in lo..last : g[c] \in 0..(m + 1)
  BY <1>1, <1>2 DEF NL
<1>4. ASSUME NEW c \in lo..last, NEW d \in lo..last, c < d, g[d] = NL PROVE g[c] <= done
  <2>1. CASE d \in lo..hi
    <3>1. c \in lo..hi /\ g[c] = f[c] /\ f[d] = NL
      BY <1>1, <1>4, <2>1
    <3>2. f[c] <= m
      BY <1>4, <2>1, <3>1 DEF Lines
    <3> QED BY <1>2, <3>1, <3>2
  <2>2. CASE d > hi
    <3>1. done = m + 1
      BY <1>1, <1>4, <2>2 DEF NL
    <3> QED BY <1>3, <3>1
  <2> QED BY <2>1, <2>2
<1>5. ASSUME NEW c \in lo..last, NEW d \in lo..last, c < d, g[d] # NL PROVE g[c] <= g[d]
  <2>1. CASE d \in lo..hi
    <3>1. c \in lo..hi /\ g[c] = f[c] /\ g[d] = f[d]
      BY <1>1, <1>5, <2>1
    <3> QED BY <1>5, <2>1, <3>1 DEF Lines
  <2>2. CASE d > hi
    <3>1. g[d] = m + 1
      BY <1>1, <1>5, <2>2
    <3> QED BY <1>3, <3>1
  <2> QED BY <2>1, <2>2
<1>6. ASSUME NEW c \in lo..last, NEW e \in lo..last, NEW d \in lo..last,
             c < e, e < d, g[e] = NL, g[d] # NL
      PROVE  g[c] < g[d]
  <2>1. CASE d \in lo..hi
    <3>1. c \in lo..hi /\ g[c] = f[c] /\ e \in lo..hi /\ g[e] = f[e] /\ g[d] = f[d]
      BY <1>1, <1>6, <2>1
    <3> QED BY <1>6, <2>1, <3>1 DEF Lines
  <2>2. CASE d > hi
    <3>1. g[d] = m + 1
      BY <1>1, <1>6, <2>2
    <3>2. e \in lo..hi /\ f[e] = NL
      BY <1>1, <1>6 DEF NL
    <3>3. c \in lo..hi /\ g[c] = f[c]
      BY <1>1, <1>6, <3>2
    <3>4. f[c] <= m
      BY <1>6, <3>2, <3>3 DEF Lines
    <3> QED BY <1>2, <3>1, <3>3, <3>4
  <2> QED BY <2>1, <2>2
<1> QED BY <1>3, <1>4, <1>5, <1>6 DEF Lines

LEMMA UnderContinued ==
    ASSUME NEW t, NEW a \in Int, NEW b \in Int, NEW m \in Nat, \A c \in a..b : t[c] \in 0..m,
           NEW f, NEW g, NEW lo \in Int, NEW hi \in Int, NEW last \in Int, NEW done,
           Under(t, a, b, f, lo, hi), Continues(f, lo, hi, g, last, m, done)
    PROVE  Under(t, a, b, g, lo, last)
<1> SUFFICES ASSUME NEW c \in a..b, NEW d \in lo..last, g[d] # NL PROVE t[c] < g[d]
  BY DEF Under
<1>1. CASE d \in lo..hi
  BY <1>1 DEF Under, Continues
<1>2. CASE d > hi
  <2>1. g[d] = m + 1
    BY <1>2 DEF Continues
  <2> QED BY <2>1
<1> QED BY <1>1, <1>2

LEMMA UnderPart ==
    ASSUME NEW t, NEW a, NEW b, NEW f, NEW g, NEW lo \in Int, NEW hi \in Int,
           Under(t, a, b, f, lo, hi),
           NEW from \in Int, NEW to \in Int, lo <= from, to <= hi,
           \A c \in from..to : g[c] = f[c]
    PROVE  Under(t, a, b, g, from, to)
BY DEF Under

(* The files hold the lines in the order they were written, the daemon's open *)
(* file the last ones; only that file may hold an unfinished line.            *)
TodoShape ==
    todo # <<>> => /\ written >= 1 /\ todo[Len(todo)] = NL
                   /\ \A i \in 1..(Len(todo) - 1) : todo[i] = written
LogOrder ==
    /\ TodoShape
    /\ path = NoFile \/ path = lastInode
    /\ wfd <= lastInode
    /\ \A j \in Inodes : /\ Lines(files[j], 1, Len(files[j]), written, Completed)
                         /\ j > wfd => files[j] = <<>>
                         /\ j < wfd => AtMost(files[j], 1, Len(files[j]), Completed)
    /\ \A i, j \in Inodes :
         i < j => Under(files[i], 1, Len(files[i]), files[j], 1, Len(files[j]))

LEMMA CompletedType ==
    ASSUME FollowerInv, TodoShape
    PROVE  /\ Completed \in Nat /\ written \in Nat /\ written <= Completed + 1
           /\ Completed <= written /\ Completed <= MaxLines
BY FollowerAssumption DEF FollowerInv, FollowerTypeOK, TodoShape, Completed

(* What is left to write is of one line, with its newline at the end.         *)
LEMMA RestShape ==
    ASSUME FollowerInv, TodoShape, todo # <<>> \/ written < MaxLines
    PROVE  LET rest == IF todo # <<>> THEN todo ELSE Body(written + 1) \o <<NL>>
           IN /\ rest \in Seq(Units) /\ Len(rest) \in Nat \ {0}
              /\ rest[Len(rest)] = NL
              /\ \A i \in 1..(Len(rest) - 1) : rest[i] = Completed + 1
<1>0. written \in Nat /\ todo \in Seq(Units) /\ MaxLines \in Nat
  BY FollowerAssumption DEF FollowerInv, FollowerTypeOK
<1>1. CASE todo # <<>>
  <2>1. Completed = written - 1 /\ Completed + 1 = written
    BY <1>0, <1>1 DEF Completed, TodoShape
  <2>2. Len(todo) \in Nat \ {0}
    BY <1>0, <1>1, LenProperties, EmptySeq
  <2> QED BY <1>0, <1>1, <2>1, <2>2 DEF TodoShape
<1>2. CASE todo = <<>>
  <2> DEFINE l == written + 1
             b == Body(l)
             rest == b \o <<NL>>
  <2>1. Completed + 1 = l /\ l \in 1..MaxLines
    BY <1>0, <1>2 DEF Completed
  <2>2. b \in Seq(Units) /\ <<NL>> \in Seq(Units) /\ Len(<<NL>>) = 1 /\ <<NL>>[1] = NL
    <3>1. NL \in Units
      BY FollowerAssumption DEF NL, Units
    <3> QED BY <2>1, <3>1, BodyType
  <2>3. Len(b) \in Nat /\ \A i \in 1..Len(b) : b[i] = l
    BY DEF Body
  <2> HIDE DEF b, l
  <2>4. /\ rest \in Seq(Units) /\ Len(rest) = Len(b) + 1
        /\ \A i \in 1..Len(rest) : i <= Len(b) => rest[i] = b[i]
        /\ \A i \in 1..Len(rest) : i > Len(b) => rest[i] = <<NL>>[i - Len(b)]
    BY <2>2, Joined
  <2> HIDE DEF rest
  <2>5. Len(rest) \in Nat \ {0} /\ rest[Len(rest)] = NL
    <3>1. Len(rest) \in 1..Len(rest) /\ Len(rest) > Len(b) /\ Len(rest) - Len(b) = 1
      BY <2>3, <2>4
    <3> QED BY <2>2, <2>4, <3>1
  <2>6. \A i \in 1..(Len(rest) - 1) : rest[i] = l
    BY <2>3, <2>4
  <2>7. rest = IF todo # <<>> THEN todo ELSE Body(written + 1) \o <<NL>>
    BY <1>2 DEF rest, b, l
  <2> QED BY <2>1, <2>4, <2>5, <2>6, <2>7
<1> QED BY <1>1, <1>2

(* The daemon's write goes on where its file ends.                            *)
LEMMA WriteContinues ==
    ASSUME FollowerInv, TodoShape, Write
    PROVE  /\ Continues(files[wfd], 1, Len(files[wfd]), files'[wfd], Len(files'[wfd]),
                        Completed, Completed')
           /\ \A j \in Inodes : j # wfd => files'[j] = files[j]
           /\ written' = Completed + 1 /\ Completed' \in {Completed, Completed + 1}
           /\ TodoShape'
<1> DEFINE rest == IF todo # <<>> THEN todo ELSE Body(written + 1) \o <<NL>>
           f == files[wfd]
<1>1. /\ rest \in Seq(Units) /\ Len(rest) \in Nat \ {0} /\ rest[Len(rest)] = NL
      /\ \A i \in 1..(Len(rest) - 1) : rest[i] = Completed + 1
  BY RestShape DEF Write
<1>2. PICK k \in 1..Len(rest) : /\ files' = [files EXCEPT ![wfd] = @ \o SubSeq(rest, 1, k)]
                                /\ todo' = SubSeq(rest, k + 1, Len(rest))
  BY DEF Write
<1>3. written' = Completed + 1
  BY DEF Write, Completed, TodoShape, FollowerInv, FollowerTypeOK
<1>4. /\ Completed \in Nat /\ files \in [Inodes -> Seq(Units)] /\ wfd \in Inodes
      /\ f \in Seq(Units) /\ Len(f) \in Nat
  BY CompletedType, LenProperties DEF FollowerInv, FollowerTypeOK
<1> HIDE DEF rest, f
<1> DEFINE new == SubSeq(rest, 1, k)
           left == SubSeq(rest, k + 1, Len(rest))
           g == f \o new
<1>5. new \in Seq(Units) /\ Len(new) = k /\ \A i \in 1..k : new[i] = rest[i]
  <2>1. /\ new \in Seq(Units) /\ Len(new) = k - 1 + 1
        /\ \A i \in 1..(k - 1 + 1) : new[i] = rest[1 - 1 + i]
    BY <1>1, PartProperties
  <2> HIDE DEF new
  <2> QED BY <1>1, <2>1
<1>6. left \in Seq(Units) /\ Len(left) = Len(rest) - k /\ \A i \in 1..(Len(rest) - k) : left[i] = rest[k + i]
  <2>1. k + 1 \in Nat \ {0} /\ k + 1 <= Len(rest) + 1
    BY <1>1
  <2>2. /\ left \in Seq(Units) /\ Len(left) = Len(rest) - (k + 1) + 1
        /\ \A i \in 1..(Len(rest) - (k + 1) + 1) : left[i] = rest[k + 1 - 1 + i]
    BY <1>1, <2>1, PartProperties
  <2> HIDE DEF left
  <2>3. /\ Len(rest) - (k + 1) + 1 = Len(rest) - k
        /\ \A i \in 1..(Len(rest) - k) : k + 1 - 1 + i = k + i
    BY <1>1
  <2> QED BY <2>2, <2>3
<1> HIDE DEF new, left
<1>7. /\ g \in Seq(Units) /\ Len(g) = Len(f) + k
      /\ \A i \in 1..Len(g) : i <= Len(f) => g[i] = f[i]
      /\ \A i \in 1..Len(g) : i > Len(f) => g[i] = new[i - Len(f)]
  <2>1. Len(new) = k /\ new \in Seq(Units)
    BY <1>5
  <2> QED BY <1>4, <2>1, Joined
<1>8. files'[wfd] = g /\ \A j \in Inodes : j # wfd => files'[j] = files[j]
  BY <1>2, <1>4 DEF f, new
<1>9. todo' = left /\ todo' \in Seq(Units)
  BY <1>2, <1>6 DEF left
<1> HIDE DEF g
<1>10. CASE k = Len(rest)
  <2>1. todo' = <<>>
    BY <1>1, <1>6, <1>9, <1>10, EmptySeq
  <2>2. Completed' = Completed + 1
    BY <1>3, <2>1 DEF Completed
  <2>3. ASSUME NEW c \in (Len(f) + 1)..Len(g) PROVE g[c] = Completed + 1 \/ (g[c] = NL /\ c = Len(g))
    <3>1. c - Len(f) \in 1..k /\ c \in 1..Len(g) /\ c > Len(f) /\ (c - Len(f) = k <=> c = Len(g))
      BY <1>1, <1>4, <1>7
    <3>2. g[c] = rest[c - Len(f)]
      BY <1>5, <1>7, <3>1
    <3>3. CASE c = Len(g)
      BY <1>1, <1>10, <3>1, <3>2, <3>3
    <3>4. CASE c # Len(g)
      <4>1. c - Len(f) \in 1..(Len(rest) - 1)
        BY <1>1, <1>4, <1>10, <3>1, <3>4
      <4> QED BY <1>1, <3>2, <4>1
    <3> QED BY <3>3, <3>4
  <2>4. Continues(f, 1, Len(f), g, Len(g), Completed, Completed')
    BY <1>1, <1>4, <1>7, <2>2, <2>3 DEF Continues
  <2> QED BY <1>3, <1>8, <2>1, <2>2, <2>4 DEF TodoShape, f
<1>11. CASE k < Len(rest)
  <2>1. todo' # <<>> /\ Len(todo') = Len(rest) - k /\ Len(todo') \in Nat \ {0}
    BY <1>1, <1>6, <1>9, <1>11, EmptySeq
  <2>2. Completed' = Completed
    BY <1>3, <1>4, <2>1 DEF Completed
  <2>3. ASSUME NEW c \in (Len(f) + 1)..Len(g) PROVE g[c] = Completed + 1
    <3>1. c - Len(f) \in 1..k /\ c \in 1..Len(g) /\ c > Len(f) /\ c - Len(f) \in 1..(Len(rest) - 1)
      BY <1>1, <1>4, <1>7, <1>11
    <3> QED BY <1>1, <1>5, <1>7, <3>1
  <2>4. Continues(f, 1, Len(f), g, Len(g), Completed, Completed')
    BY <1>1, <1>4, <1>7, <2>3 DEF Continues
  <2>5. TodoShape'
    <3>1. todo'[Len(todo')] = NL
      <4>1. Len(todo') \in 1..(Len(rest) - k) /\ k + Len(todo') = Len(rest)
        BY <1>1, <2>1
      <4> QED BY <1>1, <1>6, <1>9, <4>1
    <3>2. ASSUME NEW i \in 1..(Len(todo') - 1) PROVE todo'[i] = written'
      <4>1. i \in 1..(Len(rest) - k) /\ k + i \in 1..(Len(rest) - 1)
        BY <1>1, <2>1
      <4> QED BY <1>1, <1>3, <1>6, <1>9, <4>1
    <3>3. written' >= 1
      BY <1>3, <1>4
    <3> QED BY <3>1, <3>2, <3>3 DEF TodoShape
  <2> QED BY <1>3, <1>8, <2>2, <2>4, <2>5 DEF f
<1> QED BY <1>1, <1>10, <1>11

(* What a step of the environment does to a file.                             *)
Moves(j) ==
    \/ files'[j] = files[j]
    \/ files'[j] = <<>> /\ j = wfd
    \/ /\ j = wfd /\ written' = Completed + 1
       /\ Continues(files[j], 1, Len(files[j]), files'[j], Len(files'[j]), Completed, Completed')

LEMMA EnvironmentMoves ==
    ASSUME FollowerInv, LogOrder, Environment
    PROVE  /\ \A j \in Inodes : Moves(j)
           /\ Completed' \in {Completed, Completed + 1} /\ written <= written'
           /\ written' <= Completed' + 1
           /\ TodoShape' /\ lastInode <= lastInode' /\ wfd' <= lastInode'
           /\ path' = NoFile \/ path' = lastInode'
           /\ UNCHANGED <<followVars, records>>
<1>1. /\ written \in Nat /\ Completed \in Nat /\ written <= Completed + 1 /\ Completed <= written
      /\ lastInode \in Nat /\ wfd \in Inodes /\ TodoShape /\ wfd <= lastInode
      /\ path = NoFile \/ path = lastInode
  <2>1. TodoShape /\ wfd <= lastInode /\ (path = NoFile \/ path = lastInode)
    BY DEF LogOrder
  <2>2. written \in Nat /\ lastInode \in Nat /\ wfd \in Inodes
    BY DEF FollowerInv, FollowerTypeOK, Inodes
  <2>3. Completed \in Nat /\ written <= Completed + 1 /\ Completed <= written
    BY <2>1, CompletedType
  <2> QED BY <2>1, <2>2, <2>3
<1>2. CASE Write
  <2>1. UNCHANGED <<path, lastInode, wfd, followVars, records>>
    BY <1>2 DEF Write
  <2>2. \A j \in Inodes : Moves(j)
    BY <1>1, <1>2, WriteContinues DEF Moves
  <2> QED BY <1>1, <1>2, <2>1, <2>2, WriteContinues
<1>3. CASE Truncate
  <2>1. UNCHANGED <<path, lastInode, wfd, todo, written, followVars, records>> /\ wfd = path
    BY <1>3 DEF Truncate
  <2>2. \A j \in Inodes : Moves(j)
    BY <1>1, <1>3 DEF Truncate, Moves, FollowerInv, FollowerTypeOK
  <2>3. Completed' = Completed /\ TodoShape'
    BY <1>1, <2>1 DEF Completed, TodoShape
  <2> QED BY <1>1, <2>1, <2>2, <2>3
<1>4. CASE Rename \/ Create \/ WriterReopen
  <2>1. UNCHANGED <<files, todo, written, followVars, records>>
    BY <1>4 DEF Rename, Create, WriterReopen
  <2>2. Completed' = Completed /\ TodoShape' /\ \A j \in Inodes : Moves(j)
    BY <1>1, <2>1 DEF Completed, TodoShape, Moves
  <2>3. /\ lastInode <= lastInode' /\ wfd' <= lastInode'
        /\ path' = NoFile \/ path' = lastInode'
    BY <1>1, <1>4 DEF Rename, Create, WriterReopen, Inodes
  <2> QED BY <1>1, <2>1, <2>2, <2>3
<1> QED BY <1>2, <1>3, <1>4 DEF Environment

LEMMA LogOrderInit == FollowerInit => LogOrder
<1> SUFFICES ASSUME FollowerInit PROVE LogOrder
  OBVIOUS
<1>1. /\ \A j \in Inodes : files[j] = <<>> /\ Len(files[j]) = 0
      /\ todo = <<>> /\ path = lastInode /\ wfd = lastInode /\ lastInode = 1
  BY EmptySeq DEF FollowerInit, LogInit
<1>2. \A j \in Inodes : \A w, m : /\ Lines(files[j], 1, Len(files[j]), w, m)
                                  /\ AtMost(files[j], 1, Len(files[j]), m)
  BY <1>1 DEF Lines, AtMost
<1>3. \A i, j \in Inodes : Under(files[i], 1, Len(files[i]), files[j], 1, Len(files[j]))
  BY <1>1 DEF Under
<1> QED BY <1>1, <1>2, <1>3 DEF LogOrder, TodoShape

LEMMA LogOrderKept ==
    ASSUME FollowerInv, FollowerInv', LogOrder, Environment
    PROVE  LogOrder'
<1> DEFINE m == Completed
           done == Completed'
<1>1. /\ written \in Nat /\ written' \in Nat /\ m \in Nat /\ done \in Nat
      /\ written <= m + 1 /\ written <= written'
      /\ m <= done /\ done \in {m, m + 1}
      /\ wfd \in Nat /\ wfd' \in Nat /\ Inodes \subseteq Nat
      /\ \A j \in Inodes : /\ files[j] \in Seq(Units) /\ Len(files[j]) \in Nat
                           /\ files'[j] \in Seq(Units) /\ Len(files'[j]) \in Nat
  <2>1. TodoShape /\ TodoShape' /\ done \in {m, m + 1} /\ written <= written'
    BY EnvironmentMoves DEF LogOrder
  <2>2. written \in Nat /\ m \in Nat /\ written <= m + 1
    BY <2>1, CompletedType
  <2>3. written' \in Nat
    BY FollowerAssumption DEF FollowerInv, FollowerTypeOK
  <2>4. \A j \in Inodes : /\ files[j] \in Seq(Units) /\ Len(files[j]) \in Nat
                          /\ files'[j] \in Seq(Units) /\ Len(files'[j]) \in Nat
    BY LenProperties DEF FollowerInv, FollowerTypeOK
  <2>5. wfd \in Nat /\ wfd' \in Nat /\ Inodes \subseteq Nat
    BY FollowerAssumption DEF FollowerInv, FollowerTypeOK, Inodes
  <2> QED BY <2>1, <2>2, <2>3, <2>4, <2>5
<1>2. \A j \in Inodes : Moves(j)
  BY EnvironmentMoves
<1>3. wfd <= wfd' /\ (wfd' # wfd => done = m /\ m = written /\ UNCHANGED files)
  <2>1. CASE WriterReopen
    <3>1. wfd' = path /\ path = lastInode /\ wfd <= lastInode
      BY <2>1 DEF WriterReopen, LogOrder
    <3>2. UNCHANGED <<files, todo, written>> /\ todo = <<>>
      BY <2>1 DEF WriterReopen
    <3> QED BY <1>1, <3>1, <3>2 DEF Completed
  <2>2. CASE UNCHANGED wfd
    BY <1>1, <2>2
  <2> QED BY <2>1, <2>2 DEF Environment, Write, Rename, Create, Truncate
<1>4. \A j \in Inodes : Lines(files[j], 1, Len(files[j]), written, m)
  BY DEF LogOrder
<1> HIDE DEF m, done
<1>5. ASSUME NEW j \in Inodes PROVE Lines(files'[j], 1, Len(files'[j]), written', done)
  <2>1. CASE files'[j] = files[j]
    <3> DEFINE f == files[j]
               n == Len(f)
    <3>1. Lines(f, 1, n, written, m) /\ n \in Int
      BY <1>1, <1>4
    <3>2. files'[j] = f /\ Len(files'[j]) = n
      BY <2>1
    <3> HIDE DEF f, n
    <3>3. 1 \in Int /\ 1 <= 1 /\ n <= n /\ \A c \in 1..n : f[c] = f[c]
      BY <3>1
    <3>4. Lines(f, 1, n, written', done)
      BY <1>1, <3>1, <3>3, LinesPart, Zenon
    <3> QED BY <3>2, <3>4
  <2>2. CASE files'[j] = <<>>
    BY <2>2, EmptySeq DEF Lines
  <2>3. CASE /\ written' = m + 1
             /\ Continues(files[j], 1, Len(files[j]), files'[j], Len(files'[j]), m, done)
    <3> DEFINE f == files[j]
               g == files'[j]
    <3>1. Lines(f, 1, Len(f), written, m) /\ Len(f) \in Int /\ Len(g) \in Int
      BY <1>1, <1>4
    <3>2. Continues(f, 1, Len(f), g, Len(g), m, done)
      BY <2>3
    <3> HIDE DEF f, g
    <3>3. Lines(g, 1, Len(g), m + 1, done)
      <4>1. 1 \in Int
        OBVIOUS
      <4> QED BY <1>1, <3>1, <3>2, <4>1, LinesContinued, Zenon
    <3> QED BY <2>3, <3>3 DEF g
  <2> QED BY <1>2, <2>1, <2>2, <2>3 DEF Moves, m, done
<1>6. ASSUME NEW j \in Inodes, j > wfd' PROVE files'[j] = <<>>
  <2>1. j > wfd /\ j # wfd
    BY <1>1, <1>3, <1>6
  <2>2. files[j] = <<>>
    BY <2>1 DEF LogOrder
  <2> QED BY <1>2, <2>1, <2>2 DEF Moves
<1>7. ASSUME NEW j \in Inodes, j < wfd' PROVE AtMost(files'[j], 1, Len(files'[j]), done)
  <2>1. CASE j < wfd
    <3>1. files'[j] = files[j]
      BY <1>1, <1>2, <2>1 DEF Moves
    <3>2. AtMost(files[j], 1, Len(files[j]), m)
      BY <2>1 DEF LogOrder, m
    <3>3. \A c \in 1..Len(files[j]) : files[j][c] \in Nat
      BY <1>1, <1>4 DEF Lines
    <3> QED BY <1>1, <3>1, <3>2, <3>3 DEF AtMost
  <2>2. CASE ~(j < wfd)
    <3>1. wfd' # wfd
      BY <1>1, <1>7, <2>2
    <3>2. files'[j] = files[j] /\ done = written
      BY <1>3, <3>1 DEF m, done
    <3>3. \A c \in 1..Len(files[j]) : files[j][c] \in 0..written
      BY <1>4 DEF Lines
    <3> QED BY <1>1, <3>2, <3>3 DEF AtMost
  <2> QED BY <2>1, <2>2
<1>8. ASSUME NEW i \in Inodes, NEW j \in Inodes, i < j
      PROVE  Under(files'[i], 1, Len(files'[i]), files'[j], 1, Len(files'[j]))
  <2>1. Under(files[i], 1, Len(files[i]), files[j], 1, Len(files[j]))
    BY <1>8 DEF LogOrder
  <2>2. CASE i = wfd
    <3>1. files[j] = <<>> /\ files'[j] = files[j]
      BY <1>1, <1>2, <1>8, <2>2 DEF LogOrder, Moves
    <3> QED BY <3>1, EmptySeq DEF Under
  <2>3. CASE i # wfd /\ j # wfd
    BY <1>2, <2>1, <2>3 DEF Moves
  <2>4. CASE j = wfd
    <3>1. files'[i] = files[i] /\ i < wfd
      BY <1>1, <1>2, <1>8, <2>4 DEF Moves
    <3>2. \A c \in 1..Len(files[i]) : files[i][c] \in 0..m
      <4>1. \A c \in 1..Len(files[i]) : files[i][c] \in 0..written /\ files[i][c] <= m
        BY <1>4, <3>1 DEF Lines, LogOrder, AtMost, m
      <4> QED BY <1>1, <4>1
    <3>3. CASE files'[j] = files[j]
      BY <2>1, <3>1, <3>3
    <3>4. CASE files'[j] = <<>>
      BY <3>4, EmptySeq DEF Under
    <3>5. CASE Continues(files[j], 1, Len(files[j]), files'[j], Len(files'[j]), m, done)
      <4>1. Under(files[i], 1, Len(files[i]), files'[j], 1, Len(files'[j]))
        <5> DEFINE t == files[i]
                   f == files[j]
                   g == files'[j]
        <5>1. Under(t, 1, Len(t), f, 1, Len(f)) /\ Len(t) \in Int /\ Len(f) \in Int /\ Len(g) \in Int
          BY <1>1, <2>1
        <5>2. Continues(f, 1, Len(f), g, Len(g), m, done) /\ \A c \in 1..Len(t) : t[c] \in 0..m
          BY <3>2, <3>5
        <5> HIDE DEF t, f, g
        <5>3. Under(t, 1, Len(t), g, 1, Len(g))
          <6>1. 1 \in Int
            OBVIOUS
          <6> QED BY <1>1, <5>1, <5>2, <6>1, UnderContinued, Zenon
        <5> QED BY <5>3 DEF t, g
      <4> QED BY <3>1, <4>1
    <3> QED BY <1>2, <3>3, <3>4, <3>5 DEF Moves, m, done
  <2> QED BY <2>2, <2>3, <2>4
<1>9. TodoShape' /\ (path' = NoFile \/ path' = lastInode') /\ wfd' <= lastInode'
  BY EnvironmentMoves
<1> QED BY <1>5, <1>6, <1>7, <1>8, <1>9 DEF LogOrder, done

----------------------------------------------------------------------------
(* What the reader has before it, by its place in the open file: the line it  *)
(* has begun, what bufio has fetched, and what the file holds behind that.   *)

Fetched == offset + Len(buffered)
LineStart == offset - Len(pendingText) + 1
Horizon == IF Fetched <= Len(files[inode]) THEN Len(files[inode]) ELSE Fetched
Ahead ==
    [c \in LineStart..Horizon |->
        IF c <= offset THEN pendingText[c - LineStart + 1]
        ELSE IF c <= Fetched THEN buffered[c - offset]
        ELSE files[inode][c]]

(* A truncation leaves the reader with what it fetched, all of it from lines  *)
(* before those of the file.                                                  *)
Stale ==
    /\ \A c \in LineStart..Fetched, p \in 1..Len(files[inode]) :
         files[inode][p] # NL => Ahead[c] <= files[inode][p]
    /\ \A c, e \in LineStart..Fetched, p \in 1..Len(files[inode]) :
         c < e /\ Ahead[e] = NL /\ files[inode][p] # NL => Ahead[c] < files[inode][p]

ReaderOrder ==
    inode # NoFile =>
        /\ inode <= lastInode /\ Len(pendingText) <= offset
        /\ \A c \in 1..Len(pendingText) : pendingText[c] # NL
        /\ Lines(Ahead, LineStart, Horizon, written, Completed)
        /\ inode < wfd => AtMost(Ahead, LineStart, Horizon, Completed)
        /\ \A j \in Inodes :
             j > inode => Under(Ahead, LineStart, Horizon, files[j], 1, Len(files[j]))
        /\ BufferInFile \/ Stale

(* A text that was cut: its lines are finished, and what the reader, or one   *)
(* that opens file i at offset o, can still find is of later lines.           *)
Settled(t) == \A q \in 1..Len(t) : t[q] \in 1..Completed
LaterFiles(t, i) ==
    \A j \in Inodes : j > i => Under(t, 1, Len(t), files[j], 1, Len(files[j]))
BeforeFile(t, i) == Under(t, 1, Len(t), files[i], 1, Len(files[i]))
BeforeReader(t) ==
    inode # NoFile =>
        /\ Under(t, 1, Len(t), Ahead, LineStart, Horizon)
        /\ LaterFiles(t, inode)
        /\ BufferInFile \/ BeforeFile(t, inode)
        /\ fpc = "reopen" /\ path = inode => BeforeFile(t, inode)
BeforePlace(t, i, o) ==
    /\ LaterFiles(t, i)
    /\ Under(t, 1, Len(t), files[i], o + 1, Len(files[i]))
    /\ o > Len(files[i]) => BeforeFile(t, i)

LEMMA ReaderTypes ==
    ASSUME FollowerInv, inode # NoFile
    PROVE  /\ inode \in Inodes /\ files[inode] \in Seq(Units) /\ Len(files[inode]) \in Nat
           /\ offset \in Nat /\ buffered \in Seq(Units) /\ Len(buffered) \in Nat
           /\ pendingText \in Seq(Units) /\ Len(pendingText) \in Nat
           /\ Fetched \in Nat /\ offset <= Fetched /\ Horizon \in Nat /\ LineStart \in Int
           /\ Fetched <= Horizon /\ Len(files[inode]) <= Horizon
           /\ Horizon = Fetched \/ Horizon = Len(files[inode])
           /\ LineStart <= offset + 1
<1>1. inode \in Inodes /\ offset \in Nat /\ buffered \in Seq(Units) /\ pendingText \in Seq(Units)
  BY FollowerAssumption DEF FollowerInv, FollowerTypeOK, NoFile, Inodes
<1>2. /\ files[inode] \in Seq(Units) /\ Len(files[inode]) \in Nat
      /\ Len(buffered) \in Nat /\ Len(pendingText) \in Nat
  BY <1>1, LenProperties DEF FollowerInv, FollowerTypeOK
<1> QED BY <1>1, <1>2 DEF Fetched, Horizon, LineStart

(* How a step of the environment changes what is before the reader.           *)
LEMMA EnvironmentAhead ==
    ASSUME FollowerInv, FollowerInv', inode # NoFile, Moves(inode),
           UNCHANGED <<inode, offset, buffered, pendingText>>
    PROVE  /\ LineStart' = LineStart /\ Fetched' = Fetched
           /\ \/ /\ files'[inode] = files[inode]
                 /\ Horizon' = Horizon /\ Ahead' = Ahead /\ BufferInFile' = BufferInFile
              \/ /\ files'[inode] = <<>> /\ inode = wfd
                 /\ Horizon' = Fetched
                 /\ \A c \in LineStart..Fetched : Ahead'[c] = Ahead[c]
              \/ /\ inode = wfd /\ written' = Completed + 1
                 /\ Continues(files[inode], 1, Len(files[inode]), files'[inode],
                              Len(files'[inode]), Completed, Completed')
                 /\ Continues(Ahead, LineStart, Horizon, Ahead', Horizon', Completed, Completed')
                 /\ \A c \in LineStart..Fetched : Ahead'[c] = Ahead[c]
                 /\ BufferInFile => BufferInFile'
<1> DEFINE f == files[inode]
           g == files'[inode]
           m == Completed
           done == Completed'
<1>1. LineStart' = LineStart /\ Fetched' = Fetched
  BY DEF LineStart, Fetched
<1>2. /\ Len(f) \in Nat /\ offset \in Nat /\ Fetched \in Nat /\ LineStart \in Int
      /\ Horizon \in Nat /\ Len(buffered) \in Nat /\ offset <= Fetched
      /\ Fetched <= Horizon /\ Len(f) <= Horizon
  BY ReaderTypes
<1>3. g \in Seq(Units) /\ Len(g) \in Nat
  BY ReaderTypes, LenProperties DEF FollowerInv, FollowerTypeOK
<1>4. CASE g = f
  BY <1>1, <1>4 DEF Horizon, Ahead, BufferInFile
<1>5. CASE g = <<>> /\ inode = wfd
  <2>1. Len(g) = 0
    BY <1>5, EmptySeq
  <2>2. Horizon' = Fetched
    BY <1>1, <1>2, <2>1 DEF Horizon
  <2>3. ASSUME NEW c \in LineStart..Fetched PROVE Ahead'[c] = Ahead[c]
    <3>1. c \in LineStart..Horizon /\ c \in LineStart'..Horizon'
      BY <1>1, <1>2, <2>2
    <3> QED BY <1>1, <1>2, <3>1 DEF Ahead
  <2> QED BY <1>1, <1>5, <2>2, <2>3
<1>6. CASE inode = wfd /\ written' = m + 1 /\ Continues(f, 1, Len(f), g, Len(g), m, done)
  <2>1. /\ Len(f) <= Len(g) /\ \A c \in 1..Len(f) : g[c] = f[c]
        /\ \A c \in (Len(f) + 1)..Len(g) : g[c] = m + 1 \/ (g[c] = NL /\ c = Len(g) /\ done = m + 1)
    BY <1>6 DEF Continues
  <2>2. Horizon = (IF Fetched <= Len(f) THEN Len(f) ELSE Fetched)
    BY DEF Horizon
  <2>3. Horizon' = (IF Fetched <= Len(g) THEN Len(g) ELSE Fetched)
    BY <1>1 DEF Horizon
  <2>4. ASSUME NEW c \in LineStart..Horizon
        PROVE  Ahead[c] = IF c <= offset THEN pendingText[c - LineStart + 1]
                          ELSE IF c <= Fetched THEN buffered[c - offset] ELSE f[c]
    BY DEF Ahead
  <2>5. ASSUME NEW c \in LineStart..Horizon'
        PROVE  Ahead'[c] = IF c <= offset THEN pendingText[c - LineStart + 1]
                           ELSE IF c <= Fetched THEN buffered[c - offset] ELSE g[c]
    BY <1>1 DEF Ahead
  <2> HIDE DEF f, g, m, done
  <2>6. Horizon <= Horizon' /\ Horizon' \in Nat
    BY <1>2, <1>3, <2>1, <2>2, <2>3
  <2>7. ASSUME NEW c \in LineStart..Horizon PROVE Ahead'[c] = Ahead[c]
    <3>1. c \in LineStart..Horizon'
      BY <1>2, <2>6
    <3>2. c > offset /\ c > Fetched => c \in 1..Len(f)
      BY <1>2, <2>2
    <3> QED BY <1>2, <2>1, <2>4, <2>5, <3>1, <3>2
  <2>8. ASSUME NEW c \in (Horizon + 1)..Horizon'
        PROVE  Ahead'[c] = m + 1 \/ (Ahead'[c] = NL /\ c = Horizon' /\ done = m + 1)
    <3>1. /\ Horizon' = Len(g) /\ c \in (Len(f) + 1)..Len(g) /\ c > Fetched /\ c > offset
          /\ LineStart <= c
      <4>1. LineStart <= offset + 1
        BY ReaderTypes
      <4> QED BY <1>2, <1>3, <2>2, <2>3, <2>6, <4>1
    <3>2. Ahead'[c] = g[c]
      <4>1. c \in LineStart..Horizon' /\ ~(c <= offset) /\ ~(c <= Fetched)
        BY <1>2, <3>1
      <4> QED BY <2>5, <4>1
    <3> QED BY <2>1, <3>1, <3>2
  <2>9. Continues(Ahead, LineStart, Horizon, Ahead', Horizon', m, done)
    BY <2>6, <2>7, <2>8 DEF Continues
  <2>10. \A c \in LineStart..Fetched : Ahead'[c] = Ahead[c]
    BY <1>2, <2>7
  <2>11. BufferInFile => BufferInFile'
    <3> SUFFICES ASSUME BufferInFile
                 PROVE  /\ offset + Len(buffered) <= Len(g)
                        /\ \A i \in 1..Len(buffered) : buffered[i] = g[offset + i]
      BY DEF BufferInFile, g
    <3>1. offset + Len(buffered) <= Len(f) /\ \A i \in 1..Len(buffered) : buffered[i] = f[offset + i]
      BY DEF BufferInFile, f
    <3>2. \A i \in 1..Len(buffered) : offset + i \in 1..Len(f)
      BY <1>2, <3>1
    <3> QED BY <1>2, <1>3, <2>1, <3>1, <3>2
  <2> QED BY <1>1, <1>6, <2>9, <2>10, <2>11 DEF f, g, m, done
<1> QED BY <1>4, <1>5, <1>6 DEF Moves

(* A text that was cut stays before whatever the daemon writes.               *)
LEMMA UnderKept ==
    ASSUME FollowerInv, FollowerInv', LogOrder, NEW t, Len(t) \in Nat, Settled(t),
           NEW j \in Inodes, Moves(j), NEW lo \in Nat \ {0},
           Under(t, 1, Len(t), files[j], lo, Len(files[j]))
    PROVE  Under(t, 1, Len(t), files'[j], lo, Len(files'[j]))
<1> DEFINE f == files[j]
           g == files'[j]
<1>1. /\ Len(f) \in Nat /\ Len(g) \in Nat /\ Completed \in Nat
      /\ \A q \in 1..Len(t) : t[q] \in 1..Completed
  BY CompletedType, LenProperties DEF FollowerInv, FollowerTypeOK, LogOrder, Settled
<1>2. CASE g = f
  BY <1>2
<1>3. CASE g = <<>>
  BY <1>3, EmptySeq DEF Under
<1>4. CASE Continues(f, 1, Len(f), g, Len(g), Completed, Completed')
  <2> HIDE DEF f, g
  <2> SUFFICES ASSUME NEW q \in 1..Len(t), NEW d \in lo..Len(g), g[d] # NL PROVE t[q] < g[d]
    BY DEF Under, g
  <2>1. CASE d <= Len(f)
    <3>1. d \in lo..Len(f) /\ d \in 1..Len(f) /\ g[d] = f[d]
      BY <1>1, <1>4, <2>1 DEF Continues
    <3> QED BY <3>1 DEF Under, f
  <2>2. CASE d > Len(f)
    <3>1. d \in (Len(f) + 1)..Len(g)
      BY <1>1, <2>2
    <3>2. g[d] = Completed + 1
      BY <1>4, <3>1 DEF Continues
    <3> QED BY <1>1, <3>2
  <2> QED BY <1>1, <2>1, <2>2
<1> QED BY <1>2, <1>3, <1>4 DEF Moves

LEMMA PlaceKept ==
    ASSUME FollowerInv, FollowerInv', LogOrder, Environment,
           NEW t, Len(t) \in Nat, Settled(t),
           NEW i \in Inodes, NEW o \in Nat, BeforePlace(t, i, o)
    PROVE  BeforePlace(t, i, o)'
<1>1. \A j \in Inodes : Moves(j)
  BY EnvironmentMoves
<1>2. ASSUME NEW j \in Inodes, j > i PROVE Under(t, 1, Len(t), files'[j], 1, Len(files'[j]))
  <2>1. Under(t, 1, Len(t), files[j], 1, Len(files[j]))
    BY <1>2 DEF BeforePlace, LaterFiles
  <2> QED BY <1>1, <2>1, UnderKept
<1>3. Under(t, 1, Len(t), files'[i], o + 1, Len(files'[i]))
  <2>1. Under(t, 1, Len(t), files[i], o + 1, Len(files[i])) /\ o + 1 \in Nat \ {0}
    BY DEF BeforePlace
  <2> QED BY <1>1, <2>1, UnderKept
<1>4. ASSUME o > Len(files'[i]) PROVE Under(t, 1, Len(t), files'[i], 1, Len(files'[i]))
  <2>1. Len(files[i]) \in Nat /\ Len(files'[i]) \in Nat
    BY LenProperties DEF FollowerInv, FollowerTypeOK
  <2>2. CASE files'[i] = <<>>
    BY <2>2, EmptySeq DEF Under
  <2>3. CASE o > Len(files[i])
    <3>1. Under(t, 1, Len(t), files[i], 1, Len(files[i]))
      BY <2>3 DEF BeforePlace, BeforeFile
    <3> QED BY <1>1, <3>1, UnderKept
  <2> QED BY <1>1, <1>4, <2>1, <2>2, <2>3 DEF Moves, Continues
<1> QED BY <1>2, <1>3, <1>4 DEF BeforePlace, LaterFiles, BeforeFile

LEMMA SettledKept ==
    ASSUME FollowerInv, LogOrder, Environment, NEW t, Settled(t)
    PROVE  Settled(t)'
<1>1. Completed \in Nat /\ Completed' \in {Completed, Completed + 1}
  BY CompletedType, EnvironmentMoves DEF LogOrder
<1> QED BY <1>1 DEF Settled

LEMMA ReaderTextKept ==
    ASSUME FollowerInv, FollowerInv', LogOrder, ReaderOrder, Environment,
           NEW t, Len(t) \in Nat, Settled(t), BeforeReader(t)
    PROVE  BeforeReader(t)'
<1>1. /\ \A j \in Inodes : Moves(j)
      /\ UNCHANGED <<fpc, inode, offset, buffered, pendingText>>
  BY EnvironmentMoves DEF followVars
<1> SUFFICES ASSUME inode # NoFile
             PROVE  /\ Under(t, 1, Len(t), Ahead', LineStart', Horizon')
                    /\ \A j \in Inodes : j > inode => Under(t, 1, Len(t), files'[j], 1, Len(files'[j]))
                    /\ BufferInFile' \/ Under(t, 1, Len(t), files'[inode], 1, Len(files'[inode]))
                    /\ fpc = "reopen" /\ path' = inode =>
                         Under(t, 1, Len(t), files'[inode], 1, Len(files'[inode]))
  BY <1>1 DEF BeforeReader, LaterFiles, BeforeFile
<1>2. /\ inode \in Inodes /\ LineStart \in Int /\ Horizon \in Int /\ Fetched \in Int
      /\ Fetched <= Horizon /\ Horizon' \in Int
  <2>1. /\ inode \in Inodes /\ LineStart \in Int /\ Horizon \in Int /\ Fetched \in Int
        /\ Fetched <= Horizon
    BY ReaderTypes
  <2>2. Len(files'[inode]) \in Nat /\ Fetched' = Fetched
    BY <1>1, <2>1, LenProperties DEF FollowerInv, FollowerTypeOK, Fetched
  <2> QED BY <1>1, <2>1, <2>2 DEF Horizon
<1>3. /\ Under(t, 1, Len(t), Ahead, LineStart, Horizon)
      /\ \A j \in Inodes : j > inode => Under(t, 1, Len(t), files[j], 1, Len(files[j]))
      /\ BufferInFile \/ Under(t, 1, Len(t), files[inode], 1, Len(files[inode]))
      /\ fpc = "reopen" /\ path = inode => Under(t, 1, Len(t), files[inode], 1, Len(files[inode]))
  BY DEF BeforeReader, LaterFiles, BeforeFile
<1>4. \A j \in Inodes : Under(t, 1, Len(t), files[j], 1, Len(files[j])) =>
                        Under(t, 1, Len(t), files'[j], 1, Len(files'[j]))
  BY <1>1, UnderKept
<1>5. path' = inode => path = inode
  <2>1. inode \in Nat /\ lastInode \in Nat /\ inode <= lastInode
    BY <1>2, FollowerAssumption DEF ReaderOrder, FollowerInv, FollowerTypeOK, Inodes
  <2>2. path' = path \/ path' = NoFile \/ path' = lastInode + 1
    BY DEF Environment, Write, Rename, Create, WriterReopen, Truncate
  <2> QED BY <2>1, <2>2
<1>6. /\ LineStart' = LineStart /\ Fetched' = Fetched
      /\ \/ /\ Horizon' = Horizon /\ Ahead' = Ahead /\ BufferInFile' = BufferInFile
         \/ /\ files'[inode] = <<>> /\ Horizon' = Fetched
            /\ \A c \in LineStart..Fetched : Ahead'[c] = Ahead[c]
         \/ /\ Continues(Ahead, LineStart, Horizon, Ahead', Horizon', Completed, Completed')
            /\ BufferInFile => BufferInFile'
  BY <1>1, <1>2, EnvironmentAhead
<1>7. Under(t, 1, Len(t), Ahead', LineStart, Horizon')
  <2>1. CASE Horizon' = Horizon /\ Ahead' = Ahead
    BY <1>3, <2>1
  <2>2. CASE Horizon' = Fetched /\ \A c \in LineStart..Fetched : Ahead'[c] = Ahead[c]
    <3> DEFINE g == Ahead'
    <3>1. \A c \in LineStart..Fetched : g[c] = Ahead[c]
      BY <2>2
    <3>2. LineStart <= LineStart
      BY <1>2
    <3> HIDE DEF g
    <3>3. Under(t, 1, Len(t), g, LineStart, Fetched)
      BY <1>2, <1>3, <3>1, <3>2, UnderPart, Zenon
    <3> QED BY <2>2, <3>3 DEF g
  <2>3. CASE Continues(Ahead, LineStart, Horizon, Ahead', Horizon', Completed, Completed')
    <3> DEFINE g == Ahead'
               last == Horizon'
               done == Completed'
    <3>1. /\ 1 \in Int /\ Len(t) \in Int /\ Completed \in Nat /\ last \in Int
          /\ \A c \in 1..Len(t) : t[c] \in 0..Completed
      BY <1>2, CompletedType DEF LogOrder, Settled
    <3>2. Continues(Ahead, LineStart, Horizon, g, last, Completed, done)
      BY <2>3
    <3> HIDE DEF g, last, done
    <3>3. Under(t, 1, Len(t), g, LineStart, last)
      BY <1>2, <1>3, <3>1, <3>2, UnderContinued, Zenon
    <3> QED BY <3>3 DEF g, last
  <2> QED BY <1>6, <2>1, <2>2, <2>3
<1>8. BufferInFile' \/ Under(t, 1, Len(t), files'[inode], 1, Len(files'[inode]))
  <2>1. files'[inode] = <<>> => Under(t, 1, Len(t), files'[inode], 1, Len(files'[inode]))
    BY EmptySeq DEF Under
  <2> QED BY <1>2, <1>3, <1>4, <1>6, <2>1
<1> QED BY <1>2, <1>3, <1>4, <1>5, <1>6, <1>7, <1>8

(* The daemon and logrotate keep what is before the reader in order.          *)
LEMMA ReaderOrderKept ==
    ASSUME FollowerInv, FollowerInv', LogOrder, ReaderOrder, Environment
    PROVE  ReaderOrder'
<1> DEFINE m == Completed
           done == Completed'
           g == Ahead'
           last == Horizon'
<1>1. /\ \A j \in Inodes : Moves(j)
      /\ done \in {m, m + 1} /\ written <= written'
      /\ lastInode <= lastInode'
      /\ UNCHANGED <<inode, offset, buffered, pendingText>>
  BY EnvironmentMoves DEF followVars
<1> SUFFICES ASSUME inode # NoFile
             PROVE  /\ inode <= lastInode'
                    /\ Lines(Ahead', LineStart', Horizon', written', Completed')
                    /\ inode < wfd' => AtMost(Ahead', LineStart', Horizon', Completed')
                    /\ \A j \in Inodes :
                         j > inode => Under(Ahead', LineStart', Horizon', files'[j], 1, Len(files'[j]))
                    /\ BufferInFile' \/ Stale'
  BY <1>1 DEF ReaderOrder
<1>2. /\ inode <= lastInode
      /\ Lines(Ahead, LineStart, Horizon, written, m)
      /\ inode < wfd => AtMost(Ahead, LineStart, Horizon, m)
      /\ \A j \in Inodes : j > inode => Under(Ahead, LineStart, Horizon, files[j], 1, Len(files[j]))
      /\ BufferInFile \/ Stale
  BY DEF ReaderOrder
<1>3. /\ inode \in Inodes /\ LineStart \in Int /\ Horizon \in Int /\ Fetched \in Int
      /\ Fetched <= Horizon /\ last \in Int
      /\ \A j \in Inodes : Len(files[j]) \in Nat /\ Len(files'[j]) \in Nat
  <2>1. /\ inode \in Inodes /\ LineStart \in Int /\ Horizon \in Int /\ Fetched \in Int
        /\ Fetched <= Horizon
    BY ReaderTypes
  <2>2. \A j \in Inodes : Len(files[j]) \in Nat /\ Len(files'[j]) \in Nat
    BY LenProperties DEF FollowerInv, FollowerTypeOK
  <2>3. Fetched' = Fetched /\ inode' = inode
    BY <1>1 DEF Fetched
  <2> QED BY <2>1, <2>2, <2>3 DEF Horizon
<1>4. /\ m \in Nat /\ written \in Nat /\ written <= m + 1 /\ written' \in Nat /\ done \in Nat
      /\ m <= done /\ Inodes \subseteq Nat /\ wfd \in Nat /\ wfd' \in Nat
      /\ lastInode \in Nat /\ lastInode' \in Nat
  <2>1. m \in Nat /\ written \in Nat /\ written <= m + 1
    BY CompletedType DEF LogOrder
  <2>2. /\ written' \in Nat /\ Inodes \subseteq Nat /\ wfd \in Nat /\ wfd' \in Nat
        /\ lastInode \in Nat /\ lastInode' \in Nat
    BY FollowerAssumption DEF FollowerInv, FollowerTypeOK, Inodes
  <2> QED BY <1>1, <2>1, <2>2
<1>5. /\ LineStart' = LineStart /\ Fetched' = Fetched
      /\ \/ /\ files'[inode] = files[inode]
            /\ last = Horizon /\ g = Ahead /\ BufferInFile' = BufferInFile
         \/ /\ files'[inode] = <<>> /\ inode = wfd
            /\ last = Fetched
            /\ \A c \in LineStart..Fetched : g[c] = Ahead[c]
         \/ /\ inode = wfd /\ written' = m + 1
            /\ Continues(files[inode], 1, Len(files[inode]), files'[inode],
                         Len(files'[inode]), m, done)
            /\ Continues(Ahead, LineStart, Horizon, g, last, m, done)
            /\ \A c \in LineStart..Fetched : g[c] = Ahead[c]
            /\ BufferInFile => BufferInFile'
  BY <1>1, <1>3, EnvironmentAhead
<1>6. wfd <= wfd' /\ (wfd' # wfd => done = m /\ m = written /\ UNCHANGED files)
  <2>1. CASE WriterReopen
    <3>1. wfd' = path /\ path = lastInode /\ wfd <= lastInode
      BY <2>1 DEF WriterReopen, LogOrder
    <3>2. UNCHANGED <<files, todo, written>> /\ todo = <<>>
      BY <2>1 DEF WriterReopen
    <3> QED BY <1>4, <3>1, <3>2 DEF Completed
  <2>2. CASE UNCHANGED wfd
    BY <1>4, <2>2
  <2> QED BY <2>1, <2>2 DEF Environment, Write, Rename, Create, Truncate
<1>7. \A c \in LineStart..Horizon : Ahead[c] \in 0..written
  BY <1>2 DEF Lines
<1> HIDE DEF m, done, g, last
<1>8. Lines(g, LineStart, last, written', done)
  <2>1. CASE last = Horizon /\ g = Ahead
    <3>1. LineStart <= LineStart /\ Horizon <= Horizon
          /\ \A c \in LineStart..Horizon : Ahead[c] = Ahead[c]
      BY <1>3
    <3>2. Lines(Ahead, LineStart, Horizon, written', done)
      BY <1>1, <1>2, <1>3, <1>4, <3>1, LinesPart, Zenon
    <3> QED BY <2>1, <3>2
  <2>2. CASE last = Fetched /\ \A c \in LineStart..Fetched : g[c] = Ahead[c]
    <3>1. LineStart <= LineStart
      BY <1>3
    <3>2. Lines(g, LineStart, Fetched, written', done)
      BY <1>1, <1>2, <1>3, <1>4, <2>2, <3>1, LinesPart, Zenon
    <3> QED BY <2>2, <3>2
  <2>3. CASE written' = m + 1 /\ Continues(Ahead, LineStart, Horizon, g, last, m, done)
    <3>1. /\ LineStart \in Int /\ Horizon \in Int /\ written \in Nat /\ m \in Nat
          /\ Lines(Ahead, LineStart, Horizon, written, m) /\ written <= m + 1
          /\ last \in Int /\ done \in {m, m + 1}
          /\ Continues(Ahead, LineStart, Horizon, g, last, m, done)
      BY <1>1, <1>2, <1>3, <1>4, <2>3
    <3>2. Lines(g, LineStart, last, m + 1, done)
      BY <3>1, LinesContinued, Zenon
    <3> QED BY <2>3, <3>2
  <2> QED BY <1>5, <2>1, <2>2, <2>3
<1>9. ASSUME inode < wfd' PROVE AtMost(g, LineStart, last, done)
  <2>1. CASE inode < wfd
    <3>1. last = Horizon /\ g = Ahead /\ AtMost(Ahead, LineStart, Horizon, m)
      BY <1>2, <1>3, <1>4, <1>5, <2>1
    <3> QED BY <1>4, <1>7, <3>1 DEF AtMost
  <2>2. CASE ~(inode < wfd)
    <3>1. wfd' # wfd
      BY <1>3, <1>4, <1>9, <2>2
    <3>2. done = written /\ \A c \in LineStart..last : g[c] \in 0..written'
      BY <1>6, <1>8, <3>1 DEF Lines
    <3>3. UNCHANGED written
      BY <3>1 DEF Environment, Write, Rename, Create, WriterReopen, Truncate
    <3> QED BY <1>4, <3>2, <3>3 DEF AtMost
  <2> QED BY <2>1, <2>2
<1>10. ASSUME NEW j \in Inodes, j > inode
       PROVE  Under(g, LineStart, last, files'[j], 1, Len(files'[j]))
  <2>1. CASE inode = wfd
    <3>1. files[j] = <<>> /\ files'[j] = files[j]
      BY <1>1, <1>3, <1>4, <1>10, <2>1 DEF LogOrder, Moves
    <3> QED BY <3>1, EmptySeq DEF Under
  <2>2. CASE inode # wfd
    <3>1. last = Horizon /\ g = Ahead
      BY <1>5, <2>2
    <3>2. Under(Ahead, LineStart, Horizon, files[j], 1, Len(files[j]))
      BY <1>2, <1>10
    <3>3. CASE files'[j] = files[j]
      BY <3>1, <3>2, <3>3
    <3>4. CASE files'[j] = <<>>
      BY <3>4, EmptySeq DEF Under
    <3>5. CASE j = wfd /\ Continues(files[j], 1, Len(files[j]), files'[j], Len(files'[j]), m, done)
      <4> DEFINE f == files[j]
                 h == files'[j]
      <4>1. \A c \in LineStart..Horizon : Ahead[c] \in 0..m
        <5>1. AtMost(Ahead, LineStart, Horizon, m)
          BY <1>2, <1>10, <3>5
        <5> QED BY <1>4, <1>7, <5>1 DEF AtMost
      <4>2. 1 \in Int /\ Len(f) \in Int /\ Len(h) \in Int
        BY <1>3
      <4>3. /\ Continues(f, 1, Len(f), h, Len(h), m, done)
            /\ Under(Ahead, LineStart, Horizon, f, 1, Len(f))
        BY <3>2, <3>5
      <4> HIDE DEF f, h
      <4>4. Under(Ahead, LineStart, Horizon, h, 1, Len(h))
        BY <1>3, <1>4, <4>1, <4>2, <4>3, UnderContinued, Zenon
      <4> QED BY <3>1, <4>4 DEF h
    <3> QED BY <1>1, <3>3, <3>4, <3>5 DEF Moves, m, done
  <2> QED BY <2>1, <2>2
<1>11. BufferInFile' \/ Stale'
  <2>1. CASE files'[inode] = files[inode] /\ g = Ahead /\ BufferInFile' = BufferInFile
    BY <1>1, <1>2, <1>5, <2>1 DEF Stale, g
  <2>2. CASE files'[inode] = <<>>
    <3>1. Len(files'[inode']) = 0
      BY <1>1, <2>2, EmptySeq
    <3> QED BY <3>1 DEF Stale
  <2>3. CASE /\ Continues(files[inode], 1, Len(files[inode]), files'[inode],
                          Len(files'[inode]), m, done)
             /\ \A c \in LineStart..Fetched : g[c] = Ahead[c]
             /\ BufferInFile => BufferInFile'
    <3> SUFFICES ASSUME Stale PROVE Stale'
      BY <1>2, <2>3
    <3> DEFINE f == files[inode]
               h == files'[inode]
    <3>1. /\ \A c \in LineStart..Fetched, p \in 1..Len(f) : f[p] # NL => Ahead[c] <= f[p]
          /\ \A c, e \in LineStart..Fetched, p \in 1..Len(f) :
               c < e /\ Ahead[e] = NL /\ f[p] # NL => Ahead[c] < f[p]
      BY DEF Stale
    <3>2. Len(f) \in Nat /\ Len(h) \in Nat
      BY <1>3
    <3> HIDE DEF f, h
    <3>3. ASSUME NEW p \in 1..Len(h)
          PROVE  (p \in 1..Len(f) /\ h[p] = f[p]) \/ h[p] = m + 1 \/ h[p] = NL
      BY <2>3, <3>2 DEF Continues, f, h
    <3>4. ASSUME NEW c \in LineStart..Fetched
          PROVE  c \in LineStart..Horizon /\ Ahead[c] \in 0..written /\ g[c] = Ahead[c]
      BY <1>3, <1>7, <2>3
    <3>5. ASSUME NEW c \in LineStart..Fetched, NEW p \in 1..Len(h), h[p] # NL PROVE g[c] <= h[p]
      <4>1. g[c] = Ahead[c] /\ Ahead[c] \in 0..written
        BY <3>4
      <4>2. CASE p \in 1..Len(f) /\ h[p] = f[p]
        BY <3>1, <3>5, <4>1, <4>2
      <4>3. CASE h[p] = m + 1
        BY <1>4, <4>1, <4>3
      <4> QED BY <3>3, <3>5, <4>2, <4>3
    <3>6. ASSUME NEW c \in LineStart..Fetched, NEW e \in LineStart..Fetched, NEW p \in 1..Len(h),
                 c < e, g[e] = NL, h[p] # NL
          PROVE  g[c] < h[p]
      <4>1. CASE p \in 1..Len(f) /\ h[p] = f[p]
        BY <3>1, <3>4, <3>6, <4>1
      <4>2. CASE h[p] = m + 1
        <5>1. Ahead[c] <= m
          BY <1>2, <3>4, <3>6 DEF Lines
        <5> QED BY <1>4, <3>4, <4>2, <5>1
      <4> QED BY <3>3, <3>6, <4>1, <4>2
    <3> QED BY <1>1, <1>5, <3>5, <3>6 DEF Stale, g, h
  <2> QED BY <1>5, <2>1, <2>2, <2>3
<1>12. inode <= lastInode'
  BY <1>1, <1>2, <1>3, <1>4
<1> QED BY <1>5, <1>8, <1>9, <1>10, <1>11, <1>12 DEF g, last, done

(* What bufio can hand out is the first of what is before the reader.         *)
LEMMA AvailableAhead ==
    ASSUME FollowerInv, fpc = "read"
    PROVE  /\ inode # NoFile
           /\ Available \in Seq(Units) /\ Len(Available) \in Nat
           /\ offset + Len(Available) <= Horizon
           /\ \A i \in 1..Len(Available) : /\ offset + i \in LineStart..Horizon
                                           /\ Available[i] = Ahead[offset + i]
           /\ HasNL(buffered) => Available = buffered
           /\ ~HasNL(buffered) => /\ offset + Len(Available) = Horizon
                                  /\ Len(buffered) <= Len(Available)
                                  /\ \A i \in 1..Len(buffered) : Available[i] = buffered[i]
                                  /\ \A i \in (Len(buffered) + 1)..Len(Available) :
                                       Available[i] = files[inode][offset + i]
<1> DEFINE f == files[inode]
           rest == SubSeq(f, Fetched + 1, Len(f))
<1>1. inode # NoFile
  BY FollowerAssumption DEF FollowerInv, FollowerTypeOK, NoFile, Inodes
<1>2. /\ f \in Seq(Units) /\ Len(f) \in Nat /\ offset \in Nat
      /\ buffered \in Seq(Units) /\ Len(buffered) \in Nat
      /\ Fetched \in Nat /\ offset <= Fetched /\ Horizon \in Nat /\ LineStart \in Int
      /\ Fetched <= Horizon /\ LineStart <= offset + 1
      /\ Fetched = offset + Len(buffered)
  BY <1>1, ReaderTypes DEF Fetched
<1>3. ASSUME NEW i \in 1..Len(buffered)
      PROVE  offset + i \in LineStart..Horizon /\ buffered[i] = Ahead[offset + i]
  <2> DEFINE c == offset + i
  <2>1. c \in LineStart..Horizon /\ ~(c <= offset) /\ c <= Fetched /\ c - offset = i
    BY <1>2
  <2> HIDE DEF c
  <2>2. Ahead[c] = buffered[c - offset]
    BY <2>1 DEF Ahead
  <2> QED BY <2>1, <2>2 DEF c
<1>4. CASE HasNL(buffered)
  BY <1>1, <1>2, <1>3, <1>4 DEF Available
<1>5. CASE ~HasNL(buffered)
  <2>1. Available = buffered \o rest
    BY <1>5 DEF Available, Fetched
  <2>2. /\ rest \in Seq(Units) /\ Len(rest) = Horizon - Fetched
        /\ \A i \in 1..Len(rest) : rest[i] = f[Fetched + i]
    <3>1. CASE Fetched <= Len(f)
      <4>1. /\ rest \in Seq(Units) /\ Len(rest) = Len(f) - (Fetched + 1) + 1
            /\ \A i \in 1..(Len(f) - (Fetched + 1) + 1) : rest[i] = f[Fetched + 1 - 1 + i]
        BY <1>2, <3>1, PartProperties
      <4>2. Horizon = Len(f)
        BY <3>1 DEF Horizon
      <4> HIDE DEF rest, f
      <4>3. Len(rest) = Horizon - Fetched /\ Fetched + 1 - 1 = Fetched
            /\ Len(rest) = Len(f) - (Fetched + 1) + 1
        BY <1>2, <4>1, <4>2
      <4> QED BY <4>1, <4>3
    <3>2. CASE Fetched > Len(f)
      <4>1. Horizon = Fetched
        BY <1>2, <3>2 DEF Horizon
      <4>2. rest = <<>>
        BY <1>2, <3>2, SubSeqEmpty
      <4>3. rest \in Seq(Units) /\ Len(rest) = 0
        BY <4>2, EmptySeq
      <4> HIDE DEF rest
      <4> QED BY <1>2, <4>1, <4>3
    <3> QED BY <1>2, <3>1, <3>2
  <2> HIDE DEF rest
  <2>3. /\ Available \in Seq(Units) /\ Len(Available) = Len(buffered) + Len(rest)
        /\ \A i \in 1..Len(Available) : i <= Len(buffered) => Available[i] = buffered[i]
        /\ \A i \in 1..Len(Available) : i > Len(buffered) => Available[i] = rest[i - Len(buffered)]
    <3> DEFINE u == buffered \o rest
    <3>1. /\ u \in Seq(Units) /\ Len(u) = Len(buffered) + Len(rest)
          /\ \A i \in 1..Len(u) : i <= Len(buffered) => u[i] = buffered[i]
          /\ \A i \in 1..Len(u) : i > Len(buffered) => u[i] = rest[i - Len(buffered)]
      <4>1. buffered \in Seq(Units) /\ rest \in Seq(Units)
        BY <1>2, <2>2
      <4> QED BY <4>1, Joined
    <3>2. Available = u
      BY <2>1
    <3> HIDE DEF u
    <3> QED BY <3>1, <3>2
  <2>4. Len(Available) = Horizon - offset /\ Len(buffered) <= Len(Available)
    BY <1>2, <2>2, <2>3
  <2>5. ASSUME NEW i \in (Len(buffered) + 1)..Len(Available)
        PROVE  /\ offset + i \in LineStart..Horizon /\ Available[i] = f[offset + i]
               /\ Available[i] = Ahead[offset + i]
    <3>1. /\ i \in 1..Len(Available) /\ i > Len(buffered) /\ i - Len(buffered) \in 1..Len(rest)
          /\ Fetched + (i - Len(buffered)) = offset + i
          /\ offset + i \in LineStart..Horizon /\ ~(offset + i <= offset) /\ ~(offset + i <= Fetched)
      BY <1>2, <2>2, <2>3, <2>4
    <3>2. Available[i] = f[offset + i]
      BY <2>2, <2>3, <3>1
    <3>3. Ahead[offset + i] = f[offset + i]
      BY <3>1 DEF Ahead
    <3> QED BY <3>1, <3>2, <3>3
  <2>6. \A i \in 1..Len(buffered) : i \in 1..Len(Available) /\ Available[i] = buffered[i]
    BY <1>2, <2>3, <2>4
  <2>7. ASSUME NEW i \in 1..Len(Available)
        PROVE  offset + i \in LineStart..Horizon /\ Available[i] = Ahead[offset + i]
    <3>1. i \in 1..Len(buffered) \/ i \in (Len(buffered) + 1)..Len(Available)
      BY <1>2, <2>4
    <3> QED BY <1>3, <2>5, <2>6, <3>1
  <2>8. Len(Available) \in Nat /\ offset + Len(Available) = Horizon
    BY <1>2, <2>4
  <2> QED BY <1>1, <1>2, <1>5, <2>3, <2>4, <2>5, <2>6, <2>7, <2>8
<1> QED BY <1>4, <1>5

(* ReadLine takes what is before the reader up to the first newline, and      *)
(* leaves the rest as it was.                                                 *)
LEMMA ReadLineAhead ==
    ASSUME FollowerInv, FollowerInv', ReadLine, Len(pendingText) <= offset,
           \A i \in 1..Len(pendingText) : pendingText[i] # NL
    PROVE  /\ inode # NoFile /\ inode' = inode /\ UNCHANGED files
           /\ offset' \in Nat /\ offset < offset' /\ offset' <= Horizon /\ Ahead[offset'] = NL
           /\ Len(pendingText') = 0 /\ LineStart' = offset' + 1 /\ Horizon' = Horizon
           /\ \A c \in (offset' + 1)..Horizon : Ahead'[c] = Ahead[c]
           /\ \/ offset' <= Fetched /\ Fetched' = Fetched /\ (BufferInFile => BufferInFile')
              \/ offset' > Fetched /\ BufferInFile'
           /\ \E r \in lineRecord :
                /\ cut' = Append(cut, r) /\ r.Inode = inode /\ r.Offset = offset'
                /\ Len(r.Text) = offset' - LineStart
                /\ \A q \in 1..Len(r.Text) : /\ r.Text[q] = Ahead[LineStart + q - 1]
                                             /\ r.Text[q] # NL
<1> DEFINE f == files[inode]
           a == Available
           n == FirstNL(Available)
           L == Len(pendingText)
           text == SubSeq(a, 1, n - 1)
           left == SubSeq(a, n + 1, Len(a))
           line == pendingText \o text
<1>1. /\ inode # NoFile /\ a \in Seq(Units) /\ Len(a) \in Nat /\ offset + Len(a) <= Horizon
      /\ \A i \in 1..Len(a) : offset + i \in LineStart..Horizon /\ a[i] = Ahead[offset + i]
      /\ HasNL(buffered) => a = buffered
      /\ ~HasNL(buffered) => /\ offset + Len(a) = Horizon
                             /\ Len(buffered) <= Len(a)
                             /\ \A i \in 1..Len(buffered) : a[i] = buffered[i]
                             /\ \A i \in (Len(buffered) + 1)..Len(a) : a[i] = f[offset + i]
  BY AvailableAhead DEF ReadLine
<1>2. /\ inode \in Inodes /\ f \in Seq(Units) /\ Len(f) \in Nat /\ offset \in Nat
      /\ buffered \in Seq(Units) /\ Len(buffered) \in Nat
      /\ pendingText \in Seq(Units) /\ L \in Nat
      /\ Fetched \in Nat /\ Horizon \in Nat /\ LineStart \in Int /\ Fetched <= Horizon
      /\ Fetched = offset + Len(buffered) /\ LineStart = offset - L + 1
      /\ Horizon = (IF Fetched <= Len(f) THEN Len(f) ELSE Fetched)
      /\ L <= offset
  BY <1>1, ReaderTypes DEF Fetched, LineStart, Horizon
<1>3. n \in 1..Len(a) /\ a[n] = NL
  BY <1>1, FirstNewline DEF ReadLine
<1>4. /\ \A j \in 1..(n - 1) : a[j] # NL
  BY <1>1, FirstNewline DEF ReadLine
<1>5. /\ offset' = offset + n /\ buffered' = left /\ pendingText' = <<>>
      /\ cut' = Append(cut, [Sequence |-> sequence, Text |-> line,
                             Inode |-> inode, Offset |-> offset + n])
      /\ inode' = inode /\ files' = files
  BY DEF ReadLine, logVars
<1> HIDE DEF a, n
<1>6. text \in Seq(Units) /\ Len(text) = n - 1 /\ \A i \in 1..(n - 1) : text[i] = a[i]
  <2>1. n - 1 \in Nat /\ n - 1 <= Len(a) /\ 1 <= n - 1 + 1
    BY <1>1, <1>3
  <2>2. /\ text \in Seq(Units) /\ Len(text) = n - 1 - 1 + 1
        /\ \A i \in 1..(n - 1 - 1 + 1) : text[i] = a[1 - 1 + i]
    BY <1>1, <2>1, PartProperties
  <2> HIDE DEF text
  <2> QED BY <1>1, <1>3, <2>2
<1>7. left \in Seq(Units) /\ Len(left) = Len(a) - n /\ \A i \in 1..(Len(a) - n) : left[i] = a[n + i]
  <2>1. /\ n + 1 \in Nat \ {0} /\ n + 1 <= Len(a) + 1 /\ Len(a) \in Nat /\ Len(a) <= Len(a)
        /\ a \in Seq(Units)
    BY <1>1, <1>3
  <2> DEFINE k == n + 1
             e == Len(a)
  <2> HIDE DEF k, e
  <2>2. /\ SubSeq(a, k, e) \in Seq(Units) /\ Len(SubSeq(a, k, e)) = e - k + 1
        /\ \A i \in 1..(e - k + 1) : SubSeq(a, k, e)[i] = a[k - 1 + i]
    <3>1. k \in Nat \ {0} /\ e \in Nat /\ k <= e + 1 /\ e <= Len(a) /\ a \in Seq(Units)
      BY <2>1 DEF k, e
    <3> QED BY <3>1, PartProperties
  <2>4. SubSeq(a, k, e) = left
    BY DEF k, e
  <2> HIDE DEF left
  <2>5. /\ left \in Seq(Units) /\ Len(left) = e - k + 1
        /\ \A i \in 1..(e - k + 1) : left[i] = a[k - 1 + i]
    BY <2>2, <2>4
  <2>3. /\ Len(a) - (n + 1) + 1 = Len(a) - n
        /\ \A i \in 1..(Len(a) - n) : n + 1 - 1 + i = n + i
    BY <1>1, <1>3
  <2>6. Len(a) - (n + 1) + 1 = e - k + 1 /\ \A i \in 1..(Len(a) - n) : k - 1 + i = n + i
    <3>1. Len(a) - (n + 1) + 1 = e - k + 1
      BY DEF k, e
    <3>2. k = n + 1 /\ n \in Nat
      BY <1>1, <1>3 DEF k
    <3> QED BY <3>1, <3>2
  <2>7. left \in Seq(Units) /\ Len(left) = Len(a) - n
    BY <2>3, <2>5, <2>6
  <2>8. ASSUME NEW i \in 1..(Len(a) - n) PROVE left[i] = a[n + i]
    <3>1. k - 1 + i = n + i /\ i \in 1..(e - k + 1)
      BY <2>3, <2>6
    <3>2. left[i] = a[k - 1 + i]
      BY <2>5, <3>1
    <3> QED BY <3>1, <3>2
  <2> QED BY <2>7, <2>8
<1> HIDE DEF text, left, L
<1>8. /\ line \in Seq(Units) /\ Len(line) = L + Len(text)
      /\ \A i \in 1..Len(line) : i <= L => line[i] = pendingText[i]
      /\ \A i \in 1..Len(line) : i > L => line[i] = text[i - L]
  <2>1. pendingText \in Seq(Units) /\ text \in Seq(Units)
    BY <1>2, <1>6
  <2> QED BY <2>1, Joined DEF L
<1> HIDE DEF line, f
<1>9. ASSUME ~HasNL(buffered) PROVE n > Len(buffered)
  <2> SUFFICES ASSUME n <= Len(buffered) PROVE FALSE
    BY <1>1, <1>2, <1>3
  <2>1. n \in 1..Len(buffered)
    BY <1>1, <1>2, <1>3
  <2>2. buffered[n] = NL
    BY <1>1, <1>3, <1>9, <2>1
  <2> QED BY <1>9, <2>1, <2>2 DEF HasNL
<1>10. /\ offset' \in Nat /\ offset < offset' /\ offset' <= Horizon /\ Ahead[offset'] = NL
      /\ Len(pendingText') = 0 /\ LineStart' = offset' + 1
      /\ Fetched' = offset + Len(a) /\ Fetched' \in Nat
  <2>1. offset' \in Nat /\ offset < offset' /\ offset' <= Horizon
    BY <1>1, <1>2, <1>3, <1>5
  <2>2. Ahead[offset'] = NL
    BY <1>1, <1>3, <1>5
  <2>3. Len(pendingText') = 0
    BY <1>5, EmptySeq
  <2>4. LineStart' = offset' + 1
    BY <2>1, <2>3 DEF LineStart
  <2>5. Fetched' = offset' + Len(left)
    BY <1>5 DEF Fetched
  <2>6. Fetched' = offset + Len(a) /\ Fetched' \in Nat
    BY <1>1, <1>2, <1>3, <1>5, <1>7, <2>5
  <2> QED BY <2>1, <2>2, <2>3, <2>4, <2>6
<1>11. Horizon' = (IF Fetched' <= Len(f) THEN Len(f) ELSE Fetched')
  BY <1>5 DEF Horizon, f
<1>12. ASSUME BufferInFile \/ ~HasNL(buffered) PROVE \A i \in 1..Len(left) : left[i] = f[offset' + i] /\ offset + Len(a) <= Len(f)
  <2> TAKE i \in 1..Len(left)
  <2>1. /\ n + i \in 1..Len(a) /\ offset + (n + i) = offset' + i /\ left[i] = a[n + i]
    <3>1. Len(a) \in Nat /\ n \in 1..Len(a) /\ offset \in Nat /\ i \in 1..(Len(a) - n)
      BY <1>1, <1>2, <1>3, <1>7
    <3>2. left[i] = a[n + i]
      BY <1>7, <3>1
    <3>3. n + i \in 1..Len(a) /\ offset + (n + i) = (offset + n) + i
      BY <3>1
    <3> QED BY <1>5, <3>2, <3>3
  <2>2. CASE HasNL(buffered)
    <3>1. a = buffered /\ BufferInFile
      BY <1>1, <1>12, <2>2
    <3>2. offset + Len(a) <= Len(f) /\ a[n + i] = f[offset + (n + i)]
      BY <1>1, <2>1, <3>1 DEF BufferInFile, f
    <3> QED BY <2>1, <3>2
  <2>3. CASE ~HasNL(buffered)
    <3>1. n > Len(buffered)
      BY <1>9, <2>3
    <3>2. n + i \in (Len(buffered) + 1)..Len(a)
      BY <1>1, <1>2, <1>3, <2>1, <3>1
    <3>3. a[n + i] = f[offset + (n + i)]
      BY <1>1, <2>3, <3>2
    <3>4. offset + Len(a) <= Len(f)
      BY <1>1, <1>2, <1>3, <2>3, <3>1
    <3> QED BY <2>1, <3>3, <3>4
  <2> QED BY <2>2, <2>3
<1>13. /\ Horizon' = Horizon
       /\ \/ offset' <= Fetched /\ Fetched' = Fetched /\ (BufferInFile => BufferInFile')
          \/ offset' > Fetched /\ BufferInFile'
  <2>1. CASE HasNL(buffered)
    <3>1. a = buffered /\ Fetched' = Fetched /\ offset' <= Fetched
      <4>1. a = buffered
        BY <1>1, <2>1
      <4>2. n \in 1..Len(buffered) /\ offset' = offset + n
        BY <1>3, <1>5, <4>1
      <4>3. offset' <= Fetched
        BY <1>2, <4>2
      <4>4. Fetched' = Fetched
        BY <1>2, <1>10, <4>1
      <4> QED BY <4>1, <4>3, <4>4
    <3>2. Horizon' = Horizon
      BY <1>2, <1>11, <3>1
    <3>3. ASSUME BufferInFile PROVE BufferInFile'
      <4>1. Fetched <= Len(f)
        BY <1>1, <1>2, <3>3 DEF BufferInFile, f
      <4>2. offset' + Len(left) <= Len(f)
        BY <1>1, <1>2, <1>3, <1>5, <1>7, <3>1, <4>1
      <4> QED BY <1>5, <1>12, <3>3, <4>2 DEF BufferInFile, f
    <3> QED BY <3>1, <3>2, <3>3
  <2>2. CASE ~HasNL(buffered)
    <3>1. n > Len(buffered) /\ offset + Len(a) = Horizon
      BY <1>1, <1>9, <2>2
    <3>2. offset' > Fetched /\ Horizon = Len(f) /\ Fetched' = Horizon
      BY <1>1, <1>2, <1>3, <1>5, <1>10, <3>1
    <3>3. Horizon' = Horizon
      BY <1>2, <1>11, <3>2
    <3>4. offset' + Len(left) <= Len(f)
      <4>1. /\ offset' = offset + n /\ Len(left) = Len(a) - n /\ offset + Len(a) = Len(f)
            /\ offset \in Nat /\ n \in Nat /\ Len(a) \in Nat
        BY <1>1, <1>2, <1>3, <1>5, <1>7, <3>1, <3>2
      <4> QED BY <4>1
    <3>5. BufferInFile'
      BY <1>5, <1>12, <2>2, <3>4 DEF BufferInFile, f
    <3> QED BY <3>2, <3>3, <3>5
  <2> QED BY <2>1, <2>2
<1>14. ASSUME NEW o \in Nat, o = offset', NEW c \in (o + 1)..Horizon PROVE Ahead'[c] = Ahead[c]
  <2>1. /\ c \in LineStart'..Horizon' /\ ~(c <= o) /\ c - o \in Nat
        /\ c \in LineStart..Horizon /\ ~(c <= offset)
    <3>1. Horizon' = Horizon /\ LineStart' = o + 1 /\ offset < o
      BY <1>10, <1>13, <1>14
    <3>2. LineStart <= offset + 1 /\ LineStart \in Int /\ offset \in Nat /\ Horizon \in Nat
      BY <1>2
    <3> QED BY <3>1, <3>2
  <2>2. Ahead'[c] = IF c <= Fetched' THEN left[c - o] ELSE f[c]
    BY <1>5, <1>14, <2>1 DEF Ahead, f
  <2>3. CASE c <= Fetched'
    <3>1. /\ c - o \in 1..(Len(a) - n) /\ n + (c - o) \in 1..Len(a)
          /\ offset + (n + (c - o)) = c
      BY <1>1, <1>2, <1>3, <1>5, <1>10, <1>14, <2>1, <2>3
    <3>2. left[c - o] = a[n + (c - o)]
      BY <1>7, <3>1
    <3>3. a[n + (c - o)] = Ahead[c]
      BY <1>1, <3>1
    <3> QED BY <2>2, <2>3, <3>2, <3>3
  <2>4. CASE ~(c <= Fetched')
    <3>1. ~(c <= Fetched)
      BY <1>2, <1>10, <1>13, <1>14, <2>1, <2>4
    <3>2. Ahead[c] = f[c]
      BY <2>1, <3>1 DEF Ahead, f
    <3> QED BY <2>2, <2>4, <3>2
  <2> QED BY <2>3, <2>4
<1>15. Len(line) = offset' - LineStart
  <2>1. Len(line) = L + (n - 1) /\ n \in Nat /\ L \in Nat /\ offset \in Nat
    BY <1>1, <1>2, <1>3, <1>6, <1>8
  <2>2. offset' = offset + n /\ LineStart = offset - L + 1
    BY <1>2, <1>5
  <2> QED BY <2>1, <2>2
<1>16. ASSUME NEW q \in 1..Len(line) PROVE line[q] = Ahead[LineStart + q - 1] /\ line[q] # NL
  <2> DEFINE c == LineStart + q - 1
  <2>0. Len(line) = L + (n - 1) /\ n \in Nat
    BY <1>1, <1>3, <1>6, <1>8
  <2>1. CASE q <= L
    <3>1. c \in LineStart..Horizon /\ c <= offset /\ c - LineStart + 1 = q /\ q \in 1..L
      BY <1>2, <2>1
    <3> HIDE DEF c
    <3>2. Ahead[c] = pendingText[c - LineStart + 1]
      BY <3>1 DEF Ahead
    <3>3. line[q] = pendingText[q] /\ pendingText[q] # NL
      BY <1>8, <2>1, <3>1 DEF L
    <3> QED BY <3>1, <3>2, <3>3 DEF c
  <2>2. CASE q > L
    <3>1. q - L \in 1..(n - 1) /\ q - L \in 1..Len(a) /\ offset + (q - L) = c
      BY <1>1, <1>2, <1>3, <2>0, <2>2
    <3> HIDE DEF c
    <3>2. line[q] = a[q - L] /\ a[q - L] # NL
      BY <1>4, <1>6, <1>8, <2>2, <3>1
    <3>3. a[q - L] = Ahead[c]
      BY <1>1, <3>1
    <3> QED BY <3>2, <3>3 DEF c
  <2> QED BY <1>2, <2>0, <2>1, <2>2
<1>17. \E r \in lineRecord :
          /\ cut' = Append(cut, r) /\ r.Inode = inode /\ r.Offset = offset'
          /\ Len(r.Text) = offset' - LineStart
          /\ \A q \in 1..Len(r.Text) : r.Text[q] = Ahead[LineStart + q - 1] /\ r.Text[q] # NL
  <2> DEFINE r == [Sequence |-> sequence, Text |-> line, Inode |-> inode, Offset |-> offset + n]
  <2>1. Len(cut) \in Nat
    BY LenProperties DEF FollowerInv, FollowerTypeOK
  <2>2. r \in lineRecord
    BY <1>2, <1>5, <1>8, <1>10, <2>1 DEF lineRecord, sequence
  <2>3. r.Inode = inode /\ r.Offset = offset' /\ r.Text = line /\ cut' = Append(cut, r)
    BY <1>5
  <2> HIDE DEF r
  <2> QED BY <1>15, <1>16, <2>2, <2>3
<1>18. \A c \in (offset' + 1)..Horizon : Ahead'[c] = Ahead[c]
  BY <1>10, <1>14
<1> QED BY <1>1, <1>5, <1>10, <1>13, <1>17, <1>18

(* What a run that starts where the reader is would find in the file is       *)
(* before the reader, too.                                                    *)
LEMMA PlaceBehindReader ==
    ASSUME FollowerInv', inode' # NoFile, NEW t, BeforeReader(t)'
    PROVE  BeforePlace(t, inode, offset)'
<1> DEFINE f == files'[inode']
           o == offset'
           b == buffered'
           A == Ahead'
           last == Fetched'
           hor == Horizon'
           ls == LineStart'
<1>1. /\ f \in Seq(Units) /\ Len(f) \in Nat /\ o \in Nat /\ Len(b) \in Nat /\ Len(pendingText') \in Nat
  <2>1. inode' \in Inodes
    BY FollowerAssumption DEF FollowerInv, FollowerTypeOK, NoFile, Inodes
  <2>2. /\ f \in Seq(Units) /\ o \in Nat /\ b \in Seq(Units) /\ pendingText' \in Seq(Units)
    BY <2>1 DEF FollowerInv, FollowerTypeOK
  <2> QED BY <2>2, LenProperties
<1>2. /\ last = o + Len(b) /\ hor = (IF last <= Len(f) THEN Len(f) ELSE last)
      /\ ls = o - Len(pendingText') + 1
  BY DEF Fetched, Horizon, LineStart
<1>3. ASSUME NEW c \in ls..hor, ~(c <= o)
      PROVE  A[c] = IF c <= last THEN b[c - o] ELSE f[c]
  BY <1>3 DEF Ahead
<1>4. /\ Under(t, 1, Len(t), A, ls, hor) /\ LaterFiles(t, inode)'
      /\ BufferInFile' \/ BeforeFile(t, inode)'
  BY DEF BeforeReader
<1>5. CASE BeforeFile(t, inode)'
  <2>1. Under(t, 1, Len(t), f, 1, Len(f))
    BY <1>5 DEF BeforeFile
  <2> HIDE DEF f, o
  <2>2. Under(t, 1, Len(t), f, o + 1, Len(f))
    BY <1>1, <2>1 DEF Under
  <2> QED BY <1>4, <1>5, <2>2 DEF BeforePlace, f, o
<1>6. CASE BufferInFile'
  <2>1. last <= Len(f) /\ \A i \in 1..Len(b) : b[i] = f[o + i]
    BY <1>2, <1>6 DEF BufferInFile
  <2>2. ~(o > Len(f))
    <3> HIDE DEF o, f, b, last
    <3> QED BY <1>1, <1>2, <2>1
  <2>3. Under(t, 1, Len(t), f, o + 1, Len(f))
    <3> HIDE DEF o, f, b, last, hor, ls, A
    <3> SUFFICES ASSUME NEW d \in (o + 1)..Len(f), f[d] # NL, NEW q \in 1..Len(t)
                 PROVE  t[q] < f[d]
      BY DEF Under
    <3>1. d \in ls..hor /\ ~(d <= o)
      BY <1>1, <1>2, <2>1
    <3>2. A[d] = f[d]
      <4>1. CASE d <= last
        <5>1. d - o \in 1..Len(b) /\ o + (d - o) = d
          BY <1>1, <1>2, <3>1, <4>1
        <5> QED BY <1>3, <2>1, <3>1, <4>1, <5>1
      <4> QED BY <1>3, <3>1, <4>1
    <3> QED BY <1>4, <3>1, <3>2 DEF Under
  <2> QED BY <1>4, <2>2, <2>3 DEF BeforePlace, f, o
<1> QED BY <1>4, <1>5, <1>6

(* A record that is cut holds a finished line, later than those cut before    *)
(* and earlier than all that the reader can still come to.                    *)
LEMMA ReadLineOrder ==
    ASSUME FollowerInv, FollowerInv', LogOrder, ReaderOrder, ReadLine
    PROVE  /\ ReaderOrder'
           /\ \E r \in lineRecord :
                /\ cut' = Append(cut, r) /\ r.Inode = inode /\ r.Offset = offset'
                /\ Settled(r.Text) /\ BeforeReader(r.Text)' /\ BeforePlace(r.Text, inode, offset)'
                /\ \A t : BeforeReader(t) =>
                     /\ BeforeReader(t)' /\ BeforePlace(t, inode, offset)'
                     /\ Under(t, 1, Len(t), r.Text, 1, Len(r.Text))
<1>0. inode # NoFile
  BY FollowerAssumption DEF ReadLine, FollowerInv, FollowerTypeOK, NoFile, Inodes
<1>1. /\ inode <= lastInode /\ Len(pendingText) <= offset
      /\ \A c \in 1..Len(pendingText) : pendingText[c] # NL
      /\ Lines(Ahead, LineStart, Horizon, written, Completed)
      /\ inode < wfd => AtMost(Ahead, LineStart, Horizon, Completed)
      /\ \A j \in Inodes :
           j > inode => Under(Ahead, LineStart, Horizon, files[j], 1, Len(files[j]))
      /\ BufferInFile \/ Stale
  BY <1>0 DEF ReaderOrder
<1> DEFINE o == offset'
           A == Ahead
           B == Ahead'
           ls == LineStart
           hor == Horizon
           m == Completed
           f == files[inode]
<1>2. /\ inode' = inode /\ UNCHANGED files
      /\ o \in Nat /\ offset < o /\ o <= hor /\ A[o] = NL
      /\ Len(pendingText') = 0 /\ LineStart' = o + 1 /\ Horizon' = hor
      /\ \A c \in (o + 1)..hor : B[c] = A[c]
      /\ \/ o <= Fetched /\ Fetched' = Fetched /\ (BufferInFile => BufferInFile')
         \/ o > Fetched /\ BufferInFile'
  BY <1>1, ReadLineAhead
<1>3. PICK r \in lineRecord :
                /\ cut' = Append(cut, r) /\ r.Inode = inode /\ r.Offset = o
                /\ Len(r.Text) = o - ls
                /\ \A q \in 1..Len(r.Text) : /\ r.Text[q] = A[ls + q - 1]
                                             /\ r.Text[q] # NL
  BY <1>1, ReadLineAhead
<1> DEFINE T == r.Text
<1>4. /\ fpc' = "send" /\ UNCHANGED <<path, lastInode, wfd, todo, written>>
      /\ m' = m
  BY DEF ReadLine, logVars, Completed
<1>5. /\ inode \in Inodes /\ ls \in Int /\ hor \in Nat /\ ls <= offset + 1 /\ offset \in Nat
      /\ Len(f) \in Nat /\ Fetched \in Nat /\ Fetched <= hor
      /\ m \in Nat /\ written \in Nat /\ \A j \in Inodes : Len(files[j]) \in Nat
  <2>1. \A j \in Inodes : Len(files[j]) \in Nat
    BY LenProperties DEF FollowerInv, FollowerTypeOK
  <2> QED BY <1>0, <2>1, ReaderTypes, CompletedType DEF LogOrder
<1>6. ls <= o /\ ls < o + 1 /\ hor <= hor /\ o + 1 \in Int /\ hor \in Int
  <2> HIDE DEF o, ls, hor
  <2> QED BY <1>2, <1>5
<1>7. ASSUME NEW q \in 1..Len(T)
      PROVE  /\ ls + q - 1 \in ls..hor /\ ls + q - 1 < o /\ T[q] = A[ls + q - 1] /\ T[q] # NL
             /\ (o <= Fetched => ls + q - 1 \in ls..Fetched)
  <2> HIDE DEF o, ls, hor, T, A
  <2>1. Len(T) = o - ls
    BY <1>3 DEF T
  <2>2. ls + q - 1 \in ls..hor /\ ls + q - 1 < o /\ (o <= Fetched => ls + q - 1 \in ls..Fetched)
    BY <1>2, <1>5, <1>6, <2>1
  <2>3. T[q] = A[ls + q - 1] /\ T[q] # NL
    BY <1>3 DEF T
  <2> QED BY <2>2, <2>3
<1>8. /\ \A c \in ls..hor : A[c] \in 0..written
      /\ \A c \in ls..hor : c < o => A[c] <= m
      /\ \A c, d \in ls..hor : c < o /\ o < d /\ A[d] # NL => A[c] < A[d]
  <2>1. o \in ls..hor
    <3> HIDE DEF o, ls, hor
    <3> QED BY <1>2, <1>5, <1>6
  <2> QED BY <1>1, <1>2, <2>1 DEF Lines
<1> HIDE DEF o, A, B, ls, hor, m, T
<1>9. \A c \in (o + 1)..hor : c \in ls..hor /\ B[c] = A[c] /\ o < c
  BY <1>2, <1>5, <1>6
<1>10. Settled(T)
  <2>1. ASSUME NEW q \in 1..Len(T) PROVE T[q] \in 1..m
    <3>1. A[ls + q - 1] \in 0..written /\ A[ls + q - 1] <= m
      BY <1>7, <1>8
    <3> QED BY <1>5, <1>7, <3>1 DEF NL
  <2> QED BY <2>1 DEF Settled, m
<1>11. Under(T, 1, Len(T), B, o + 1, hor)
  <2> SUFFICES ASSUME NEW q \in 1..Len(T), NEW d \in (o + 1)..hor, B[d] # NL PROVE T[q] < B[d]
    BY DEF Under
  <2> QED BY <1>7, <1>8, <1>9
<1>12. ASSUME NEW j \in Inodes, j > inode PROVE Under(T, 1, Len(T), files[j], 1, Len(files[j]))
  <2>1. Under(A, ls, hor, files[j], 1, Len(files[j]))
    BY <1>1, <1>12 DEF A, ls, hor
  <2> QED BY <1>7, <2>1 DEF Under
<1>13. BufferInFile' \/ Under(T, 1, Len(T), f, 1, Len(f))
  <2> SUFFICES ASSUME ~BufferInFile', NEW q \in 1..Len(T), NEW p \in 1..Len(f), f[p] # NL
               PROVE  T[q] < f[p]
    BY DEF Under
  <2>1. o <= Fetched /\ Stale
    BY <1>1, <1>2
  <2>2. o \in ls..Fetched /\ A[o] = NL /\ ls + q - 1 \in ls..Fetched /\ ls + q - 1 < o
    BY <1>2, <1>5, <1>6, <1>7, <2>1
  <2>3. A[ls + q - 1] < f[p]
    BY <2>1, <2>2 DEF Stale, A, ls
  <2> QED BY <1>7, <2>3
<1>14. BeforeReader(T)'
  <2>1. Under(T, 1, Len(T), Ahead', LineStart', Horizon')
    BY <1>2, <1>11 DEF B, hor
  <2>2. LaterFiles(T, inode)'
    BY <1>2, <1>12 DEF LaterFiles
  <2>3. BufferInFile' \/ BeforeFile(T, inode)'
    BY <1>2, <1>13 DEF BeforeFile
  <2> QED BY <1>4, <2>1, <2>2, <2>3 DEF BeforeReader
<1>15. ASSUME NEW t, BeforeReader(t)
       PROVE  BeforeReader(t)' /\ Under(t, 1, Len(t), T, 1, Len(T))
  <2>1. /\ Under(t, 1, Len(t), A, ls, hor) /\ LaterFiles(t, inode)
        /\ BufferInFile \/ BeforeFile(t, inode)
    BY <1>0, <1>15 DEF BeforeReader, A, ls, hor
  <2>2. Under(t, 1, Len(t), B, o + 1, hor)
    BY <1>9, <2>1 DEF Under
  <2>3. Under(t, 1, Len(t), Ahead', LineStart', Horizon')
    BY <1>2, <2>2 DEF B, hor
  <2>4. LaterFiles(t, inode)' /\ (BufferInFile' \/ BeforeFile(t, inode)')
    BY <1>2, <2>1 DEF LaterFiles, BeforeFile
  <2>5. Under(t, 1, Len(t), T, 1, Len(T))
    BY <1>7, <2>1 DEF Under
  <2> QED BY <1>4, <2>3, <2>4, <2>5 DEF BeforeReader
<1>16. ReaderOrder'
  <2>1. Lines(B, o + 1, hor, written, m)
    <3>1. /\ Lines(A, ls, hor, written, m) /\ \A c \in (o + 1)..hor : B[c] = A[c]
          /\ ls <= o + 1 /\ hor <= hor /\ written <= written /\ m <= m
          /\ ls \in Int /\ hor \in Int /\ written \in Nat /\ m \in Nat /\ o + 1 \in Int
      BY <1>1, <1>2, <1>5, <1>6 DEF A, ls, hor, m
    <3> QED BY <3>1, LinesPart, Zenon
  <2>2. ASSUME inode < wfd PROVE AtMost(B, o + 1, hor, m)
    <3>1. AtMost(A, ls, hor, m)
      BY <1>1, <2>2 DEF A, ls, hor, m
    <3> QED BY <1>9, <3>1 DEF AtMost
  <2>3. ASSUME NEW j \in Inodes, j > inode
        PROVE  Under(B, o + 1, hor, files[j], 1, Len(files[j]))
    <3>1. Under(A, ls, hor, files[j], 1, Len(files[j]))
      BY <1>1, <2>3 DEF A, ls, hor
    <3> QED BY <1>9, <3>1 DEF Under
  <2>4. BufferInFile' \/ Stale'
    <3> SUFFICES ASSUME ~BufferInFile' PROVE Stale'
      OBVIOUS
    <3>1. Stale /\ Fetched' = Fetched /\ o <= Fetched
      BY <1>1, <1>2
    <3>2. \A c \in (o + 1)..Fetched : c \in ls..Fetched /\ B[c] = A[c]
      BY <1>5, <1>6, <1>9
    <3>3. /\ \A c \in (o + 1)..Fetched, p \in 1..Len(f) : f[p] # NL => B[c] <= f[p]
          /\ \A c, e \in (o + 1)..Fetched, p \in 1..Len(f) :
               c < e /\ B[e] = NL /\ f[p] # NL => B[c] < f[p]
      BY <3>1, <3>2 DEF Stale, A, ls
    <3> QED BY <1>2, <3>1, <3>3 DEF Stale, B
  <2>5. Len(pendingText') <= o /\ \A c \in 1..Len(pendingText') : pendingText'[c] # NL
    BY <1>2
  <2> QED BY <1>1, <1>2, <1>4, <2>1, <2>2, <2>3, <2>4, <2>5 DEF ReaderOrder, B, hor, o, m
<1>17. \A t : BeforeReader(t)' => BeforePlace(t, inode, offset)'
  BY <1>0, <1>2, PlaceBehindReader
<1> QED BY <1>3, <1>10, <1>14, <1>15, <1>16, <1>17 DEF o, T

(* At the end of the file all that is before the reader becomes pending.      *)
LEMMA ReadEOFOrder ==
    ASSUME FollowerInv, FollowerInv', LogOrder, ReaderOrder, ReadEOF
    PROVE  ReaderOrder' /\ \A t : BeforeReader(t) => BeforeReader(t)'
<1> DEFINE f == files[inode]
           a == Available
           L == Len(pendingText)
           pend == pendingText \o Available
           o == offset + Len(Available)
           B == Ahead'
<1>1. /\ inode # NoFile /\ a \in Seq(Units) /\ Len(a) \in Nat
      /\ offset + Len(a) = Horizon
      /\ \A i \in 1..Len(a) : a[i] = Ahead[offset + i] /\ a[i] # NL
  <2>1. ~HasNL(a)
    BY DEF ReadEOF
  <2>2. HasNL(buffered) => a = buffered
    BY AvailableAhead DEF ReadEOF
  <2>3. \A i \in 1..Len(a) : a[i] # NL
    BY <2>1 DEF HasNL
  <2> QED BY <2>1, <2>2, <2>3, AvailableAhead DEF ReadEOF
<1>2. /\ inode \in Inodes /\ Len(f) \in Nat /\ offset \in Nat
      /\ pendingText \in Seq(Units) /\ L \in Nat
      /\ Fetched \in Nat /\ Horizon \in Nat /\ LineStart \in Int /\ Fetched <= Horizon
      /\ LineStart = offset - L + 1
      /\ Horizon = (IF Fetched <= Len(f) THEN Len(f) ELSE Fetched)
  BY <1>1, ReaderTypes DEF LineStart, Horizon
<1>3. /\ inode <= lastInode /\ L <= offset
      /\ \A c \in 1..L : pendingText[c] # NL
      /\ Lines(Ahead, LineStart, Horizon, written, Completed)
      /\ inode < wfd => AtMost(Ahead, LineStart, Horizon, Completed)
      /\ \A j \in Inodes :
           j > inode => Under(Ahead, LineStart, Horizon, files[j], 1, Len(files[j]))
      /\ BufferInFile \/ Stale
  BY <1>1 DEF ReaderOrder
<1>4. /\ offset' = o /\ buffered' = <<>> /\ pendingText' = pend
      /\ inode' = inode /\ files' = files /\ fpc' = "check"
      /\ UNCHANGED <<path, lastInode, wfd, todo, written>> /\ Completed' = Completed
  BY DEF ReadEOF, logVars, Carried, Completed
<1>5. /\ Len(pend) = L + Len(a)
      /\ \A i \in 1..Len(pend) : i <= L => pend[i] = pendingText[i]
      /\ \A i \in 1..Len(pend) : i > L => pend[i] = a[i - L]
  BY <1>1, <1>2, Joined
<1>6. Len(buffered') = 0
  BY <1>4, EmptySeq
<1> HIDE DEF a, pend, L, f
<1>7. o = Horizon /\ o \in Nat
  BY <1>1, <1>2 DEF a
<1>8. Fetched' = Horizon /\ LineStart' = LineStart /\ Horizon' = Horizon
  <2>1. Fetched' = o + 0
    BY <1>4, <1>6 DEF Fetched
  <2>2. LineStart' = o - Len(pend) + 1
    BY <1>4 DEF LineStart
  <2>3. Horizon' = IF Fetched' <= Len(f) THEN Len(f) ELSE Fetched'
    BY <1>4 DEF Horizon, f
  <2> HIDE DEF o
  <2>4. Fetched' = Horizon
    BY <1>7, <2>1
  <2>5. o = offset + Len(a)
    BY DEF o, a
  <2>6. LineStart' = LineStart
    BY <1>1, <1>2, <1>5, <2>2, <2>5
  <2> QED BY <1>2, <2>3, <2>4, <2>6
<1>9. ASSUME NEW c \in LineStart..Horizon PROVE B[c] = Ahead[c] /\ (c > offset => Ahead[c] # NL)
  <2>1. B[c] = pend[c - LineStart + 1]
    <3>1. c \in LineStart'..Horizon' /\ c <= offset'
      BY <1>2, <1>4, <1>7, <1>8
    <3> QED BY <1>4, <1>8, <3>1 DEF Ahead
  <2>2. CASE c <= offset
    <3>1. Ahead[c] = pendingText[c - LineStart + 1]
      BY <2>2 DEF Ahead
    <3>2. /\ LineStart \in Int /\ offset \in Nat /\ L \in Nat /\ Len(a) \in Nat
          /\ LineStart = offset - L + 1 /\ Len(pend) = L + Len(a) /\ c \in Int /\ LineStart <= c
      BY <1>1, <1>2, <1>5
    <3>3. c - LineStart + 1 \in 1..Len(pend) /\ c - LineStart + 1 <= L
      BY <2>2, <3>2
    <3>4. B[c] = Ahead[c]
      BY <1>5, <2>1, <3>1, <3>3
    <3>5. ~(c > offset)
      BY <2>2, <3>2
    <3> QED BY <3>4, <3>5
  <2>3. CASE ~(c <= offset)
    <3>0. o = offset + Len(a)
      BY DEF o, a
    <3>1. /\ c - LineStart + 1 \in 1..Len(pend) /\ c - LineStart + 1 > L
          /\ (c - LineStart + 1) - L = c - offset /\ c - offset \in 1..Len(a)
          /\ offset + (c - offset) = c
      BY <1>1, <1>2, <1>5, <1>7, <2>3, <3>0
    <3>2. pend[c - LineStart + 1] = a[c - offset]
      BY <1>5, <3>1
    <3>3. a[c - offset] = Ahead[c] /\ a[c - offset] # NL
      BY <1>1, <3>1
    <3> QED BY <2>1, <3>2, <3>3
  <2> QED BY <2>2, <2>3
<1>10. Len(pendingText') <= offset' /\ \A c \in 1..Len(pendingText') : pendingText'[c] # NL
  <2>1. Len(pend) <= o
    <3>1. o = offset + Len(a)
      BY DEF o, a
    <3> HIDE DEF o
    <3> QED BY <1>1, <1>2, <1>3, <1>5, <3>1 DEF L
  <2>2. ASSUME NEW c \in 1..Len(pend) PROVE pend[c] # NL
    <3>1. CASE c <= L
      <4>1. c \in 1..L
        BY <1>2, <1>5, <3>1
      <4> QED BY <1>3, <1>5, <3>1, <4>1 DEF L
    <3>2. CASE c > L
      <4>1. c - L \in 1..Len(a)
        BY <1>1, <1>2, <1>5, <3>2
      <4> QED BY <1>1, <1>5, <3>2, <4>1
    <3> QED BY <1>2, <3>1, <3>2
  <2> QED BY <1>4, <2>1, <2>2
<1>11. BufferInFile' \/ (~BufferInFile /\ Fetched = Horizon)
  <2>1. CASE Horizon = Len(f)
    <3>1. offset' + Len(buffered') <= Len(files'[inode'])
      BY <1>2, <1>4, <1>6, <1>7, <2>1 DEF f
    <3>2. \A i \in 1..Len(buffered') : FALSE
      BY <1>6
    <3> QED BY <3>1, <3>2 DEF BufferInFile
  <2>2. CASE Horizon # Len(f)
    <3>1. Fetched > Len(f) /\ Fetched = Horizon
      BY <1>2, <2>2
    <3> QED BY <1>1, <1>2, <3>1 DEF BufferInFile, Fetched, f
  <2> QED BY <2>1, <2>2
<1>12. ReaderOrder'
  <2>1. Lines(B, LineStart, Horizon, written, Completed)
    <3>1. /\ LineStart <= LineStart /\ Horizon <= Horizon /\ written <= written
          /\ Completed <= Completed /\ written \in Nat /\ Completed \in Nat
          /\ LineStart \in Int /\ Horizon \in Int
      BY <1>2, CompletedType DEF LogOrder
    <3> HIDE DEF B
    <3>2. \A c \in LineStart..Horizon : B[c] = Ahead[c]
      BY <1>9
    <3>3. Lines(Ahead, LineStart, Horizon, written, Completed)
      BY <1>3
    <3> QED BY <3>1, <3>2, <3>3, LinesPart, Zenon
  <2> HIDE DEF B
  <2>2. ASSUME inode < wfd PROVE AtMost(B, LineStart, Horizon, Completed)
    BY <1>3, <1>9, <2>2 DEF AtMost
  <2>3. ASSUME NEW j \in Inodes, j > inode
        PROVE  Under(B, LineStart, Horizon, files[j], 1, Len(files[j]))
    <3>1. Under(Ahead, LineStart, Horizon, files[j], 1, Len(files[j]))
      BY <1>3, <2>3
    <3> QED BY <1>9, <3>1 DEF Under
  <2>4. BufferInFile' \/ Stale'
    <3> SUFFICES ASSUME ~BufferInFile' PROVE Stale'
      OBVIOUS
    <3>1. Stale /\ Fetched' = Fetched /\ Fetched = Horizon
      BY <1>3, <1>8, <1>11
    <3>2. /\ \A c \in LineStart..Fetched, p \in 1..Len(f) : f[p] # NL => B[c] <= f[p]
          /\ \A c, e \in LineStart..Fetched, p \in 1..Len(f) :
               c < e /\ B[e] = NL /\ f[p] # NL => B[c] < f[p]
      BY <1>9, <3>1 DEF Stale, f
    <3> QED BY <1>4, <1>8, <3>1, <3>2 DEF Stale, B, f
  <2> QED BY <1>3, <1>4, <1>8, <1>10, <2>1, <2>2, <2>3, <2>4 DEF ReaderOrder, B
<1>13. ASSUME NEW t, BeforeReader(t) PROVE BeforeReader(t)'
  <2>1. /\ Under(t, 1, Len(t), Ahead, LineStart, Horizon) /\ LaterFiles(t, inode)
        /\ BufferInFile \/ BeforeFile(t, inode)
    BY <1>1, <1>13 DEF BeforeReader
  <2>2. Under(t, 1, Len(t), Ahead', LineStart', Horizon')
    BY <1>8, <1>9, <2>1 DEF Under
  <2>3. LaterFiles(t, inode)' /\ (BufferInFile' \/ BeforeFile(t, inode)')
    BY <1>4, <1>11, <2>1 DEF LaterFiles, BeforeFile
  <2> QED BY <1>4, <2>2, <2>3 DEF BeforeReader
<1> QED BY <1>12, <1>13

(* A step that neither reads nor moves the files.                             *)
LEMMA SameReader ==
    ASSUME UNCHANGED <<logVars, inode, offset, buffered, pendingText>>
    PROVE  /\ LogOrder' = LogOrder /\ ReaderOrder' = ReaderOrder
           /\ Completed' = Completed
           /\ \A t : Settled(t)' = Settled(t)
           /\ \A t, i, o : BeforePlace(t, i, o)' = BeforePlace(t, i, o)
           /\ \A t : BeforeReader(t) /\ (fpc' = "reopen" /\ path = inode => BeforeFile(t, inode))
                       => BeforeReader(t)'
<1>1. /\ UNCHANGED <<files, path, lastInode, wfd, todo, written>>
      /\ UNCHANGED <<inode, offset, buffered, pendingText>>
  BY DEF logVars
<1>2. Completed' = Completed /\ TodoShape' = TodoShape
  BY <1>1 DEF Completed, TodoShape
<1>3. LogOrder' = LogOrder
  BY <1>1, <1>2 DEF LogOrder
<1>4. Fetched' = Fetched /\ LineStart' = LineStart /\ Horizon' = Horizon
  BY <1>1 DEF Fetched, LineStart, Horizon
<1>5. Ahead' = Ahead
  BY <1>1, <1>4 DEF Ahead
<1>6. BufferInFile' = BufferInFile /\ Stale' = Stale
  BY <1>1, <1>4, <1>5 DEF BufferInFile, Stale
<1>7. ReaderOrder' = ReaderOrder
  BY <1>1, <1>2, <1>4, <1>5, <1>6 DEF ReaderOrder
<1>8. ASSUME NEW t, BeforeReader(t), fpc' = "reopen" /\ path = inode => BeforeFile(t, inode)
      PROVE  BeforeReader(t)'
  BY <1>1, <1>4, <1>5, <1>6, <1>8 DEF BeforeReader, LaterFiles, BeforeFile
<1>9. \A t, i, o : BeforePlace(t, i, o)' = BeforePlace(t, i, o)
  BY <1>1 DEF BeforePlace, LaterFiles, BeforeFile
<1>10. \A t : Settled(t)' = Settled(t)
  BY <1>2 DEF Settled
<1> QED BY <1>2, <1>3, <1>7, <1>8, <1>9, <1>10

(* A file that is opened holds its lines in order, from any place on.         *)
LEMMA OpenedOrder ==
    ASSUME FollowerInv, FollowerInv', LogOrder, path # NoFile, UNCHANGED logVars,
           NEW ck \in Checkpoint, openMailLog(ck)
    PROVE  /\ ReaderOrder'
           /\ \A t : (ck.inode # 0 /\ ck.inode <= lastInode /\ BeforePlace(t, ck.inode, ck.offset))
                       => BeforeReader(t)'
           /\ \A t : (ck.inode = 0 /\ LaterFiles(t, path) /\ BeforeFile(t, path))
                       => BeforeReader(t)'
<1> DEFINE f == files[path]
           s == IF Resumable(ck) THEN ck.offset ELSE 0
           B == Ahead'
<1>1. /\ path \in Inodes /\ path = lastInode /\ f \in Seq(Units) /\ Len(f) \in Nat
      /\ written \in Nat /\ Completed \in Nat
  <2>1. path \in Inodes /\ path = lastInode
    BY FollowerAssumption DEF LogOrder, NoFile, Inodes, FollowerInv, FollowerTypeOK
  <2> QED BY <2>1, LenProperties, CompletedType DEF LogOrder, FollowerInv, FollowerTypeOK
<1>2. s \in Nat /\ s <= Len(f)
  BY <1>1 DEF Resumable, Checkpoint
<1>3. /\ inode' = path /\ offset' = s /\ Len(buffered') = 0 /\ Len(pendingText') = 0
      /\ fpc' = "read"
  BY EmptySeq DEF openMailLog, FreshLocals
<1>4. /\ UNCHANGED <<files, path, lastInode, wfd, written, Completed>>
      /\ inode' # NoFile /\ files'[inode'] = f
  BY <1>3 DEF logVars, Completed
<1> HIDE DEF f, s
<1>5. Fetched' = s /\ LineStart' = s + 1 /\ Horizon' = Len(f)
  <2>1. Fetched' = s
    BY <1>2, <1>3 DEF Fetched
  <2>2. LineStart' = s + 1
    BY <1>2, <1>3 DEF LineStart
  <2>3. Horizon' = IF Fetched' <= Len(f) THEN Len(f) ELSE Fetched'
    BY <1>4 DEF Horizon
  <2> QED BY <1>1, <1>2, <2>1, <2>2, <2>3
<1>6. ASSUME NEW c \in (s + 1)..Len(f) PROVE B[c] = f[c] /\ c \in 1..Len(f)
  <2>1. c \in LineStart'..Horizon' /\ ~(c <= offset') /\ ~(c <= Fetched')
    BY <1>1, <1>2, <1>3, <1>5
  <2>2. B[c] = f[c]
    BY <1>4, <2>1 DEF Ahead
  <2> QED BY <1>1, <1>2, <2>2
<1>7. BufferInFile'
  <2>1. offset' + Len(buffered') <= Len(files'[inode'])
    BY <1>1, <1>2, <1>3, <1>4
  <2>2. \A i \in 1..Len(buffered') : FALSE
    BY <1>3
  <2> QED BY <2>1, <2>2 DEF BufferInFile
<1>8. ReaderOrder'
  <2>1. Lines(B, s + 1, Len(f), written, Completed)
    <3> HIDE DEF B
    <3>1. /\ 1 <= s + 1 /\ Len(f) <= Len(f) /\ written <= written /\ Completed <= Completed
          /\ 1 \in Int /\ s + 1 \in Int /\ Len(f) \in Int
          /\ \A c \in (s + 1)..Len(f) : B[c] = f[c]
      BY <1>1, <1>2, <1>6
    <3>2. Lines(f, 1, Len(f), written, Completed)
      BY <1>1 DEF LogOrder, f
    <3> QED BY <1>1, <3>1, <3>2, LinesPart, Zenon
  <2> HIDE DEF B
  <2>2. ASSUME path < wfd PROVE AtMost(B, s + 1, Len(f), Completed)
    <3>1. AtMost(f, 1, Len(f), Completed)
      BY <1>1, <2>2 DEF LogOrder, f
    <3> QED BY <1>6, <3>1 DEF AtMost
  <2>3. ASSUME NEW j \in Inodes, j > path
        PROVE  Under(B, s + 1, Len(f), files[j], 1, Len(files[j]))
    <3>1. path < j
      BY <1>1, <2>3, FollowerAssumption DEF Inodes
    <3>2. Under(f, 1, Len(f), files[j], 1, Len(files[j]))
      BY <1>1, <3>1 DEF LogOrder, f
    <3> QED BY <1>6, <3>2 DEF Under
  <2>4. inode' <= lastInode'
    BY <1>1, <1>3, <1>4, FollowerAssumption DEF Inodes
  <2>5. Len(pendingText') <= offset' /\ \A c \in 1..Len(pendingText') : pendingText'[c] # NL
    BY <1>2, <1>3
  <2> QED BY <1>3, <1>4, <1>5, <1>7, <2>1, <2>2, <2>3, <2>4, <2>5 DEF ReaderOrder, B
<1>9. ASSUME NEW t, LaterFiles(t, path), Under(t, 1, Len(t), f, s + 1, Len(f))
      PROVE  BeforeReader(t)'
  <2>1. Under(t, 1, Len(t), Ahead', LineStart', Horizon')
    BY <1>5, <1>6, <1>9 DEF Under
  <2>2. LaterFiles(t, inode)'
    BY <1>3, <1>4, <1>9 DEF LaterFiles
  <2> QED BY <1>3, <1>7, <2>1, <2>2 DEF BeforeReader
<1>10. ASSUME NEW t, BeforeFile(t, path) PROVE Under(t, 1, Len(t), f, s + 1, Len(f))
  BY <1>6, <1>10 DEF BeforeFile, Under, f
<1>11. ASSUME NEW t, ck.inode # 0, ck.inode <= lastInode, BeforePlace(t, ck.inode, ck.offset)
       PROVE  BeforeReader(t)'
  <2>1. ck.inode \in Nat /\ path \in Nat /\ ck.offset \in Nat
    BY <1>1, FollowerAssumption DEF Checkpoint, Inodes
  <2>2. CASE ck.inode = path
    <3>1. LaterFiles(t, path) /\ (ck.offset > Len(f) => BeforeFile(t, path))
      BY <1>11, <2>2 DEF BeforePlace, f
    <3>2. CASE ck.offset <= Len(f)
      <4>1. s = ck.offset
        BY <1>11, <2>2, <3>2 DEF s, Resumable, f
      <4>2. Under(t, 1, Len(t), f, s + 1, Len(f))
        BY <1>11, <2>2, <4>1 DEF BeforePlace, f
      <4> QED BY <1>9, <3>1, <4>2
    <3>3. CASE ck.offset > Len(f)
      BY <1>9, <1>10, <3>1, <3>3
    <3> QED BY <1>1, <2>1, <3>2, <3>3
  <2>3. CASE ck.inode # path
    <3>1. path > ck.inode
      BY <1>1, <1>11, <2>1, <2>3
    <3>2. LaterFiles(t, ck.inode)
      BY <1>11 DEF BeforePlace
    <3>3. BeforeFile(t, path)
      BY <1>1, <3>1, <3>2 DEF LaterFiles, BeforeFile
    <3>4. LaterFiles(t, path)
      <4>1. \A j \in Inodes : j > path => j > ck.inode
        BY <2>1, <3>1, FollowerAssumption DEF Inodes
      <4> QED BY <3>2, <4>1 DEF LaterFiles
    <3> QED BY <1>9, <1>10, <3>3, <3>4
  <2> QED BY <2>2, <2>3
<1>12. ASSUME NEW t, LaterFiles(t, path), BeforeFile(t, path) PROVE BeforeReader(t)'
  BY <1>9, <1>10, <1>12
<1> QED BY <1>8, <1>11, <1>12

(* The other steps of a running follower keep the order.                      *)
LEMMA FollowOrder ==
    ASSUME FollowerInv, FollowerInv', LogOrder, ReaderOrder,
           SendRecord \/ CheckRotation \/ Reopen \/ Poll \/ FollowError
    PROVE  /\ UNCHANGED logVars /\ ReaderOrder'
           /\ \A t : BeforeReader(t) => BeforeReader(t)'
<1>1. CASE SendRecord \/ Poll \/ FollowError \/ (Reopen /\ OpenFails)
  <2>1. fpc' # "reopen" /\ UNCHANGED <<logVars, inode, offset, buffered, pendingText>>
    BY <1>1 DEF SendRecord, Poll, FollowError, Reopen, Fail
  <2> QED BY <2>1, SameReader
<1>2. CASE CheckRotation
  <2>1. /\ fpc = "check" /\ UNCHANGED <<logVars, inode, offset, buffered, pendingText>>
        /\ fpc' = "reopen" => Truncated \/ Rotated
    BY <1>2 DEF CheckRotation
  <2>2. inode # NoFile /\ inode \in Inodes
    BY <2>1, FollowerAssumption DEF FollowerInv, FollowerTypeOK, NoFile, Inodes
  <2>3. ASSUME NEW t, BeforeReader(t), fpc' = "reopen", path = inode PROVE BeforeFile(t, inode)
    <3>1. Len(files[inode]) < offset
      BY <2>1, <2>3 DEF Truncated, Rotated
    <3>2. ~BufferInFile
      BY <2>2, <3>1, ReaderTypes DEF BufferInFile
    <3> QED BY <2>2, <2>3, <3>2 DEF BeforeReader
  <2> QED BY <2>1, <2>3, SameReader
<1>3. CASE Reopen /\ ~OpenFails
  <2>1. /\ fpc = "reopen" /\ path # NoFile /\ openMailLog(NoCheckpoint) /\ UNCHANGED logVars
    BY <1>3 DEF Reopen, OpenFails
  <2>2. inode # NoFile /\ inode \in Inodes
    BY <2>1, FollowerAssumption DEF FollowerInv, FollowerTypeOK, NoFile, Inodes
  <2>3. NoCheckpoint \in Checkpoint /\ NoCheckpoint.inode = 0
    BY FollowerAssumption DEF NoCheckpoint, Checkpoint
  <2>4. inode <= path /\ path \in Inodes /\ inode \in Nat /\ path \in Nat
    BY <2>1, <2>2, FollowerAssumption DEF ReaderOrder, LogOrder, FollowerInv, FollowerTypeOK, Inodes
  <2>5. ASSUME NEW t, BeforeReader(t) PROVE LaterFiles(t, path) /\ BeforeFile(t, path)
    <3>1. LaterFiles(t, inode) /\ (path = inode => BeforeFile(t, inode))
      BY <2>1, <2>2, <2>5 DEF BeforeReader
    <3>2. \A j \in Inodes : j > path => j > inode
      BY <2>4, FollowerAssumption DEF Inodes
    <3>3. LaterFiles(t, path)
      BY <3>1, <3>2 DEF LaterFiles
    <3>4. path # inode => BeforeFile(t, path)
      BY <2>4, <3>1 DEF LaterFiles, BeforeFile
    <3> QED BY <3>1, <3>3, <3>4
  <2> QED BY <2>1, <2>3, <2>5, OpenedOrder
<1> QED BY <1>1, <1>2, <1>3

----------------------------------------------------------------------------
(* The records cut so far, of this run and of those before it: each holds     *)
(* later lines than those before it, and nothing that is still to be read, or *)
(* found by a run that resumes behind one of them, is of their lines.         *)
CutOrder(s) ==
    \A k \in 1..Len(s) :
        /\ s[k].Inode <= lastInode /\ Settled(s[k].Text) /\ BeforeReader(s[k].Text)
        /\ \A i \in 1..k : BeforePlace(s[i].Text, s[k].Inode, s[k].Offset)
        /\ \A i \in 1..(k - 1) :
             Under(s[i].Text, 1, Len(s[i].Text), s[k].Text, 1, Len(s[k].Text))

LEMMA RecordTypes ==
    ASSUME NEW s \in Seq(lineRecord)
    PROVE  /\ Len(s) \in Nat
           /\ \A k \in 1..Len(s) : /\ s[k] \in lineRecord /\ s[k].Text \in Seq(Units)
                                   /\ Len(s[k].Text) \in Nat /\ s[k].Inode \in Inodes
                                   /\ s[k].Offset \in Nat
<1>1. Len(s) \in Nat /\ \A k \in 1..Len(s) : s[k] \in lineRecord
  BY LenProperties, ElementOfSeq
<1>2. \A r \in lineRecord : /\ r.Text \in Seq(Units) /\ Len(r.Text) \in Nat
                            /\ r.Inode \in Inodes /\ r.Offset \in Nat
  BY LenProperties DEF lineRecord
<1> QED BY <1>1, <1>2

LEMMA EnvironmentCut ==
    ASSUME FollowerInv, FollowerInv', LogOrder, ReaderOrder, Environment,
           NEW s \in Seq(lineRecord), CutOrder(s)
    PROVE  CutOrder(s)'
<1> SUFFICES ASSUME NEW k \in 1..Len(s)
             PROVE  /\ s[k].Inode <= lastInode' /\ Settled(s[k].Text)' /\ BeforeReader(s[k].Text)'
                    /\ \A i \in 1..k : BeforePlace(s[i].Text, s[k].Inode, s[k].Offset)'
                    /\ \A i \in 1..(k - 1) :
                         Under(s[i].Text, 1, Len(s[i].Text), s[k].Text, 1, Len(s[k].Text))
  BY DEF CutOrder
<1>1. /\ s[k].Inode <= lastInode /\ Settled(s[k].Text) /\ BeforeReader(s[k].Text)
      /\ \A i \in 1..k : BeforePlace(s[i].Text, s[k].Inode, s[k].Offset)
      /\ \A i \in 1..(k - 1) :
           Under(s[i].Text, 1, Len(s[i].Text), s[k].Text, 1, Len(s[k].Text))
  BY DEF CutOrder
<1>2. /\ Len(s) \in Nat /\ Len(s[k].Text) \in Nat /\ s[k].Inode \in Inodes /\ s[k].Offset \in Nat
  BY RecordTypes
<1>3. Settled(s[k].Text)' /\ BeforeReader(s[k].Text)'
  <2> DEFINE t == s[k].Text
  <2>1. Len(t) \in Nat /\ Settled(t) /\ BeforeReader(t)
    BY <1>1, <1>2
  <2> HIDE DEF t
  <2>2. Settled(t)' /\ BeforeReader(t)'
    BY <2>1, SettledKept, ReaderTextKept
  <2> QED BY <2>2 DEF t
<1>4. ASSUME NEW i \in 1..k PROVE BeforePlace(s[i].Text, s[k].Inode, s[k].Offset)'
  <2> DEFINE t == s[i].Text
             d == s[k].Inode
             o == s[k].Offset
  <2>1. i \in 1..Len(s)
    BY <1>2
  <2>2. /\ Len(t) \in Nat /\ Settled(t) /\ d \in Inodes /\ o \in Nat /\ BeforePlace(t, d, o)
    BY <1>1, <1>2, <2>1, RecordTypes DEF CutOrder
  <2> HIDE DEF t, d, o
  <2>3. BeforePlace(t, d, o)'
    BY <2>2, PlaceKept
  <2> QED BY <2>3 DEF t, d, o
<1>5. s[k].Inode <= lastInode'
  <2>1. lastInode' = lastInode \/ lastInode' = lastInode + 1
    BY DEF Environment, Write, Rename, Create, WriterReopen, Truncate
  <2>2. Inodes \subseteq Nat /\ lastInode \in Inodes
    BY FollowerAssumption DEF Inodes, FollowerInv, FollowerTypeOK
  <2>3. s[k].Inode \in Nat /\ lastInode \in Nat
    BY <1>2, <2>2
  <2> QED BY <1>1, <2>1, <2>3
<1> QED BY <1>1, <1>3, <1>4, <1>5

(* Steps of the follower that cut no record.                                  *)
LEMMA QuietCut ==
    ASSUME UNCHANGED logVars, \A t : BeforeReader(t) => BeforeReader(t)', NEW s, CutOrder(s)
    PROVE  CutOrder(s)'
<1>1. /\ UNCHANGED <<files, lastInode>>
      /\ \A t : Settled(t) => Settled(t)'
      /\ \A t, i, o : BeforePlace(t, i, o) => BeforePlace(t, i, o)'
  BY DEF logVars, Settled, Completed, BeforePlace, LaterFiles, BeforeFile
<1> QED BY <1>1 DEF CutOrder

LEMMA ReadLineCut ==
    ASSUME FollowerInv, FollowerInv', LogOrder, ReaderOrder, ReadLine,
           NEW s \in Seq(lineRecord), CutOrder(s)
    PROVE  \E r \in lineRecord : cut' = Append(cut, r) /\ CutOrder(Append(s, r))'
<1>1. PICK r \in lineRecord :
         /\ cut' = Append(cut, r) /\ r.Inode = inode /\ r.Offset = offset'
         /\ Settled(r.Text) /\ BeforeReader(r.Text)' /\ BeforePlace(r.Text, inode, offset)'
         /\ \A t : BeforeReader(t) =>
              /\ BeforeReader(t)' /\ BeforePlace(t, inode, offset)'
              /\ Under(t, 1, Len(t), r.Text, 1, Len(r.Text))
  BY ReadLineOrder
<1> DEFINE u == Append(s, r)
<1>2. /\ Len(s) \in Nat /\ Len(u) = Len(s) + 1 /\ u[Len(s) + 1] = r
      /\ \A k \in 1..Len(s) : u[k] = s[k]
  BY LenProperties, AppendProperties
<1> HIDE DEF u
<1>3. /\ UNCHANGED <<files, lastInode, inode>> /\ inode <= lastInode
      /\ \A t : Settled(t) => Settled(t)'
      /\ \A t, i, o : BeforePlace(t, i, o) => BeforePlace(t, i, o)'
  <2>1. UNCHANGED <<logVars, inode>>
    BY DEF ReadLine
  <2>2. inode # NoFile
    BY FollowerAssumption DEF ReadLine, FollowerInv, FollowerTypeOK, NoFile, Inodes
  <2> QED BY <2>1, <2>2
          DEF logVars, Settled, Completed, BeforePlace, LaterFiles, BeforeFile, ReaderOrder
<1>4. \A k \in 1..Len(s) :
        /\ s[k].Inode <= lastInode /\ Settled(s[k].Text) /\ BeforeReader(s[k].Text)
        /\ \A i \in 1..k : BeforePlace(s[i].Text, s[k].Inode, s[k].Offset)
        /\ \A i \in 1..(k - 1) :
             Under(s[i].Text, 1, Len(s[i].Text), s[k].Text, 1, Len(s[k].Text))
  BY DEF CutOrder
<1>5. ASSUME NEW k \in 1..Len(u)
      PROVE  /\ u[k].Inode <= lastInode' /\ Settled(u[k].Text)' /\ BeforeReader(u[k].Text)'
             /\ \A i \in 1..k : BeforePlace(u[i].Text, u[k].Inode, u[k].Offset)'
             /\ \A i \in 1..(k - 1) :
                  Under(u[i].Text, 1, Len(u[i].Text), u[k].Text, 1, Len(u[k].Text))
  <2>1. CASE k \in 1..Len(s)
    <3>1. u[k] = s[k] /\ \A i \in 1..k : i \in 1..Len(s) /\ u[i] = s[i]
      BY <1>2, <2>1
    <3>2. \A i \in 1..(k - 1) : i \in 1..k
      BY <1>2, <2>1
    <3>3. u[k].Inode <= lastInode' /\ Settled(u[k].Text)' /\ BeforeReader(u[k].Text)'
      BY <1>1, <1>3, <1>4, <2>1, <3>1
    <3>4. \A i \in 1..k : BeforePlace(u[i].Text, u[k].Inode, u[k].Offset)'
      BY <1>3, <1>4, <2>1, <3>1
    <3> QED BY <1>4, <2>1, <3>1, <3>2, <3>3, <3>4
  <2>2. CASE k = Len(s) + 1
    <3>1. u[k] = r
      BY <1>2, <2>2
    <3>2. u[k].Inode <= lastInode' /\ Settled(u[k].Text)' /\ BeforeReader(u[k].Text)'
      BY <1>1, <1>3, <3>1
    <3>3. ASSUME NEW i \in 1..k PROVE BeforePlace(u[i].Text, u[k].Inode, u[k].Offset)'
      <4>1. i \in 1..Len(s) \/ i = k
        BY <1>2, <2>2
      <4>2. BeforePlace(u[i].Text, inode, offset)'
        BY <1>1, <1>2, <1>4, <3>1, <4>1
      <4> QED BY <1>1, <1>3, <3>1, <4>2 DEF BeforePlace
    <3>4. ASSUME NEW i \in 1..(k - 1)
          PROVE  Under(u[i].Text, 1, Len(u[i].Text), u[k].Text, 1, Len(u[k].Text))
      <4>1. i \in 1..Len(s)
        BY <1>2, <2>2
      <4> QED BY <1>1, <1>2, <1>4, <3>1, <4>1
    <3> QED BY <3>2, <3>3, <3>4
  <2> QED BY <1>2, <2>1, <2>2
<1>6. CutOrder(u)'
  BY <1>5 DEF CutOrder
<1> QED BY <1>1, <1>6 DEF u

(* A run that resumes behind the last record of those before it.              *)
LEMMA OpenedCut ==
    ASSUME FollowerInv, FollowerInv', LogOrder, path # NoFile, UNCHANGED logVars,
           NEW ck \in Checkpoint, openMailLog(ck), NEW s \in Seq(lineRecord), CutOrder(s),
           s # <<>> => ck.inode = s[Len(s)].Inode /\ ck.offset = s[Len(s)].Offset
    PROVE  CutOrder(s)'
<1>1. /\ UNCHANGED <<files, lastInode>>
      /\ \A t : Settled(t) => Settled(t)'
      /\ \A t, i, o : BeforePlace(t, i, o) => BeforePlace(t, i, o)'
  BY DEF logVars, Settled, Completed, BeforePlace, LaterFiles, BeforeFile
<1>2. ASSUME NEW k \in 1..Len(s) PROVE BeforeReader(s[k].Text)'
  <2>1. Len(s) \in Nat /\ s # <<>> /\ Len(s) \in 1..Len(s) /\ k \in 1..Len(s)
    BY RecordTypes, EmptySeq
  <2>2. ck.inode = s[Len(s)].Inode /\ ck.offset = s[Len(s)].Offset
    BY <2>1
  <2>3. ck.inode # 0 /\ ck.inode <= lastInode
    BY <2>1, <2>2, RecordTypes, FollowerAssumption DEF CutOrder, Inodes
  <2>4. BeforePlace(s[k].Text, ck.inode, ck.offset)
    BY <2>1, <2>2 DEF CutOrder
  <2> QED BY <2>3, <2>4, OpenedOrder
<1> QED BY <1>1, <1>2 DEF CutOrder

(* The run ends, and only the first of the records are kept.                  *)
LEMMA StoppedCut ==
    ASSUME UNCHANGED logVars, inode' = NoFile, NEW s \in Seq(lineRecord), CutOrder(s),
           NEW u \in Seq(lineRecord), Len(u) <= Len(s), \A k \in 1..Len(u) : u[k] = s[k]
    PROVE  CutOrder(u)'
<1>1. /\ UNCHANGED <<files, lastInode>>
      /\ \A t : Settled(t) => Settled(t)'
      /\ \A t : BeforeReader(t)'
      /\ \A t, i, o : BeforePlace(t, i, o) => BeforePlace(t, i, o)'
  BY DEF logVars, Settled, Completed, BeforePlace, LaterFiles, BeforeFile, BeforeReader
<1>2. Len(s) \in Nat /\ Len(u) \in Nat
  BY LenProperties
<1>3. ASSUME NEW k \in 1..Len(u)
      PROVE  /\ k \in 1..Len(s) /\ u[k] = s[k]
             /\ \A i \in 1..k : u[i] = s[i]
             /\ \A i \in 1..(k - 1) : u[i] = s[i] /\ i \in 1..k
  BY <1>2
<1> QED BY <1>1, <1>3 DEF CutOrder

----------------------------------------------------------------------------
(* No line left out.                                                         *)

(* A line of the file f begins at s, as far as it is written: its units, its  *)
(* newline, and behind it the next line.                                      *)
StartsLine(f, s) == s = 1 \/ f[s - 1] = NL
LineAt(f, s) ==
    LET l == f[s]
        end == s + Len(Body(l))
    IN /\ l \in 1..MaxLines
       /\ \A c \in s..(end - 1) : c <= Len(f) => f[c] = l
       /\ end <= Len(f) => f[end] = NL
       /\ end + 1 <= Len(f) => f[end + 1] = l + 1
FileInSteps(f) == \A s \in 1..Len(f) : StartsLine(f, s) => LineAt(f, s)

(* The line the daemon's file begins with, or will; and where the last line   *)
(* begins in it.                                                              *)
FirstLine == IF files[wfd] = <<>> THEN written + 1 ELSE files[wfd][1]
LastStart == Len(files[wfd]) + Len(todo) - Len(Body(written))

(* Files that were not truncated hold line after line.                        *)
LogInSteps ==
    /\ \A i \in Inodes : FileInSteps(files[i])
    /\ files[wfd] = <<>> => todo = <<>>
    /\ files[wfd] # <<>> => /\ LastStart \in 1..Len(files[wfd])
                            /\ StartsLine(files[wfd], LastStart)
                            /\ files[wfd][LastStart] = written
    /\ lastInode = 1 => FirstLine = 1

(* The line the reader is in, or comes to next, is line n.                    *)
ReaderAtLine(n) ==
    LET start == offset - Len(pendingText)
        f == files[inode]
    IN /\ start < Len(f) => f[start + 1] = n
       /\ start = Len(f) /\ inode = wfd => todo = <<>> /\ written + 1 = n
       /\ start = Len(f) /\ inode # wfd => FirstLine = n

(* A file the daemon has left is all written, and its last line is the one    *)
(* before the first of the daemon's file.                                     *)
LeftBehind ==
    inode # wfd =>
        LET f == files[inode]
        IN \A s \in 1..Len(f) :
             StartsLine(f, s) /\ s + Len(Body(f[s])) >= Len(f) =>
                 s + Len(Body(f[s])) = Len(f) /\ FirstLine = f[s] + 1

(* Of a reader that an orderly logrotate waits for: the daemon is in its      *)
(* file, or in the one the path names; a drain is over only when the daemon   *)
(* is, and the file is left only when it is read to its end.                  *)
Draining ==
    /\ inode = wfd \/ wfd = path
    /\ rotatedAt > 0 => path # NoFile /\ path # inode
    /\ DrainElapsed => wfd = path
    /\ fpc = "reopen" => DrainElapsed
    /\ fpc \in {"check", "reopen"} /\ DrainElapsed => offset = Len(files[inode])

ReaderInStep(n) == inode # NoFile => ReaderAtLine(n) /\ LeftBehind /\ Draining

LEMMA BodyShape ==
    \A l : /\ Len(Body(l)) \in Nat \ {0}
           /\ \A i \in 1..Len(Body(l)) : Body(l)[i] = l
BY DEF Body

(* A line ends before the next one begins.                                    *)
LEMMA LinesApart ==
    ASSUME NEW f \in Seq(Units), FileInSteps(f), NEW s \in 1..Len(f), NEW t \in Nat,
           StartsLine(f, s), s < t, t <= Len(f) + 1, f[t - 1] = NL
    PROVE  s + Len(Body(f[s])) < t
<1>1. Len(f) \in Nat /\ LineAt(f, s)
  BY LenProperties DEF FileInSteps
<1>2. PICK b \in Nat \ {0} : b = Len(Body(f[s]))
  BY BodyShape
<1>3. f[s] \in 1..MaxLines /\ \A c \in s..(s + b - 1) : c <= Len(f) => f[c] = f[s]
  BY <1>1, <1>2 DEF LineAt
<1> SUFFICES ASSUME s + b >= t PROVE FALSE
  BY <1>1, <1>2
<1>4. t - 1 \in s..(s + b - 1) /\ t - 1 <= Len(f)
  BY <1>1, <1>2
<1>5. f[t - 1] = f[s]
  BY <1>3, <1>4
<1> QED BY <1>3, <1>5 DEF NL

(* A line of the daemon's file that no other follows is the last one begun.   *)
LEMMA LastLine ==
    ASSUME FollowerInv, LogInSteps, NEW s \in 1..Len(files[wfd]),
           StartsLine(files[wfd], s), s + Len(Body(files[wfd][s])) >= Len(files[wfd])
    PROVE  /\ files[wfd][s] = written
           /\ s + Len(Body(files[wfd][s])) = Len(files[wfd]) + Len(todo)
<1>1. PICK f \in Seq(Units) : f = files[wfd]
  BY DEF FollowerInv, FollowerTypeOK
<1>2. /\ FileInSteps(f) /\ Len(f) \in Nat /\ Len(todo) \in Nat /\ s \in 1..Len(f)
  BY <1>1, LenProperties DEF FollowerInv, FollowerTypeOK, LogInSteps
<1>3. PICK b \in Nat \ {0} : b = Len(Body(written))
  BY BodyShape
<1>4. PICK p : p = Len(f) + Len(todo) - b
  OBVIOUS
<1>5. p \in 1..Len(f) /\ StartsLine(f, p) /\ f[p] = written
  <2>1. f # <<>> /\ p = LastStart
    BY <1>1, <1>2, <1>3, <1>4, EmptySeq DEF LastStart
  <2> QED BY <1>1, <2>1 DEF LogInSteps
<1>6. s + Len(Body(f[s])) >= Len(f) /\ StartsLine(f, s) /\ Len(Body(f[s])) \in Nat
  BY <1>1, BodyShape
<1>7. ~(s < p)
  <2> SUFFICES ASSUME s < p PROVE FALSE
    OBVIOUS
  <2>1. f[p - 1] = NL /\ p \in Nat /\ p <= Len(f) + 1
    BY <1>2, <1>5 DEF StartsLine
  <2>2. s + Len(Body(f[s])) < p
    BY <1>2, <1>6, <2>1, LinesApart
  <2> QED BY <1>2, <1>5, <1>6, <2>2
<1>8. ~(p < s)
  <2> SUFFICES ASSUME p < s PROVE FALSE
    OBVIOUS
  <2>1. f[s - 1] = NL /\ s \in Nat /\ s <= Len(f) + 1
    BY <1>2, <1>5, <1>6, SMTT(20) DEF StartsLine
  <2>2. p + Len(Body(f[p])) < s
    BY <1>2, <1>5, <2>1, LinesApart
  <2> QED BY <1>2, <1>3, <1>4, <1>5, <2>2
<1>9. s = p
  BY <1>2, <1>5, <1>7, <1>8
<1>10. f[s] = written
  BY <1>5, <1>9
<1>11. Len(Body(f[s])) = b
  BY <1>3, <1>10
<1>12. s + b = Len(f) + Len(todo)
  BY <1>2, <1>3, <1>4, <1>9
<1> QED BY <1>1, <1>10, <1>11, <1>12

(* The daemon's write, by places: p is where the line it writes begins.       *)
WritesAt(f, g, p, b) ==
    /\ p \in 1..(Len(f) + 1) /\ StartsLine(g, p)
    /\ p <= Len(f) => f[p] = written'
    /\ p = Len(f) + 1 <=> todo = <<>>
    /\ Len(f) < Len(g) /\ Len(g) + Len(todo') = p + b
    /\ \A c \in 1..Len(f) : g[c] = f[c]
    /\ \A c \in (Len(f) + 1)..Len(g) : g[c] = IF c = p + b THEN NL ELSE written'

LEMMA WritePlaces ==
    ASSUME FollowerInv, TodoShape, LogInSteps, Write
    PROVE  /\ written' \in 1..MaxLines /\ written' = IF todo = <<>> THEN written + 1 ELSE written
           /\ \A j \in Inodes : j # wfd => files'[j] = files[j]
           /\ files'[wfd] \in Seq(Units) /\ Len(todo') \in Nat
           /\ \E p \in Nat : WritesAt(files[wfd], files'[wfd], p, Len(Body(written')))
<1> DEFINE rest == IF todo # <<>> THEN todo ELSE Body(written + 1) \o <<NL>>
           f == files[wfd]
<1>1. /\ rest \in Seq(Units) /\ Len(rest) \in Nat \ {0} /\ rest[Len(rest)] = NL
      /\ \A i \in 1..(Len(rest) - 1) : rest[i] = Completed + 1
  BY RestShape DEF Write
<1>2. PICK k \in 1..Len(rest) : /\ files' = [files EXCEPT ![wfd] = @ \o SubSeq(rest, 1, k)]
                                /\ todo' = SubSeq(rest, k + 1, Len(rest))
  BY DEF Write
<1>3. written' = Completed + 1 /\ written' = IF todo = <<>> THEN written + 1 ELSE written
  BY DEF Write, Completed, TodoShape, FollowerInv, FollowerTypeOK
<1>4. /\ Completed \in Nat /\ files \in [Inodes -> Seq(Units)] /\ wfd \in Inodes
      /\ f \in Seq(Units) /\ Len(f) \in Nat /\ todo \in Seq(Units) /\ Len(todo) \in Nat
      /\ written \in Nat /\ MaxLines \in Nat /\ written <= MaxLines
  BY CompletedType, LenProperties, FollowerAssumption DEF FollowerInv, FollowerTypeOK
<1>5. PICK w : w = written'
  OBVIOUS
<1>6. PICK b \in Nat \ {0} : b = Len(Body(w))
  BY BodyShape
<1>7. w \in 1..MaxLines
  <2>1. CASE todo = <<>>
    BY <1>3, <1>4, <1>5, <2>1 DEF Write
  <2>2. CASE todo # <<>>
    BY <1>3, <1>4, <1>5, <2>2 DEF TodoShape
  <2> QED BY <2>1, <2>2
<1>8. PICK p : p = Len(f) + Len(rest) - b
  OBVIOUS
<1>9. /\ p \in 1..(Len(f) + 1) /\ (p <= Len(f) => f[p] = w /\ StartsLine(f, p))
      /\ p = Len(f) + 1 <=> todo = <<>>
  <2>1. CASE todo = <<>>
    <3>1. Len(Body(written + 1) \o <<NL>>) = b + 1
      <4>1. <<NL>> \in Seq(Units) /\ Len(<<NL>>) = 1 /\ Body(w) \in Seq(Units) /\ w = written + 1
        <5>1. NL \in Units
          BY FollowerAssumption DEF NL, Units
        <5> QED BY <1>3, <1>5, <1>7, <2>1, <5>1, BodyType
      <4>2. Len(Body(w) \o <<NL>>) = Len(Body(w)) + Len(<<NL>>)
        BY <4>1, Joined
      <4> QED BY <1>6, <4>1, <4>2
    <3>2. p = Len(f) + 1
      BY <1>4, <1>6, <1>8, <2>1, <3>1, SMTT(30)
    <3> QED BY <1>4, <2>1, <3>2
  <2>2. CASE todo # <<>>
    <3>1. w = written /\ rest = todo
      BY <1>3, <1>5, <2>2
    <3>2. f # <<>> /\ p = LastStart
      BY <1>6, <1>8, <2>2, <3>1 DEF LastStart, LogInSteps, f
    <3>3. p \in 1..Len(f) /\ f[p] = w /\ StartsLine(f, p)
      BY <3>1, <3>2 DEF LogInSteps, f
    <3> QED BY <1>4, <2>2, <3>3
  <2> QED BY <2>1, <2>2
<1> HIDE DEF rest, f
<1> DEFINE new == SubSeq(rest, 1, k)
           left == SubSeq(rest, k + 1, Len(rest))
           g == f \o new
<1>10. new \in Seq(Units) /\ Len(new) = k /\ \A i \in 1..k : new[i] = rest[i]
  <2>1. /\ new \in Seq(Units) /\ Len(new) = k - 1 + 1
        /\ \A i \in 1..(k - 1 + 1) : new[i] = rest[1 - 1 + i]
    BY <1>1, PartProperties
  <2> HIDE DEF new
  <2> QED BY <1>1, <2>1
<1>11. left \in Seq(Units) /\ Len(left) = Len(rest) - k
  <2>1. k + 1 \in Nat \ {0} /\ k + 1 <= Len(rest) + 1
    BY <1>1
  <2>2. left \in Seq(Units) /\ Len(left) = Len(rest) - (k + 1) + 1
    BY <1>1, <2>1, PartProperties
  <2> HIDE DEF left
  <2> QED BY <1>1, <2>2
<1> HIDE DEF new, left
<1>12. /\ g \in Seq(Units) /\ Len(g) = Len(f) + k
       /\ \A i \in 1..Len(g) : i <= Len(f) => g[i] = f[i]
       /\ \A i \in 1..Len(g) : i > Len(f) => g[i] = new[i - Len(f)]
  <2>1. Len(new) = k /\ new \in Seq(Units)
    BY <1>10
  <2> QED BY <1>4, <2>1, Joined, ZenonT(30)
<1>13. files'[wfd] = g /\ \A j \in Inodes : j # wfd => files'[j] = files[j]
  BY <1>2, <1>4 DEF f, new
<1>14. Len(todo') = Len(rest) - k /\ Len(todo') \in Nat
  BY <1>1, <1>2, <1>11 DEF left
<1> HIDE DEF g
<1>15. Len(f) < Len(g) /\ Len(g) + Len(todo') = p + b
  BY <1>1, <1>4, <1>6, <1>8, <1>12, <1>14
<1>16. \A c \in 1..Len(f) : g[c] = f[c]
  BY <1>4, <1>12
<1>17. ASSUME NEW c \in (Len(f) + 1)..Len(g) PROVE g[c] = IF c = p + b THEN NL ELSE w
  <2>1. /\ c - Len(f) \in 1..k /\ c \in 1..Len(g) /\ c > Len(f)
        /\ (c - Len(f) = Len(rest) <=> c = p + b)
        /\ c - Len(f) \in 1..Len(rest)
    BY <1>1, <1>4, <1>6, <1>8, <1>12
  <2>2. g[c] = rest[c - Len(f)]
    BY <1>10, <1>12, <2>1
  <2>3. CASE c = p + b
    BY <1>1, <2>1, <2>2, <2>3
  <2>4. CASE c # p + b
    <3>1. c - Len(f) \in 1..(Len(rest) - 1)
      BY <1>1, <1>4, <2>1, <2>4
    <3> QED BY <1>1, <1>3, <1>5, <2>2, <2>4, <3>1
  <2> QED BY <2>3, <2>4
<1>18. StartsLine(g, p)
  <2>1. CASE p <= Len(f)
    <3>1. p = 1 \/ (p - 1 \in 1..Len(f) /\ f[p - 1] = NL)
      BY <1>4, <1>9, <2>1 DEF StartsLine
    <3> QED BY <1>16, <3>1 DEF StartsLine
  <2>2. CASE p = Len(f) + 1 /\ Len(f) > 0
    <3>1. /\ f # <<>> /\ todo = <<>> /\ Len(todo) = 0
      BY <1>9, <2>2, EmptySeq
    <3>2. PICK v \in Nat \ {0} : v = Len(Body(written))
      BY BodyShape
    <3>3. PICK s : s = Len(f) - v
      OBVIOUS
    <3>4. s \in 1..Len(f) /\ StartsLine(f, s) /\ f[s] = written
      <4>1. s = LastStart
        BY <1>4, <3>1, <3>2, <3>3 DEF LastStart, f
      <4> QED BY <3>1, <4>1 DEF LogInSteps, f
    <3>5. LineAt(f, s)
      BY <1>4, <3>4 DEF LogInSteps, FileInSteps, f
    <3>6. f[Len(f)] = NL
      <4>1. s + v = Len(f)
        BY <1>4, <3>2, <3>3
      <4>2. s + v <= Len(f) => f[s + v] = NL
        BY <3>2, <3>4, <3>5 DEF LineAt
      <4> QED BY <1>4, <4>1, <4>2
    <3>7. Len(f) \in 1..Len(f) /\ p - 1 = Len(f)
      BY <1>4, <2>2
    <3> QED BY <1>16, <3>6, <3>7 DEF StartsLine
  <2>3. CASE p = 1
    BY <2>3 DEF StartsLine
  <2> QED BY <1>4, <1>9, <2>1, <2>2, <2>3
<1>19. WritesAt(f, g, p, b)
  BY <1>5, <1>9, <1>15, <1>16, <1>17, <1>18 DEF WritesAt
<1>20. p \in Nat
  BY <1>4, <1>9
<1> QED BY <1>3, <1>5, <1>6, <1>7, <1>12, <1>13, <1>14, <1>19, <1>20 DEF f

(* The write keeps the lines of the daemon's file in steps.                   *)
LEMMA WriteInSteps ==
    ASSUME FollowerInv, LogInSteps, Write,
           NEW f \in Seq(Units), NEW g \in Seq(Units), f = files[wfd],
           NEW w \in 1..MaxLines, w = written', w = IF todo = <<>> THEN written + 1 ELSE written,
           NEW b \in Nat \ {0}, b = Len(Body(w)), NEW p \in Nat, WritesAt(f, g, p, b),
           NEW s \in 1..Len(g), StartsLine(g, s), Len(todo') \in Nat
    PROVE  LineAt(g, s)
<1>1. /\ p \in 1..(Len(f) + 1) /\ (p <= Len(f) => f[p] = w) /\ (p = Len(f) + 1 <=> todo = <<>>)
      /\ StartsLine(g, p) /\ Len(f) < Len(g) /\ Len(g) <= p + b
      /\ \A c \in 1..Len(f) : g[c] = f[c]
      /\ \A c \in (Len(f) + 1)..Len(g) : g[c] = IF c = p + b THEN NL ELSE w
      /\ Len(f) \in Nat /\ Len(g) \in Nat
  <2>1. Len(f) \in Nat /\ Len(g) \in Nat
    BY LenProperties
  <2>2. Len(g) <= p + b
    BY <2>1 DEF WritesAt
  <2> QED BY <2>1, <2>2 DEF WritesAt
<1>2. FileInSteps(f)
  BY DEF LogInSteps, FollowerInv, FollowerTypeOK
<1>3. w # NL /\ p <= Len(g)
  BY <1>1 DEF NL
<1>4. ASSUME NEW c \in p..Len(g) PROVE g[c] = IF c = p + b THEN NL ELSE w
  <2>1. CASE c > Len(f)
    BY <1>1, <2>1
  <2>2. CASE c <= Len(f)
    <3>1. p \in 1..Len(f) /\ LineAt(f, p) /\ f[p] = w
      <4>1. p \in 1..Len(f) /\ f[p] = w
        BY <1>1, <2>2
      <4>2. StartsLine(f, p)
        <5>1. p = 1 \/ p - 1 \in 1..Len(f)
          BY <1>1, <4>1
        <5> QED BY <1>1, <5>1 DEF StartsLine
      <4> QED BY <1>2, <4>1, <4>2 DEF FileInSteps
    <3>2. /\ \A d \in p..(p + b - 1) : d <= Len(f) => f[d] = w
          /\ p + b <= Len(f) => f[p + b] = NL
      BY <3>1 DEF LineAt
    <3>3. g[c] = f[c] /\ c <= p + b
      BY <1>1, <2>2
    <3>4. c \in p..(p + b - 1) \/ c = p + b
      BY <3>3, SMTT(30)
    <3>5. c = p + b => c \notin p..(p + b - 1)
      BY <1>1
    <3> QED BY <2>2, <3>2, <3>3, <3>4, <3>5
  <2> QED BY <1>1, <2>1, <2>2
<1>5. CASE s = p
  <2>1. g[s] = w
    BY <1>1, <1>3, <1>4, <1>5
  <2>2. /\ \A c \in s..(s + b - 1) : c <= Len(g) => g[c] = w
    <3> SUFFICES ASSUME NEW c \in s..(s + b - 1), c <= Len(g) PROVE g[c] = w
      OBVIOUS
    <3>1. c \in p..Len(g) /\ c # p + b
      BY <1>1, <1>5
    <3> QED BY <1>4, <3>1
  <2>3. s + b <= Len(g) => g[s + b] = NL
    <3> SUFFICES ASSUME s + b <= Len(g) PROVE g[s + b] = NL
      OBVIOUS
    <3>1. s + b \in p..Len(g) /\ s + b = p + b
      BY <1>1, <1>5
    <3> QED BY <1>4, <3>1
  <2>4. ~(s + b + 1 <= Len(g))
    BY <1>1, <1>5
  <2> QED BY <2>1, <2>2, <2>3, <2>4 DEF LineAt
<1>6. CASE s > p
  <2>1. s - 1 \in p..Len(g) /\ g[s - 1] = NL /\ s - 1 # p + b
    BY <1>1, <1>6 DEF StartsLine
  <2> QED BY <1>3, <1>4, <2>1
<1>7. CASE s < p
  <2>1. s \in 1..Len(f) /\ p - 1 \in 1..Len(f) /\ p # 1 /\ g[s] = f[s]
    BY <1>1, <1>7, SMTT(30)
  <2>2. StartsLine(f, s)
    <3>1. s = 1 \/ s - 1 \in 1..Len(f)
      BY <2>1
    <3> QED BY <1>1, <3>1 DEF StartsLine
  <2>3. f[p - 1] = NL
    BY <1>1, <2>1 DEF StartsLine
  <2>4. PICK v \in Nat \ {0} : v = Len(Body(f[s]))
    BY BodyShape
  <2>5. s + v < p
    <3>1. p <= Len(f) + 1
      BY <1>1
    <3>2. s + Len(Body(f[s])) < p
      BY <1>2, <1>7, <2>1, <2>2, <2>3, <3>1, LinesApart
    <3> QED BY <2>4, <3>2
  <2>6. /\ f[s] \in 1..MaxLines
        /\ \A c \in s..(s + v - 1) : c <= Len(f) => f[c] = f[s]
        /\ s + v <= Len(f) => f[s + v] = NL
        /\ s + v + 1 <= Len(f) => f[s + v + 1] = f[s] + 1
    <3>1. LineAt(f, s)
      BY <1>2, <2>1, <2>2 DEF FileInSteps
    <3> QED BY <2>4, <3>1 DEF LineAt
  <2>7. /\ \A c \in s..(s + v - 1) : g[c] = f[s]
        /\ g[s + v] = NL
    <3>1. /\ s + v \in 1..Len(f) /\ \A c \in s..(s + v - 1) : c \in 1..Len(f)
      BY <1>1, <2>1, <2>4, <2>5, SMTT(30)
    <3>2. \A c \in 1..Len(f) : g[c] = f[c] /\ c <= Len(f)
      BY <1>1
    <3>3. \A c \in s..(s + v - 1) : g[c] = f[s]
      BY <2>6, <3>1, <3>2, Zenon
    <3>4. g[s + v] = NL
      BY <2>6, <3>1, <3>2, Zenon
    <3> QED BY <3>3, <3>4
  <2>8. s + v + 1 <= Len(g) => g[s + v + 1] = f[s] + 1
    <3>1. CASE s + v + 1 <= Len(f)
      <4>1. s + v + 1 \in 1..Len(f)
        BY <1>1, <2>1, <3>1
      <4> QED BY <1>1, <2>6, <3>1, <4>1
    <3>2. CASE s + v + 1 > Len(f)
      <4>1. s + v + 1 = p /\ p = Len(f) + 1 /\ s + v >= Len(f)
        <5>1. PICK L \in Nat : L = Len(f)
          BY <1>1
        <5>2. p <= L + 1 /\ s \in Nat /\ s + v < p /\ s + v + 1 > L
          BY <1>1, <2>1, <2>5, <3>2, <5>1
        <5>3. s + v + 1 = p /\ p = L + 1 /\ s + v >= L
          BY <5>2
        <5> QED BY <5>1, <5>3
      <4>2. f[s] = written /\ w = written + 1
        <5>1. s \in 1..Len(files[wfd]) /\ StartsLine(files[wfd], s)
              /\ s + Len(Body(files[wfd][s])) >= Len(files[wfd])
          BY <2>1, <2>2, <2>4, <4>1
        <5> QED BY <1>1, <4>1, <5>1, LastLine
      <4>3. g[p] = w
        BY <1>1, <1>3, <1>4
      <4> QED BY <4>1, <4>2, <4>3
    <3> QED BY <1>1, <2>1, <2>4, <3>1, <3>2
  <2> QED BY <2>1, <2>4, <2>6, <2>7, <2>8 DEF LineAt
<1> QED BY <1>1, <1>5, <1>6, <1>7

LEMMA LogInStepsInit == FollowerInit => LogInSteps
<1> SUFFICES ASSUME FollowerInit PROVE LogInSteps
  OBVIOUS
<1>1. /\ \A i \in Inodes : files[i] = <<>> /\ Len(files[i]) = 0
      /\ todo = <<>> /\ written = 0 /\ wfd = 1 /\ 1 \in Inodes
  BY EmptySeq, FollowerAssumption DEF FollowerInit, LogInit, Inodes
<1> QED BY <1>1 DEF LogInSteps, FileInSteps, FirstLine

(* As long as no file is truncated, the log grows line by line.               *)
LEMMA LogInStepsKept ==
    ASSUME FollowerInv, FollowerInv', LogOrder, LogInSteps, Environment, truncations' = 0
    PROVE  LogInSteps'
<1>1. /\ TodoShape /\ wfd \in Inodes /\ files \in [Inodes -> Seq(Units)] /\ written \in Nat
      /\ files[wfd] \in Seq(Units) /\ Len(files[wfd]) \in Nat /\ Len(files'[wfd]) \in Nat
      /\ lastInode \in Inodes
  <2>1. /\ TodoShape /\ wfd \in Inodes /\ files \in [Inodes -> Seq(Units)] /\ written \in Nat
        /\ lastInode \in Inodes
    BY DEF LogOrder, FollowerInv, FollowerTypeOK
  <2>2. files' \in [Inodes -> Seq(Units)]
    BY DEF FollowerInv, FollowerTypeOK
  <2>3. files[wfd] \in Seq(Units) /\ files'[wfd] \in Seq(Units)
    BY <2>1, <2>2
  <2> QED BY <2>1, <2>3, LenProperties
<1>2. CASE Write
  <2>1. UNCHANGED <<wfd, lastInode>>
    BY <1>2 DEF Write
  <2>2. PICK f \in Seq(Units), g \in Seq(Units) : f = files[wfd] /\ g = files'[wfd]
    BY <1>1, <1>2, WritePlaces
  <2>3. PICK w \in 1..MaxLines : w = written'
    BY <1>1, <1>2, WritePlaces
  <2>4. PICK b \in Nat \ {0} : b = Len(Body(w))
    BY BodyShape
  <2>5. /\ w = (IF todo = <<>> THEN written + 1 ELSE written) /\ Len(todo') \in Nat
        /\ \A j \in Inodes : j # wfd => files'[j] = files[j]
        /\ \E p \in Nat : WritesAt(f, g, p, b)
    BY <1>1, <1>2, <2>2, <2>3, <2>4, WritePlaces
  <2>6. PICK p \in Nat : WritesAt(f, g, p, b)
    BY <2>5
  <2>7. FileInSteps(g)
    <3> SUFFICES ASSUME NEW s \in 1..Len(g), StartsLine(g, s) PROVE LineAt(g, s)
      BY DEF FileInSteps
    <3> QED BY <1>2, <2>2, <2>3, <2>4, <2>5, <2>6, WriteInSteps
  <2>8. \A i \in Inodes : FileInSteps(files'[i])
    BY <2>2, <2>5, <2>7 DEF LogInSteps
  <2>9. /\ p \in 1..(Len(f) + 1) /\ (p <= Len(f) => f[p] = w) /\ StartsLine(g, p)
        /\ Len(f) < Len(g) /\ Len(g) + Len(todo') = p + b
        /\ \A c \in 1..Len(f) : g[c] = f[c]
        /\ \A c \in (Len(f) + 1)..Len(g) : g[c] = IF c = p + b THEN NL ELSE w
        /\ Len(f) \in Nat /\ Len(g) \in Nat
        /\ p = Len(f) + 1 <=> todo = <<>>
    BY <2>3, <2>6, LenProperties DEF WritesAt
  <2>10. g[p] = w /\ p \in 1..Len(g) /\ g # <<>>
    <3>1. p \in 1..Len(f) \/ (p \in (Len(f) + 1)..Len(g) /\ p # p + b)
      BY <2>9
    <3>2. p \in 1..Len(g)
      BY <2>9
    <3> QED BY <2>9, <3>1, <3>2, EmptySeq
  <2>11. LastStart' = p
    <3>1. LastStart' = Len(g) + Len(todo') - b
      BY <2>1, <2>2, <2>3, <2>4 DEF LastStart
    <3> QED BY <2>5, <2>9, <3>1
  <2>12. FirstLine' = FirstLine
    <3>1. FirstLine' = g[1]
      BY <2>1, <2>2, <2>10 DEF FirstLine
    <3>2. CASE f = <<>>
      <4>1. Len(f) = 0 /\ todo = <<>> /\ p = 1
        BY <2>2, <2>9, <3>2, EmptySeq DEF LogInSteps
      <4> QED BY <2>2, <2>5, <2>10, <3>1, <3>2, <4>1 DEF FirstLine
    <3>3. CASE f # <<>>
      <4>1. 1 \in 1..Len(f)
        BY <2>9, <3>3, EmptySeq
      <4> QED BY <2>2, <2>9, <3>1, <3>3, <4>1 DEF FirstLine
    <3> QED BY <3>2, <3>3
  <2> QED BY <2>1, <2>2, <2>3, <2>8, <2>9, <2>10, <2>11, <2>12 DEF LogInSteps
<1>3. CASE Rename
  BY <1>3 DEF Rename, LogInSteps, FirstLine, LastStart
<1>4. CASE Create
  BY <1>1, <1>4 DEF Create, LogInSteps, FirstLine, LastStart, Inodes
<1>5. CASE WriterReopen
  <2>1. /\ path = lastInode /\ wfd <= lastInode /\ wfd # path /\ path \in Inodes
        /\ UNCHANGED <<files, todo, written, lastInode>> /\ wfd' = path /\ todo = <<>>
    BY <1>1, <1>5 DEF WriterReopen, LogOrder
  <2>2. wfd < path /\ lastInode # 1
    BY <1>1, <2>1 DEF Inodes
  <2>3. files[path] = <<>>
    BY <2>1, <2>2 DEF LogOrder
  <2> QED BY <2>1, <2>2, <2>3 DEF LogInSteps
<1>6. CASE Truncate
  BY <1>6, FollowerAssumption DEF Truncate, FollowerInv, FollowerTypeOK
<1> QED BY <1>2, <1>3, <1>4, <1>5, <1>6 DEF Environment

(* The line a record holds is the line of its units.                          *)
LEMMA LineOfText ==
    ASSUME NEW r
    PROVE  /\ LineOf(r) \in 0..MaxLines
           /\ LineOf(r) # 0 => /\ LineOf(r) \in 1..MaxLines /\ r.Text = Body(LineOf(r))
                               /\ 1 \in 1..Len(r.Text) /\ r.Text[1] = LineOf(r)
<1>1. CASE \E l \in 1..MaxLines : r.Text = Body(l)
  <2>1. LineOf(r) \in 1..MaxLines /\ r.Text = Body(LineOf(r))
    BY <1>1 DEF LineOf
  <2>2. \A l : 1 \in 1..Len(Body(l)) /\ Body(l)[1] = l
    BY DEF Body
  <2> QED BY <2>1, <2>2, FollowerAssumption
<1>2. CASE ~\E l \in 1..MaxLines : r.Text = Body(l)
  BY <1>2, FollowerAssumption DEF LineOf
<1> QED BY <1>1, <1>2

----------------------------------------------------------------------------
(* The reader keeps in step, one lemma per step.                             *)

LEMMA StepTypes ==
    ASSUME FollowerInv, BufferInFile, PendingInFile, inode # NoFile
    PROVE  /\ inode \in Inodes /\ wfd \in Inodes /\ files[inode] \in Seq(Units)
           /\ Len(files[inode]) \in Nat /\ offset \in Nat /\ Len(pendingText) \in Nat
           /\ offset - Len(pendingText) \in Nat
           /\ offset - Len(pendingText) <= Len(files[inode])
           /\ offset - Len(pendingText) <= offset /\ offset <= Len(files[inode])
           /\ rotatedAt \in Nat /\ DrainPolls \in Nat \ {0} /\ written \in Nat
           /\ DrainElapsed => rotatedAt > 0
<1>1. /\ inode \in Inodes /\ files[inode] \in Seq(Units) /\ Len(files[inode]) \in Nat
      /\ offset \in Nat /\ Len(pendingText) \in Nat /\ Len(buffered) \in Nat
  BY ReaderTypes
<1>2. rotatedAt \in Nat /\ DrainPolls \in Nat \ {0} /\ wfd \in Inodes /\ written \in Nat
  BY FollowerAssumption DEF FollowerInv, FollowerTypeOK
<1>3. Len(pendingText) <= offset /\ offset + Len(buffered) <= Len(files[inode])
  BY DEF BufferInFile, PendingInFile
<1>4. /\ offset - Len(pendingText) \in Nat /\ offset - Len(pendingText) <= offset
      /\ offset - Len(pendingText) <= Len(files[inode]) /\ offset <= Len(files[inode])
  BY <1>1, <1>3
<1>5. DrainElapsed => rotatedAt > 0
  BY <1>2 DEF DrainElapsed
<1> QED BY <1>1, <1>2, <1>4, <1>5

LEMMA EnvironmentInStep ==
    ASSUME FollowerInv, FollowerInv', LogOrder, LogInSteps, Environment, orderly,
           truncations' = 0, BufferInFile, PendingInFile, NEW n \in Nat, ReaderInStep(n)
    PROVE  ReaderInStep(n)'
<1>0. UNCHANGED <<fpc, inode, offset, buffered, pendingText, rotatedAt>>
  BY DEF Environment, Write, Rename, Create, WriterReopen, Truncate, followVars
<1> SUFFICES ASSUME inode # NoFile PROVE (ReaderAtLine(n) /\ LeftBehind /\ Draining)'
  BY <1>0 DEF ReaderInStep
<1>1. /\ inode \in Inodes /\ wfd \in Inodes /\ files[inode] \in Seq(Units)
      /\ Len(files[inode]) \in Nat /\ offset \in Nat
      /\ offset - Len(pendingText) \in Nat /\ offset - Len(pendingText) <= Len(files[inode])
      /\ rotatedAt \in Nat /\ written \in Nat /\ (DrainElapsed => rotatedAt > 0)
  BY StepTypes
<1>2. ReaderAtLine(n) /\ LeftBehind /\ Draining /\ TodoShape
  BY DEF ReaderInStep, LogOrder
<1>3. PICK start \in Nat : start = offset - Len(pendingText)
  BY <1>1
<1>4. CASE Write
  <2>1. UNCHANGED <<wfd, path>>
    BY <1>4 DEF Write
  <2>2. PICK f \in Seq(Units), g \in Seq(Units) : f = files[wfd] /\ g = files'[wfd]
    BY <1>1, <1>2, <1>4, WritePlaces DEF FollowerInv, FollowerTypeOK
  <2>3. PICK w \in 1..MaxLines : w = written'
    BY <1>2, <1>4, WritePlaces
  <2>4. PICK b \in Nat \ {0} : b = Len(Body(w))
    BY BodyShape
  <2>5. /\ w = (IF todo = <<>> THEN written + 1 ELSE written) /\ Len(todo') \in Nat
        /\ \A j \in Inodes : j # wfd => files'[j] = files[j]
        /\ \E p \in Nat : WritesAt(f, g, p, b)
    BY <1>2, <1>4, <2>2, <2>3, <2>4, WritePlaces
  <2>6. PICK p \in Nat : WritesAt(f, g, p, b)
    BY <2>5
  <2>7. /\ Len(f) \in Nat /\ Len(g) \in Nat /\ Len(f) < Len(g)
        /\ p = Len(f) + 1 <=> todo = <<>>
        /\ \A c \in 1..Len(f) : g[c] = f[c]
        /\ \A c \in (Len(f) + 1)..Len(g) : g[c] = IF c = p + b THEN NL ELSE w
    BY <2>3, <2>6, LenProperties DEF WritesAt
  <2>8. CASE inode = wfd
    <3>1. start < Len(g) /\ g[start + 1] = n
      <4>1. CASE start < Len(f)
        <5>1. start + 1 \in 1..Len(f) /\ start < Len(g)
          BY <2>7, <4>1
        <5>2. f[start + 1] = n
          BY <1>2, <1>3, <2>2, <2>8, <4>1 DEF ReaderAtLine
        <5> QED BY <2>7, <5>1, <5>2
      <4>2. CASE start = Len(f)
        <5>1. todo = <<>> /\ written + 1 = n
          BY <1>2, <1>3, <2>2, <2>8, <4>2 DEF ReaderAtLine
        <5>2. w = n /\ p = Len(f) + 1
          BY <2>5, <2>7, <5>1
        <5>3. start + 1 \in (Len(f) + 1)..Len(g) /\ start + 1 # p + b /\ start < Len(g)
          BY <2>7, <4>2, <5>2
        <5> QED BY <2>7, <5>2, <5>3
      <4>3. start <= Len(f)
        BY <1>1, <1>3, <2>2, <2>8
      <4> QED BY <1>3, <2>7, <4>1, <4>2, <4>3
    <3>2. ReaderAtLine(n)'
      <4>1. files'[inode'] = g /\ start = offset' - Len(pendingText') /\ start # Len(g)
        BY <1>0, <1>3, <2>2, <2>7, <2>8, <3>1
      <4> QED BY <3>1, <4>1 DEF ReaderAtLine
    <3>3. LeftBehind'
      BY <1>0, <2>1, <2>8 DEF LeftBehind
    <3>4. Draining'
      <4>0. /\ rotatedAt > 0 => path # inode
            /\ DrainElapsed => wfd = path
            /\ fpc = "reopen" => DrainElapsed
            /\ DrainElapsed => rotatedAt > 0
        BY <1>1, <1>2 DEF Draining
      <4>1. ~DrainElapsed /\ fpc # "reopen"
        BY <2>8, <4>0
      <4> QED BY <1>0, <1>2, <2>1, <2>8, <4>1 DEF Draining, DrainElapsed
    <3> QED BY <3>2, <3>3, <3>4
  <2>9. CASE inode # wfd
    <3>1. files'[inode] = files[inode]
      BY <1>1, <2>5, <2>9
    <3>2. FirstLine' = FirstLine
      <4>1. g # <<>>
        BY <2>7, EmptySeq
      <4>2. FirstLine' = g[1]
        BY <2>1, <2>2, <4>1 DEF FirstLine
      <4>3. CASE f = <<>>
        <5>1. Len(f) = 0 /\ todo = <<>> /\ p = 1 /\ w = written + 1
          BY <2>2, <2>5, <2>7, <4>3, EmptySeq DEF LogInSteps
        <5>2. 1 \in (Len(f) + 1)..Len(g) /\ 1 # p + b
          BY <2>7, <5>1
        <5>3. g[1] = written + 1
          BY <2>7, <5>1, <5>2
        <5> QED BY <2>2, <4>2, <4>3, <5>3 DEF FirstLine
      <4>4. CASE f # <<>>
        <5>1. 1 \in 1..Len(f)
          BY <2>7, <4>4, EmptySeq
        <5> QED BY <2>2, <2>7, <4>2, <4>4, <5>1 DEF FirstLine
      <4> QED BY <4>3, <4>4
    <3>3. ReaderAtLine(n)'
      BY <1>0, <1>2, <2>1, <2>9, <3>1, <3>2 DEF ReaderAtLine
    <3>4. LeftBehind'
      BY <1>0, <1>2, <2>1, <3>1, <3>2 DEF LeftBehind
    <3>5. Draining'
      BY <1>0, <1>2, <2>1, <3>1 DEF Draining, DrainElapsed
    <3> QED BY <3>3, <3>4, <3>5
  <2> QED BY <2>8, <2>9
<1>5. CASE Rename
  <2>1. UNCHANGED <<files, wfd, todo, written>> /\ wfd = path /\ inode = path
    BY <1>5 DEF Rename
  <2>0. /\ rotatedAt > 0 => path # inode
        /\ fpc = "reopen" => DrainElapsed
        /\ DrainElapsed => rotatedAt > 0
    BY <1>1, <1>2 DEF Draining
  <2>2. ~(rotatedAt > 0) /\ ~DrainElapsed /\ fpc # "reopen"
    BY <2>0, <2>1
  <2>3. Draining'
    BY <1>0, <2>1, <2>2 DEF Draining, DrainElapsed
  <2>4. (ReaderAtLine(n) /\ LeftBehind)'
    BY <1>0, <1>2, <2>1 DEF ReaderAtLine, LeftBehind, FirstLine
  <2> QED BY <2>3, <2>4
<1>6. CASE Create
  <2>1. UNCHANGED <<files, wfd, todo, written>> /\ path = NoFile /\ wfd # NoFile
    BY <1>1, <1>6 DEF Create, Inodes, NoFile
  <2>2. inode = wfd /\ ~(rotatedAt > 0) /\ ~DrainElapsed /\ fpc # "reopen"
    BY <1>1, <1>2, <2>1 DEF Draining
  <2>3. Draining'
    BY <1>0, <2>1, <2>2 DEF Draining, DrainElapsed
  <2>4. (ReaderAtLine(n) /\ LeftBehind)'
    BY <1>0, <1>2, <2>1 DEF ReaderAtLine, LeftBehind, FirstLine
  <2> QED BY <2>3, <2>4
<1>7. CASE WriterReopen
  <2>1. /\ path = lastInode /\ wfd <= lastInode /\ wfd # path /\ path \in Inodes
        /\ UNCHANGED <<files, todo, written, path>> /\ wfd' = path /\ todo = <<>>
    BY <1>7 DEF WriterReopen, LogOrder, FollowerInv, FollowerTypeOK
  <2>2. wfd < path /\ files[path] = <<>>
    <3>1. wfd < path
      BY <1>1, <2>1 DEF Inodes
    <3> QED BY <2>1, <3>1 DEF LogOrder
  <2>3. inode = wfd /\ inode # wfd'
    BY <1>2, <2>1 DEF Draining
  <2>4. FirstLine' = written + 1 /\ Len(todo) = 0
    BY <2>1, <2>2, EmptySeq DEF FirstLine
  <2>5. ReaderAtLine(n)'
    <3>1. start < Len(files[inode]) => files[inode][start + 1] = n
      BY <1>2, <1>3 DEF ReaderAtLine
    <3>2. start = Len(files[inode]) => written + 1 = n
      BY <1>2, <1>3, <2>3 DEF ReaderAtLine
    <3>3. start = offset' - Len(pendingText') /\ files'[inode'] = files[inode]
      BY <1>0, <1>3, <2>1
    <3> QED BY <1>0, <2>3, <2>4, <3>1, <3>2, <3>3 DEF ReaderAtLine
  <2>6. LeftBehind'
    <3> SUFFICES ASSUME NEW s \in 1..Len(files[inode]), StartsLine(files[inode], s),
                        s + Len(Body(files[inode][s])) >= Len(files[inode])
                 PROVE  /\ s + Len(Body(files[inode][s])) = Len(files[inode])
                        /\ written + 1 = files[inode][s] + 1
      BY <1>0, <2>1, <2>4 DEF LeftBehind
    <3>1. /\ files[inode][s] = written
          /\ s + Len(Body(files[inode][s])) = Len(files[inode]) + Len(todo)
      BY <2>3, LastLine
    <3> QED BY <1>1, <2>4, <3>1
  <2>7. Draining'
    <3>1. ~DrainElapsed /\ fpc # "reopen"
      BY <1>2, <2>1 DEF Draining
    <3>2. ~DrainElapsed'
      BY <1>0, <3>1 DEF DrainElapsed
    <3> QED BY <1>0, <1>2, <2>1, <2>3, <3>1, <3>2 DEF Draining
  <2> QED BY <2>5, <2>6, <2>7
<1>8. CASE Truncate
  BY <1>8, FollowerAssumption DEF Truncate, FollowerInv, FollowerTypeOK
<1> QED BY <1>4, <1>5, <1>6, <1>7, <1>8 DEF Environment

(* The next record that is cut is the next line.                              *)
LEMMA ReadLineInStep ==
    ASSUME FollowerInv, FollowerInv', LogInSteps, ReadLine, BufferInFile, PendingInFile,
           NEW n \in Nat, ReaderInStep(n)
    PROVE  /\ \E r \in lineRecord : cut' = Append(cut, r) /\ LineOf(r) = n
           /\ ReaderInStep(n + 1)'
<1>1. /\ inode # NoFile /\ inode' = inode /\ fpc' = "send" /\ Len(pendingText') = 0
      /\ UNCHANGED <<files, wfd, path, todo, written, rotatedAt>>
  <2>1. inode # NoFile
    BY FollowerAssumption DEF ReadLine, FollowerInv, FollowerTypeOK, Inodes, NoFile
  <2> QED BY <2>1, EmptySeq DEF ReadLine, logVars
<1>2. ReaderAtLine(n) /\ LeftBehind /\ Draining
  BY <1>1 DEF ReaderInStep
<1>3. PICK f \in Seq(Units), start \in Nat :
          /\ f = files[inode] /\ start = offset - Len(pendingText) /\ start <= Len(f)
          /\ Len(f) \in Nat /\ offset \in Nat /\ Len(pendingText) \in Nat /\ inode \in Inodes
  BY <1>1, StepTypes
<1>4. PICK r \in lineRecord : /\ cut' = Append(cut, r) /\ WholeLine(r)
                              /\ r.Inode = inode /\ r.Offset = offset'
  BY ReadLinePosition
<1>5. r.Text \in Seq(Units) /\ Len(r.Text) \in Nat /\ offset' \in Nat /\ offset' > offset
  <2>1. r.Text \in Seq(Units)
    BY DEF lineRecord
  <2> QED BY <2>1, ReadLinePosition, LenProperties
<1>6. /\ Len(r.Text) = offset' - (start + 1)
      /\ \A q \in 1..Len(r.Text) : r.Text[q] # NL
  <2>1. Len(pendingText) <= offset /\ \A i \in 1..Len(pendingText) : pendingText[i] # NL
    BY <1>1 DEF PendingInFile
  <2>2. PICK x \in lineRecord : /\ cut' = Append(cut, x)
                                /\ Len(x.Text) = offset' - LineStart
                                /\ \A q \in 1..Len(x.Text) : x.Text[q] # NL
    BY <2>1, ReadLineAhead
  <2>3. cut \in Seq(lineRecord)
    BY DEF FollowerInv, FollowerTypeOK
  <2>4. x = r
    <3>1. cut'[Len(cut) + 1] = x
      BY <2>2, <2>3, AppendProperties
    <3>2. cut'[Len(cut) + 1] = r
      BY <1>4, <2>3, AppendProperties
    <3> QED BY <3>1, <3>2
  <2>5. LineStart = start + 1
    BY <1>3 DEF LineStart
  <2> QED BY <2>2, <2>4, <2>5
<1>7. PICK s \in Nat : s = start + 1
  OBVIOUS
<1>8. /\ offset' \in s..Len(f) /\ f[offset'] = NL /\ s \in 1..Len(f)
      /\ \A q \in 1..Len(r.Text) : r.Text[q] = f[s + q - 1]
  <2>1. /\ offset' \in 1..Len(f) /\ f[offset'] = NL
        /\ r.Text = SubSeq(f, offset' - Len(r.Text), offset' - 1)
    BY <1>3, <1>4 DEF WholeLine
  <2>2. offset' - Len(r.Text) = s
    <3>1. PICK o \in Nat, t \in Nat : o = offset' /\ t = Len(r.Text)
      BY <1>5
    <3>2. t = o - s
      BY <1>6, <1>7, <3>1
    <3>3. o - t = s
      BY <3>2
    <3> QED BY <3>1, <3>3
  <2>3. offset' \in s..Len(f) /\ s \in 1..Len(f)
    BY <1>3, <1>5, <1>7, <2>1, SMTT(30)
  <2>4. PICK hi \in Nat, t \in Nat :
            hi = offset' - 1 /\ t = Len(r.Text) /\ hi <= Len(f) /\ s <= hi + 1 /\ t = hi - s + 1
    <3>1. PICK o \in Nat, t \in Nat, L \in Nat : o = offset' /\ t = Len(r.Text) /\ L = Len(f)
      BY <1>3, <1>5
    <3>2. o - t = s /\ o \in s..L /\ o \in 1..L
      BY <2>1, <2>2, <2>3, <3>1
    <3>3. o - 1 \in Nat /\ o - 1 <= L /\ s <= (o - 1) + 1 /\ t = (o - 1) - s + 1
      BY <3>2
    <3> QED BY <3>1, <3>3
  <2>5. r.Text = SubSeq(f, s, hi) /\ s \in Nat \ {0}
    <3>1. s # 0
      BY <1>7
    <3> QED BY <2>1, <2>2, <2>4, <3>1
  <2>6. CASE s <= hi
    <3>1. \A q \in 1..(hi - s + 1) : SubSeq(f, s, hi)[q] = f[s - 1 + q]
      BY <2>4, <2>5, <2>6, PartProperties
    <3>2. \A q \in 1..t : s - 1 + q = s + q - 1
      OBVIOUS
    <3> QED BY <2>1, <2>3, <2>4, <2>5, <3>1, <3>2
  <2>7. CASE hi < s
    <3>1. t = 0
      BY <2>4, <2>7
    <3>2. \A q \in 1..t : FALSE
      BY <3>1
    <3>3. \A q \in 1..Len(r.Text) : r.Text[q] = f[s + q - 1]
      BY <2>4, <3>2
    <3> QED BY <2>1, <2>3, <3>3
  <2> QED BY <2>6, <2>7
<1>9. f[s] = n /\ StartsLine(f, s) /\ LineAt(f, s)
  <2>1. f[s] = n
    <3>1. start < Len(f)
      BY <1>3, <1>7, <1>8
    <3> QED BY <1>2, <1>3, <1>7, <3>1 DEF ReaderAtLine
  <2>2. StartsLine(f, s)
    <3>1. offset = Len(pendingText) \/ f[start] = NL
      BY <1>1, <1>3 DEF PendingInFile
    <3>2. s - 1 = start
      BY <1>7
    <3>3. offset = Len(pendingText) => s = 1
      BY <1>3, <1>7
    <3> QED BY <3>1, <3>2, <3>3 DEF StartsLine
  <2> QED BY <1>3, <1>8, <2>1, <2>2 DEF LogInSteps, FileInSteps
<1>10. PICK b \in Nat \ {0} : b = Len(Body(n))
  BY BodyShape
<1>11. /\ n \in 1..MaxLines /\ \A c \in s..(s + b - 1) : c <= Len(f) => f[c] = n
       /\ s + b <= Len(f) => f[s + b] = NL
       /\ s + b + 1 <= Len(f) => f[s + b + 1] = n + 1
  BY <1>9, <1>10 DEF LineAt
<1>12. offset' = s + b
  <2>1. ~(offset' < s + b)
    <3> SUFFICES ASSUME offset' < s + b PROVE FALSE
      OBVIOUS
    <3>1. offset' \in s..(s + b - 1) /\ offset' <= Len(f)
      BY <1>3, <1>5, <1>8
    <3> QED BY <1>8, <1>11, <3>1 DEF NL
  <2>2. ~(offset' > s + b)
    <3> SUFFICES ASSUME offset' > s + b PROVE FALSE
      OBVIOUS
    <3>0. PICK o \in Nat, t \in Nat, L \in Nat : o = offset' /\ t = Len(r.Text) /\ L = Len(f)
      BY <1>3, <1>5
    <3>1. s + b <= Len(f) /\ b + 1 \in 1..Len(r.Text) /\ s + (b + 1) - 1 = s + b
      <4>1. o > s + b /\ o \in s..L /\ t = o - s
        BY <1>6, <1>7, <1>8, <3>0
      <4>2. s + b <= L /\ b + 1 \in 1..t /\ s + (b + 1) - 1 = s + b
        BY <4>1
      <4> QED BY <3>0, <4>2
    <3> QED BY <1>6, <1>8, <1>11, <3>1
  <2> QED BY <1>5, <2>1, <2>2
<1>13. LineOf(r) = n
  <2>1. Len(r.Text) = b
    BY <1>5, <1>6, <1>7, <1>12
  <2>2. \A q \in 1..b : r.Text[q] = n
    <3> SUFFICES ASSUME NEW q \in 1..b PROVE r.Text[q] = n
      OBVIOUS
    <3>1. s + q - 1 \in s..(s + b - 1) /\ s + q - 1 <= Len(f)
      BY <1>3, <1>8, <1>12
    <3> QED BY <1>8, <1>11, <2>1, <3>1
  <2>3. Body(n) \in Seq(Units) /\ \A q \in 1..b : Body(n)[q] = n
    BY <1>10, <1>11, BodyType, BodyShape
  <2>4. r.Text = Body(n)
    BY <1>5, <1>10, <2>1, <2>2, <2>3, SeqEqual
  <2>5. LineOf(r) # 0
    BY <1>11, <2>4, FollowerAssumption DEF LineOf
  <2>6. 1 \in 1..b
    OBVIOUS
  <2> QED BY <2>2, <2>5, <2>6, LineOfText
<1>14. ReaderAtLine(n + 1)'
  <2>1. offset' - Len(pendingText') = s + b /\ files'[inode'] = f
    BY <1>1, <1>3, <1>12
  <2>2. s + b < Len(f) => f[s + b + 1] = n + 1
    BY <1>3, <1>11
  <2>3. s + b = Len(f) /\ inode = wfd => todo = <<>> /\ written + 1 = n + 1
    <3> SUFFICES ASSUME s + b = Len(f), inode = wfd PROVE todo = <<>> /\ written = n
      OBVIOUS
    <3>1. s \in 1..Len(files[wfd]) /\ StartsLine(files[wfd], s) /\ files[wfd][s] = n
      BY <1>3, <1>8, <1>9
    <3>2. s + Len(Body(files[wfd][s])) = Len(files[wfd])
      BY <1>3, <1>10, <3>1
    <3>3. n = written /\ Len(files[wfd]) = Len(files[wfd]) + Len(todo)
      <4>1. s + Len(Body(files[wfd][s])) >= Len(files[wfd])
        BY <1>3, <3>2
      <4>2. /\ files[wfd][s] = written
            /\ s + Len(Body(files[wfd][s])) = Len(files[wfd]) + Len(todo)
        BY <3>1, <4>1, LastLine
      <4> QED BY <3>1, <3>2, <4>2
    <3>4. todo \in Seq(Units) /\ Len(todo) \in Nat
      BY LenProperties DEF FollowerInv, FollowerTypeOK
    <3>5. Len(todo) = 0
      BY <1>3, <3>3, <3>4
    <3> QED BY <3>3, <3>4, <3>5, EmptySeq
  <2>4. s + b = Len(f) /\ inode # wfd => FirstLine = n + 1
    <3> SUFFICES ASSUME s + b = Len(f), inode # wfd PROVE FirstLine = n + 1
      OBVIOUS
    <3>1. s + Len(Body(f[s])) >= Len(f)
      BY <1>3, <1>9, <1>10
    <3> QED BY <1>2, <1>3, <1>8, <1>9, <3>1 DEF LeftBehind
  <2>5. FirstLine' = FirstLine
    BY <1>1 DEF FirstLine
  <2> QED BY <1>1, <2>1, <2>2, <2>3, <2>4, <2>5 DEF ReaderAtLine
<1>15. LeftBehind'
  BY <1>1, <1>2 DEF LeftBehind, FirstLine
<1>16. Draining'
  BY <1>1, <1>2 DEF Draining, DrainElapsed
<1> QED BY <1>4, <1>13, <1>14, <1>15, <1>16 DEF ReaderInStep

(* The end of the file: what was read of the line stays before the reader.    *)
LEMMA ReadEOFInStep ==
    ASSUME FollowerInv, LogInSteps, ReadEOF, BufferInFile, PendingInFile,
           NEW n \in Nat, ReaderInStep(n)
    PROVE  ReaderInStep(n)'
<1>1. /\ inode # NoFile /\ inode' = inode /\ fpc = "read" /\ fpc' = "check"
      /\ UNCHANGED <<files, wfd, path, todo, written, rotatedAt>>
      /\ offset' = offset + Len(Available) /\ pendingText' = pendingText \o Available
      /\ ~HasNL(Available)
  <2>1. inode # NoFile
    BY FollowerAssumption DEF ReadEOF, FollowerInv, FollowerTypeOK, Inodes, NoFile
  <2> QED BY <2>1 DEF ReadEOF, Carried, logVars
<1>2. ReaderAtLine(n) /\ LeftBehind /\ Draining
  BY <1>1 DEF ReaderInStep
<1>3. /\ offset \in Nat /\ Len(pendingText) \in Nat /\ pendingText \in Seq(Units)
      /\ Len(files[inode]) \in Nat
  BY <1>1, ReaderTypes
<1>4. /\ Available \in Seq(Units) /\ Len(Available) \in Nat
      /\ ~HasNL(buffered) => offset + Len(Available) = Horizon
      /\ HasNL(buffered) => Available = buffered
  BY <1>1, AvailableAhead
<1>5. offset' = Len(files[inode])
  <2>1. offset + Len(buffered) <= Len(files[inode])
    BY <1>1 DEF BufferInFile
  <2>2. ~HasNL(buffered)
    BY <1>1, <1>4
  <2> QED BY <1>1, <1>4, <2>1, <2>2 DEF Horizon, Fetched
<1>6. offset' - Len(pendingText') = offset - Len(pendingText)
  <2>1. PICK a \in Nat, t \in Nat : a = Len(Available) /\ t = Len(pendingText)
    BY <1>3, <1>4
  <2>2. Len(pendingText') = t + a
    BY <1>1, <1>3, <1>4, <2>1, Joined
  <2>3. (offset + a) - (t + a) = offset - t
    BY <1>3
  <2> QED BY <1>1, <2>1, <2>2, <2>3
<1>7. FirstLine' = FirstLine
  BY <1>1 DEF FirstLine
<1>8. ReaderAtLine(n)'
  BY <1>1, <1>2, <1>6, <1>7 DEF ReaderAtLine
<1>9. LeftBehind'
  BY <1>1, <1>2, <1>7 DEF LeftBehind
<1>10. Draining'
  BY <1>1, <1>2, <1>5 DEF Draining, DrainElapsed
<1> QED BY <1>1, <1>8, <1>9, <1>10 DEF ReaderInStep

(* The steps between two reads.                                               *)
LEMMA PollInStep ==
    ASSUME FollowerInv, BufferInFile, PendingInFile, orderly,
           SendRecord \/ CheckRotation \/ Poll \/ FollowError,
           NEW n \in Nat, ReaderInStep(n)
    PROVE  ReaderInStep(n)'
<1>1. UNCHANGED <<files, wfd, path, todo, written, inode, offset, pendingText>>
  BY DEF SendRecord, CheckRotation, Poll, FollowError, Fail, logVars
<1> SUFFICES ASSUME inode # NoFile PROVE (ReaderAtLine(n) /\ LeftBehind /\ Draining)'
  BY <1>1 DEF ReaderInStep
<1>2. ReaderAtLine(n) /\ LeftBehind /\ Draining
  BY DEF ReaderInStep
<1>3. /\ rotatedAt \in Nat /\ DrainPolls \in Nat \ {0} /\ Len(files[inode]) \in Nat
      /\ offset \in Nat /\ offset <= Len(files[inode]) /\ inode \in Inodes
  BY StepTypes
<1>4. (ReaderAtLine(n) /\ LeftBehind)'
  BY <1>1, <1>2 DEF ReaderAtLine, LeftBehind, FirstLine
<1>5. CASE SendRecord \/ FollowError
  <2>1. rotatedAt' = rotatedAt /\ fpc' \in {"read", "failed"}
    BY <1>5 DEF SendRecord, FollowError, Fail
  <2> QED BY <1>1, <1>2, <1>4, <2>1 DEF Draining, DrainElapsed
<1>6. CASE CheckRotation
  <2>1. fpc = "check" /\ ~Truncated
    BY <1>3, <1>6 DEF CheckRotation, Truncated
  <2>2. CASE Rotated /\ DrainElapsed /\ fpc' = "reopen" /\ rotatedAt' = rotatedAt
    <3>1. offset = Len(files[inode]) /\ DrainElapsed'
      BY <1>2, <2>1, <2>2 DEF Draining, DrainElapsed
    <3> QED BY <1>1, <1>2, <1>4, <2>2, <3>1 DEF Draining
  <2>3. CASE Rotated /\ rotatedAt' = (IF rotatedAt = 0 THEN 1 ELSE rotatedAt) /\ ~DrainElapsed
             /\ fpc' = "poll"
    <3>1. ~DrainElapsed'
      BY <1>3, <2>3 DEF DrainElapsed
    <3>2. path # NoFile /\ path # inode
      BY <2>3 DEF Rotated
    <3> QED BY <1>1, <1>2, <1>4, <2>3, <3>1, <3>2 DEF Draining
  <2>4. CASE rotatedAt' = 0 /\ fpc' = "poll"
    <3>1. ~DrainElapsed' /\ ~(rotatedAt' > 0)
      BY <1>3, <2>4 DEF DrainElapsed
    <3> QED BY <1>1, <1>2, <1>4, <2>4, <3>1 DEF Draining
  <2> QED BY <1>6, <2>1, <2>2, <2>3, <2>4 DEF CheckRotation
<1>7. CASE Poll
  <2>1. fpc' = "read" /\ (rotatedAt' = rotatedAt \/ (rotatedAt > 0 /\ rotatedAt' = rotatedAt + 1))
    BY <1>3, <1>7 DEF Poll
  <2>2. DrainElapsed' => wfd = path
    <3>1. CASE rotatedAt' = rotatedAt
      BY <1>2, <3>1 DEF Draining, DrainElapsed
    <3>2. CASE rotatedAt' # rotatedAt /\ rotatedAt = DrainPolls
      BY <1>7, <3>2 DEF Poll
    <3>3. CASE rotatedAt' # rotatedAt /\ rotatedAt # DrainPolls
      <4>1. rotatedAt \in 1..DrainPolls /\ rotatedAt' = rotatedAt + 1
        BY <1>7, <3>3 DEF Poll
      <4> QED BY <1>3, <3>3, <4>1 DEF DrainElapsed
    <3> QED BY <3>1, <3>2, <3>3
  <2>3. rotatedAt' > 0 => rotatedAt > 0
    BY <1>3, <2>1
  <2> QED BY <1>1, <1>2, <1>4, <2>1, <2>2, <2>3 DEF Draining
<1> QED BY <1>5, <1>6, <1>7

(* The drained file is left for the one that follows it.                      *)
LEMMA ReopenInStep ==
    ASSUME FollowerInv, LogInSteps, BufferInFile, PendingInFile, Reopen,
           NEW n \in Nat, ReaderInStep(n)
    PROVE  path # NoFile /\ ReaderInStep(n)'
<1>1. fpc = "reopen" /\ inode # NoFile /\ UNCHANGED <<files, wfd, path, todo, written>>
  BY FollowerAssumption DEF Reopen, logVars, FollowerInv, FollowerTypeOK, Inodes, NoFile
<1>2. ReaderAtLine(n) /\ LeftBehind /\ Draining
  BY <1>1 DEF ReaderInStep
<1>3. /\ inode \in Inodes /\ files[inode] \in Seq(Units) /\ Len(files[inode]) \in Nat
      /\ offset \in Nat /\ Len(pendingText) \in Nat /\ offset - Len(pendingText) \in Nat
      /\ rotatedAt \in Nat /\ (DrainElapsed => rotatedAt > 0) /\ wfd \in Inodes
  BY <1>1, StepTypes
<1>4. /\ DrainElapsed /\ path # NoFile /\ path # inode /\ wfd = path
      /\ offset = Len(files[inode])
  BY <1>1, <1>2, <1>3 DEF Draining
<1>5. Len(pendingText) = 0
  <2> SUFFICES ASSUME Len(pendingText) > 0 PROVE FALSE
    BY <1>3
  <2>1. PICK f \in Seq(Units), start \in Nat, L \in Nat, t \in Nat :
            /\ f = files[inode] /\ start = offset - Len(pendingText) /\ L = Len(f)
            /\ t = Len(pendingText) /\ start + t = L /\ t > 0
    <3>1. PICK f \in Seq(Units), start \in Nat, L \in Nat, t \in Nat :
              /\ f = files[inode] /\ start = offset - Len(pendingText) /\ L = Len(f)
              /\ t = Len(pendingText)
      BY <1>3
    <3>2. start = L - t /\ t > 0
      BY <1>4, <3>1
    <3> QED BY <3>1, <3>2
  <2>2. PICK s \in Nat : s = start + 1
    OBVIOUS
  <2>3. s \in 1..L /\ s <= L
    BY <2>1, <2>2
  <2>4. /\ \A i \in 1..t : f[start + i] # NL
        /\ start = 0 \/ f[start] = NL
    <3>1. /\ \A i \in 1..Len(pendingText) : /\ pendingText[i] = f[offset - Len(pendingText) + i]
                                            /\ pendingText[i] # NL
          /\ offset = Len(pendingText) \/ f[offset - Len(pendingText)] = NL
      BY <1>1, <2>1 DEF PendingInFile
    <3>2. offset = Len(pendingText) => start = 0
      BY <1>3, <2>1
    <3> QED BY <2>1, <3>1, <3>2
  <2>5. \A c \in s..L : f[c] # NL
    <3> SUFFICES ASSUME NEW c \in s..L PROVE f[c] # NL
      OBVIOUS
    <3>1. PICK i \in 1..t : c = start + i
      <4>1. c - start \in 1..t /\ c = start + (c - start)
        BY <2>1, <2>2
      <4> QED BY <4>1
    <3> QED BY <2>4, <3>1
  <2>6. StartsLine(f, s)
    <3>1. s - 1 = start /\ (start = 0 => s = 1)
      BY <2>2
    <3> QED BY <2>4, <3>1 DEF StartsLine
  <2>7. LineAt(f, s)
    BY <1>3, <2>1, <2>3, <2>6 DEF LogInSteps, FileInSteps
  <2>8. PICK b \in Nat \ {0} : b = Len(Body(f[s]))
    BY BodyShape
  <2>9. s + b <= L => f[s + b] = NL
    BY <2>1, <2>7, <2>8 DEF LineAt
  <2>10. s + b > L
    <3> SUFFICES ASSUME s + b <= L PROVE FALSE
      BY <2>8
    <3>1. s + b \in s..L
      OBVIOUS
    <3> QED BY <2>5, <2>9, <3>1
  <2>11. s + b = L
    <3>1. s + Len(Body(f[s])) >= Len(f) /\ s \in 1..Len(f)
      BY <2>1, <2>3, <2>8, <2>10
    <3> QED BY <1>2, <1>4, <2>1, <2>6, <2>8, <3>1 DEF LeftBehind
  <2> QED BY <2>10, <2>11
<1>6. FirstLine = n
  BY <1>2, <1>3, <1>4, <1>5 DEF ReaderAtLine
<1>7. /\ inode' = path /\ offset' = 0 /\ Len(pendingText') = 0 /\ rotatedAt' = 0 /\ fpc' = "read"
  BY <1>1, <1>4, EmptySeq
  DEF Reopen, OpenFails, openMailLog, FreshLocals, Resumable, NoCheckpoint
<1>8. files[wfd] \in Seq(Units) /\ Len(files[wfd]) \in Nat
  BY <1>3, LenProperties DEF FollowerInv, FollowerTypeOK
<1>9. ReaderAtLine(n)'
  <2>1. offset' - Len(pendingText') = 0 /\ files'[inode'] = files[wfd] /\ inode' = wfd'
    BY <1>1, <1>4, <1>7
  <2>2. 0 < Len(files[wfd]) => files[wfd][0 + 1] = n
    BY <1>6, EmptySeq DEF FirstLine
  <2>3. 0 = Len(files[wfd]) => todo = <<>> /\ written + 1 = n
    BY <1>6, <1>8, EmptySeq DEF FirstLine, LogInSteps
  <2> QED BY <1>1, <2>1, <2>2, <2>3 DEF ReaderAtLine
<1>10. LeftBehind'
  BY <1>1, <1>4, <1>7 DEF LeftBehind
<1>11. Draining'
  <2>1. ~DrainElapsed' /\ ~(rotatedAt' > 0)
    BY <1>7, FollowerAssumption DEF DrainElapsed
  <2> QED BY <1>1, <1>4, <1>7, <2>1 DEF Draining
<1> QED BY <1>4, <1>9, <1>10, <1>11 DEF ReaderInStep

(* A run opens the only file there has been, at its start when nothing was    *)
(* taken over, else behind the last record that was.                          *)
LEMMA OpenInStep ==
    ASSUME FollowerInv, LogOrder, LogInSteps, NEW ck \in Checkpoint, openMailLog(ck),
           path # NoFile, lastInode = 1, UNCHANGED <<files, wfd, path, todo, written>>,
           NEW n \in Nat,
           \/ n = 0 /\ ck = NoCheckpoint
           \/ \E r \in lineRecord : /\ WholeLine(r) /\ LineOf(r) = n /\ n # 0 /\ r.Inode = 1
                                    /\ ck.inode = r.Inode /\ ck.offset = r.Offset
    PROVE  ReaderInStep(n + 1)'
<1>1. path = 1 /\ wfd = 1 /\ 1 \in Inodes /\ written \in Nat
  BY FollowerAssumption DEF LogOrder, FollowerInv, FollowerTypeOK, Inodes, NoFile
<1>2. PICK f \in Seq(Units), L \in Nat : f = files[1] /\ L = Len(f)
  BY <1>1, LenProperties DEF FollowerInv, FollowerTypeOK
<1>3. /\ inode' = 1 /\ Len(pendingText') = 0 /\ rotatedAt' = 0 /\ fpc' = "read"
      /\ offset' = IF Resumable(ck) THEN ck.offset ELSE 0
  BY <1>1, EmptySeq DEF openMailLog, FreshLocals
<1>4. /\ offset' \in Nat /\ (offset' < L => f[offset' + 1] = n + 1)
      /\ offset' = L => todo = <<>> /\ written + 1 = n + 1
  <2>1. CASE n = 0 /\ ck = NoCheckpoint
    <3>1. offset' = 0
      BY <1>3, <2>1 DEF Resumable, NoCheckpoint
    <3>2. FirstLine = 1
      BY DEF LogInSteps
    <3>3. CASE f = <<>>
      <4>1. L = 0 /\ todo = <<>> /\ written + 1 = 1
        BY <1>1, <1>2, <3>2, <3>3, EmptySeq DEF FirstLine, LogInSteps
      <4> QED BY <2>1, <3>1, <4>1
    <3>4. CASE f # <<>>
      <4>1. L # 0 /\ f[1] = 1
        BY <1>1, <1>2, <3>2, <3>4, EmptySeq DEF FirstLine
      <4> QED BY <2>1, <3>1, <4>1
    <3> QED BY <3>3, <3>4
  <2>2. CASE \E r \in lineRecord : /\ WholeLine(r) /\ LineOf(r) = n /\ n # 0 /\ r.Inode = 1
                                   /\ ck.inode = r.Inode /\ ck.offset = r.Offset
    <3>1. PICK r \in lineRecord : /\ WholeLine(r) /\ LineOf(r) = n /\ n # 0 /\ r.Inode = 1
                                  /\ ck.inode = r.Inode /\ ck.offset = r.Offset
      BY <2>2
    <3>2. PICK o \in Nat, t \in Nat, s \in Int : o = r.Offset /\ t = Len(r.Text) /\ s = o - t
      <4>1. r.Offset \in Nat /\ Len(r.Text) \in Nat
        BY LenProperties DEF lineRecord
      <4> QED BY <4>1
    <3>3. /\ r.Text \in Seq(Units) /\ r.Text = Body(n) /\ n \in 1..MaxLines
          /\ 1 \in 1..Len(r.Text) /\ r.Text[1] = n
      BY <3>1, LineOfText DEF lineRecord
    <3>4. /\ o \in 1..L /\ f[o] = NL /\ s >= 1 /\ r.Text = SubSeq(f, s, o - 1)
          /\ s = 1 \/ f[s - 1] = NL
      BY <1>2, <3>1, <3>2 DEF WholeLine
    <3>5. s \in Nat \ {0} /\ o - 1 \in Nat /\ s <= o - 1 /\ o - 1 <= L /\ s \in 1..L
      <4>1. t >= 1 /\ o \in 1..L /\ s >= 1 /\ s = o - t
        BY <3>2, <3>3, <3>4
      <4> QED BY <4>1
    <3>6. f[s] = n
      <4>1. PICK hi \in Nat : hi = o - 1
        BY <3>5
      <4>2. \A q \in 1..(hi - s + 1) : SubSeq(f, s, hi)[q] = f[s - 1 + q]
        BY <1>2, <3>5, <4>1, PartProperties
      <4>3. 1 \in 1..(hi - s + 1) /\ s - 1 + 1 = s
        BY <3>5, <4>1
      <4> QED BY <3>3, <3>4, <4>1, <4>2, <4>3
    <3>7. StartsLine(f, s) /\ LineAt(f, s)
      BY <1>1, <1>2, <3>4, <3>5 DEF StartsLine, LogInSteps, FileInSteps
    <3>8. o = s + Len(Body(n))
      BY <3>2, <3>3
    <3>9. offset' = o
      BY <1>1, <1>2, <1>3, <3>1, <3>2, <3>4 DEF Resumable
    <3>10. o < L => f[o + 1] = n + 1
      BY <1>2, <3>6, <3>7, <3>8 DEF LineAt
    <3>11. o = L => todo = <<>> /\ written = n
      <4> SUFFICES ASSUME o = L PROVE todo = <<>> /\ written = n
        OBVIOUS
      <4>1. /\ s \in 1..Len(files[wfd]) /\ StartsLine(files[wfd], s) /\ files[wfd][s] = n
            /\ s + Len(Body(files[wfd][s])) = L /\ Len(files[wfd]) = L
        BY <1>1, <1>2, <3>5, <3>6, <3>7, <3>8
      <4>2. /\ files[wfd][s] = written
            /\ s + Len(Body(files[wfd][s])) = Len(files[wfd]) + Len(todo)
        <5>1. s + Len(Body(files[wfd][s])) >= Len(files[wfd])
          BY <4>1
        <5> QED BY <4>1, <5>1, LastLine
      <4>3. todo \in Seq(Units) /\ Len(todo) \in Nat
        BY LenProperties DEF FollowerInv, FollowerTypeOK
      <4>4. Len(todo) = 0
        BY <4>1, <4>2, <4>3
      <4> QED BY <4>1, <4>2, <4>3, <4>4, EmptySeq
    <3> QED BY <3>9, <3>10, <3>11
  <2> QED BY <2>1, <2>2
<1>5. ReaderAtLine(n + 1)'
  <2>1. offset' - Len(pendingText') = offset' /\ files'[inode'] = f /\ inode' = wfd'
    BY <1>1, <1>2, <1>3, <1>4
  <2> QED BY <1>2, <1>4, <2>1 DEF ReaderAtLine
<1>6. LeftBehind'
  BY <1>1, <1>3 DEF LeftBehind
<1>7. Draining'
  <2>1. ~DrainElapsed' /\ ~(rotatedAt' > 0)
    BY <1>3, FollowerAssumption DEF DrainElapsed
  <2> QED BY <1>1, <1>3, <2>1 DEF Draining
<1> QED BY <1>5, <1>6, <1>7 DEF ReaderInStep
=============================================================================
