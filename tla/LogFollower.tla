---------------------------- MODULE LogFollower ----------------------------
(* The goroutine that follows a log file: followMailLog, openMailLog and     *)
(* reopenMailLog (stream.go).  It is shared by the mail and the nginx        *)
(* ingestors.  The file system side (a syslog daemon that writes lines, a    *)
(* logrotate that renames, creates or truncates) is the environment.         *)
(*                                                                           *)
(* Files are sequences of units: the k-th line the daemon writes is Body(k)  *)
(* followed by NL, and an offset counts units as the code counts bytes.      *)
EXTENDS Naturals, Sequences

CONSTANTS
    MaxLines,         \* bound: lines the daemon ever writes
    LongLines,        \* the lines of two units; the others have one
    MaxInode,         \* bound: files under the log's path, plus truncations
    MaxTruncations,   \* bound: copytruncate rotations among them
    MaxFaults,        \* bound: I/O errors and crashes
    DrainPolls,       \* RotationDrainTimeout in units of PollInterval
    ChanCap,          \* capacity of the records channel (1024 in the code)
    PartialWrites     \* may a reader see an unfinished line?

ASSUME FollowerAssumption ==
    /\ MaxLines \in Nat /\ MaxTruncations \in Nat /\ MaxFaults \in Nat
    /\ MaxInode \in Nat \ {0} /\ DrainPolls \in Nat \ {0} /\ ChanCap \in Nat \ {0}
    /\ LongLines \subseteq 1..MaxLines
    /\ PartialWrites \in BOOLEAN

VARIABLES
    files,        \* inode -> contents
    path,         \* the inode the log's path names, or NoFile
    lastInode,    \* the last inode created
    wfd,          \* the inode the daemon has open
    todo,         \* what is left to write of the line being written
    written,      \* number of lines whose writing has begun
    truncations,  \* copytruncate rotations so far
    orderly,      \* does logrotate wait for the drain of the last rotation?
    faults,       \* injected faults so far
    fpc,          \* where followMailLog is
    inode,        \* local: inode of the open descriptor
    offset,       \* local: position after what ReadString returned
    buffered,     \* what bufio.Reader has read ahead
    pendingText,  \* local pending: the unfinished line
    rotatedAt,    \* local: 0 is the zero time, else 1 + polls since it was set
    cut,          \* the records cut in this run; sequence is Len(cut)
    interrupted,  \* history: has a run ended after a rotation began?
    records       \* the channel to the parser workers

logVars == <<files, path, lastInode, wfd, todo, written, truncations, orderly>>
followVars == <<fpc, inode, offset, buffered, pendingText, rotatedAt, cut, interrupted>>

NoFile == 0
NL == 0
Units == 0..MaxLines
Inodes == 1..MaxInode
Body(l) == IF l \in LongLines THEN <<l, l>> ELSE <<l>>
Checkpoint == [inode : 0..MaxInode, offset : Nat]
NoCheckpoint == [inode |-> 0, offset |-> 0]
lineRecord == [Sequence : Nat, Text : Seq(Units), Inode : Inodes, Offset : Nat]

sequence == Len(cut)
HasNL(s) == \E i \in 1..Len(s) : s[i] = NL
FirstNL(s) == CHOOSE i \in 1..Len(s) : s[i] = NL /\ \A j \in 1..(i-1) : s[j] # NL

(* Lines the daemon has finished.                                            *)
Completed == IF todo = <<>> THEN written ELSE written - 1

----------------------------------------------------------------------------
(* The environment: the syslog daemon and logrotate.                         *)

(* The daemon appends to the file it has open: the rest of its line, or, when *)
(* a reader may see unfinished lines, any first part of it.                   *)
Write ==
    /\ todo # <<>> \/ written < MaxLines
    /\ LET rest == IF todo # <<>> THEN todo ELSE Body(written + 1) \o <<NL>>
       IN \E k \in 1..Len(rest) :
            /\ PartialWrites \/ k = Len(rest)
            /\ files' = [files EXCEPT ![wfd] = @ \o SubSeq(rest, 1, k)]
            /\ todo' = SubSeq(rest, k + 1, Len(rest))
    /\ written' = IF todo = <<>> THEN written + 1 ELSE written
    /\ UNCHANGED <<path, lastInode, wfd, truncations, orderly,
                   faults, followVars, records>>

(* logrotate moves the file away; the daemon goes on writing to it.  An       *)
(* orderly logrotate runs only when the last rotation is over and the         *)
(* follower is running and has moved to the current file.                     *)
Rename ==
    /\ path # NoFile /\ lastInode + truncations < MaxInode
    /\ orderly => wfd = path /\ inode = path /\ fpc \notin {"off", "failed"}
    /\ path' = NoFile
    /\ UNCHANGED <<files, lastInode, wfd, todo, written, truncations, orderly,
                   faults, followVars, records>>

(* logrotate creates the new file.                                            *)
Create ==
    /\ path = NoFile
    /\ lastInode' = lastInode + 1
    /\ path' = lastInode + 1
    /\ UNCHANGED <<files, wfd, todo, written, truncations, orderly,
                   faults, followVars, records>>

(* The daemon, told of the rotation, opens the new file between two lines.    *)
WriterReopen ==
    /\ path # NoFile /\ wfd # path /\ todo = <<>>
    /\ wfd' = path
    /\ UNCHANGED <<files, path, lastInode, todo, written, truncations, orderly,
                   faults, followVars, records>>

(* copytruncate: the file is emptied in place; the daemon appends at 0.       *)
Truncate ==
    /\ truncations < MaxTruncations /\ lastInode + truncations < MaxInode
    /\ path # NoFile /\ wfd = path /\ files[path] # <<>>
    /\ files' = [files EXCEPT ![path] = <<>>]
    /\ truncations' = truncations + 1
    /\ UNCHANGED <<path, lastInode, wfd, todo, written, orderly, faults, followVars, records>>

Environment == Write \/ Rename \/ Create \/ WriterReopen \/ Truncate

----------------------------------------------------------------------------
(* The follower.                                                              *)

(* openMailLog: a missing file is an error; a checkpoint is used only for the *)
(* inode it was taken on and only when the file is at least that long.        *)
OpenNeverFails == FALSE                                          \* mutant
OpenFails == path = NoFile

Resumable(ck) == ck.inode # 0 /\ ck.inode = path /\ ck.offset <= Len(files[path])

(* followMailLog's other locals, new or reset with the descriptor.            *)
PendingKept == rotatedAt' = 0 /\ UNCHANGED pendingText           \* mutant
FreshLocals == rotatedAt' = 0 /\ pendingText' = <<>>

openMailLog(ck) ==
    /\ inode' = path
    /\ offset' = IF Resumable(ck) THEN ck.offset ELSE 0
    /\ buffered' = <<>>
    /\ FreshLocals
    /\ fpc' = "read"
    /\ UNCHANGED interrupted

Fail ==
    /\ fpc' = "failed"
    /\ UNCHANGED <<inode, offset, buffered, pendingText, rotatedAt, cut, interrupted>>

(* followMailLog starts from the checkpoint.                                  *)
FollowOpen(ck) ==
    /\ fpc = "off"
    /\ IF OpenFails THEN Fail ELSE openMailLog(ck) /\ UNCHANGED cut
    /\ UNCHANGED <<logVars, faults, records>>

(* What ReadString can see: bufio looks in its buffer first, and reads the    *)
(* file from its own position only when the buffer holds no newline.          *)
Available ==
    LET position == offset + Len(buffered)
    IN IF HasNL(buffered) THEN buffered
       ELSE buffered \o SubSeq(files[inode], position + 1, Len(files[inode]))

(* ReadString returns a chunk that ends a line: a record is cut, and sent.    *)
ReadLine ==
    /\ fpc = "read" /\ HasNL(Available)
    /\ LET n == FirstNL(Available)
       IN /\ offset' = offset + n
          /\ buffered' = SubSeq(Available, n + 1, Len(Available))
          /\ cut' = Append(cut, [Sequence |-> sequence,
                                 Text |-> pendingText \o SubSeq(Available, 1, n - 1),
                                 Inode |-> inode, Offset |-> offset + n])
    /\ pendingText' = <<>>
    /\ fpc' = "send"
    /\ UNCHANGED <<inode, rotatedAt, interrupted, logVars, faults, records>>

(* ReadString hits the end of the file: the chunk is kept as pending.         *)
Carried(chunk) == pendingText \o chunk

ReadEOF ==
    /\ fpc = "read" /\ ~HasNL(Available)
    /\ offset' = offset + Len(Available)
    /\ pendingText' = Carried(Available)
    /\ buffered' = <<>>
    /\ fpc' = "check"
    /\ UNCHANGED <<inode, rotatedAt, cut, interrupted, logVars, faults, records>>

(* output <- record, blocking while the channel is full.                      *)
SendRecord ==
    /\ fpc = "send" /\ Len(records) < ChanCap
    /\ records' = Append(records, cut[sequence])
    /\ fpc' = "read"
    /\ UNCHANGED <<inode, offset, buffered, pendingText, rotatedAt, cut, interrupted,
                   logVars, faults>>

(* The switch on the two stats.  A file shorter than the offset was           *)
(* truncated; another inode under the path is a rotation, left only once the  *)
(* drain timeout has passed since it was first seen.                          *)
Truncated == path = inode /\ Len(files[inode]) < offset

RotatedIfShorter ==                                              \* mutant
    path # NoFile /\ path # inode /\ Len(files[path]) < offset
Rotated == path # NoFile /\ path # inode

DrainElapsed == rotatedAt > DrainPolls

CheckRotation ==
    /\ fpc = "check"
    /\ \/ /\ Truncated \/ (Rotated /\ DrainElapsed)
          /\ fpc' = "reopen" /\ UNCHANGED rotatedAt
       \/ /\ ~Truncated /\ Rotated /\ ~DrainElapsed
          /\ rotatedAt' = IF rotatedAt = 0 THEN 1 ELSE rotatedAt
          /\ fpc' = "poll"
       \/ /\ ~Truncated /\ ~Rotated
          /\ rotatedAt' = 0 /\ fpc' = "poll"
    /\ UNCHANGED <<inode, offset, buffered, pendingText, cut, interrupted,
                   logVars, faults, records>>

(* reopenMailLog: whatever the path now names, from its start; the            *)
(* unfinished line of the old file is dropped.                                *)
Reopen ==
    /\ fpc = "reopen"
    /\ IF OpenFails THEN Fail ELSE openMailLog(NoCheckpoint) /\ UNCHANGED cut
    /\ UNCHANGED <<logVars, faults, records>>

(* time.After(PollInterval).  In an orderly rotation the daemon has reopened  *)
(* its log before the drain timeout is over.                                  *)
Poll ==
    /\ fpc = "poll"
    /\ fpc' = "read"
    /\ rotatedAt' =
         IF rotatedAt \in 1..DrainPolls
            /\ (rotatedAt = DrainPolls /\ orderly => wfd = path)
         THEN rotatedAt + 1 ELSE rotatedAt
    /\ UNCHANGED <<inode, offset, buffered, pendingText, cut, interrupted,
                   logVars, faults, records>>

(* A read, stat or open fails: followMailLog returns the error.               *)
FollowError ==
    /\ fpc \in {"read", "check", "reopen"} /\ faults < MaxFaults
    /\ faults' = faults + 1
    /\ Fail
    /\ UNCHANGED <<logVars, records>>

(* The run that started the follower is over: the next one starts another.    *)
(* The history notes whether a rotation had begun by then.                    *)
FollowerLeaks == UNCHANGED followVars                            \* mutant
StopFollower ==
    /\ fpc' = "off" /\ inode' = NoFile /\ offset' = 0 /\ rotatedAt' = 0
    /\ buffered' = <<>> /\ pendingText' = <<>> /\ cut' = <<>>
    /\ interrupted' = (interrupted \/ path = NoFile \/ lastInode > 1)

FollowStep ==
    ReadLine \/ ReadEOF \/ SendRecord \/ CheckRotation \/ Reopen \/ Poll

----------------------------------------------------------------------------
LogInit ==
    /\ files = [i \in Inodes |-> <<>>]
    /\ path = 1 /\ lastInode = 1 /\ wfd = 1
    /\ todo = <<>> /\ written = 0 /\ truncations = 0 /\ faults = 0
    /\ orderly \in BOOLEAN

FollowInit ==
    /\ fpc = "off" /\ inode = NoFile /\ offset = 0 /\ rotatedAt = 0
    /\ buffered = <<>> /\ pendingText = <<>> /\ cut = <<>>
    /\ interrupted = FALSE

FollowerInit == LogInit /\ FollowInit /\ records = <<>>

followerVars == <<logVars, faults, followVars, records>>

(* The line a record holds, 0 when it holds no whole one.                     *)
LineOf(r) ==
    IF \E l \in 1..MaxLines : r.Text = Body(l)
    THEN CHOOSE l \in 1..MaxLines : r.Text = Body(l) ELSE 0

(* What can lose lines: a logrotate that does not wait for the follower, a    *)
(* truncation, and a run that ends, for whatever reason, after a rotation.    *)
MayLose == ~orderly \/ truncations > 0 \/ interrupted

----------------------------------------------------------------------------
(* Properties.                                                               *)

(* Types, and that a running follower has a file open: followMailLog reads     *)
(* and stats a descriptor only after an open that succeeded.                   *)
FollowerTypeOK ==
    /\ files \in [Inodes -> Seq(Units)]
    /\ path \in 0..MaxInode /\ lastInode \in Inodes /\ wfd \in Inodes
    /\ todo \in Seq(Units) /\ written \in 0..MaxLines
    /\ truncations \in 0..MaxTruncations /\ faults \in 0..MaxFaults /\ orderly \in BOOLEAN
    /\ fpc \in {"off", "read", "send", "check", "reopen", "poll", "failed"}
    /\ inode \in 0..MaxInode /\ offset \in Nat
    /\ (fpc \in {"read", "send", "check", "reopen", "poll"} => inode \in Inodes)
    /\ buffered \in Seq(Units) /\ pendingText \in Seq(Units)
    /\ rotatedAt \in 0..(DrainPolls + 1)
    /\ cut \in Seq(lineRecord) /\ records \in Seq(lineRecord)
    /\ (fpc = "send" => cut # <<>>) /\ interrupted \in BOOLEAN

(* Every record ends at a line's end in the file it names, and its text is    *)
(* that whole line: the bytes back to the previous newline.  This is what     *)
(* makes Offset a position to resume from.  However rotations fall, as long    *)
(* as no file is truncated.                                                   *)
WholeLine(r) ==
    LET f == files[r.Inode]
        start == r.Offset - Len(r.Text)
    IN /\ r.Offset \in 1..Len(f) /\ f[r.Offset] = NL /\ start >= 1
       /\ r.Text = SubSeq(f, start, r.Offset - 1) /\ ~HasNL(r.Text)
       /\ start = 1 \/ f[start - 1] = NL
RecordsAreWholeLines == truncations = 0 => \A k \in 1..Len(cut) : WholeLine(cut[k])
=============================================================================
