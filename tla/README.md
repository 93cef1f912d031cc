# kanyigo: verification project

TLA+ models of the logs dashboard: a Go service that follows a mail log and an
nginx access log into PostgreSQL, stitches mail transactions, detects brute
force, blocks addresses through a root agent, and serves a dashboard to
signed-in users. The modules are checked with TLC on small instances; every
safety and action property that a passing run checks is also proved with TLAPS
for every instance, and so are the steps of both pipelines as steps of the
`LineFeed` they promise. Liveness is left to TLC.

## The system: inventory

| Component | Source | State | Operations | Interaction |
|---|---|---|---|---|
| log follower | `stream.go` | descriptor, inode, offset, bufio buffer, pending line, `rotatedAt`, sequence | open, read line, hit EOF, stat twice, drain, reopen, poll | reads what a daemon writes and logrotate renames or truncates; sends `lineRecord`s on a channel |
| mail ingest pipeline | `continuous_ingest.go`, `main.go`, `ingest.go` | two channels, workers, `pending`, `nextSequence`; durable `ingest_state`, `maillog_entries` | follow, parse, collect, drain, commit, fail, retry | follower -> workers -> collector -> one transaction per line |
| transaction stitching | `stream.go`, `continuous_ingest.go` | durable `mail_transactions`; in-memory `queues`; stdout | merge, apply, evict in memory, evict in the table | run by the collector after each commit and on a ticker |
| nginx ingest loop | `nginx_security.go`, `main.go` | one channel; durable `ingest_state` | follow, parse, persist, fail, retry | follower -> loop -> one transaction per line |
| nginx detection | `nginx_security.go`, `security.go` | `nginx_security_events`, `nginx_ip_detection_state`, `security_offenders` | persist an event, count a streak, reset it, count failures, flag, dismiss | one transaction per log line, with the checkpoint |
| firewall | `security.go`, `firewall_client.go`, `cmd/firewall-agent` | row of `firewall_blocks`, audit log; the kernel's ipset and DROP rule | block, unblock, record, expire; start, stop, ensure the rule | handler -> Unix socket -> agent -> ipset, then handler -> database |
| accounts and sessions | `auth.go`, `main.go` | `dashboard_users`, `dashboard_sessions`, the browser's cookie | upgrade the schema, bootstrap, login, logout, authenticate, create user | replicas share the database, tabs share the cookie |
| parsers | `parser.go`, `nginx_security.go` | none | text to entry | called by workers and by the nginx loop |
| query API | `server.go` | none of its own | count and page `mail_transactions` | behind `requireAuth`, while the ingestor writes |
| frontend | `frontend/` | React state | load, abort, page, filter, sign in and out | through stateless proxy routes |

What is hard here: workers that finish out of order; a file that is renamed,
recreated or truncated while it is read; runs that end at any statement and
start again from a checkpoint; two copies of the open mail transactions with
different clocks and different lifetimes; kernel and database states that no
transaction spans; clients that give up while the agent goes on; replicas and
tabs that race; answers that overtake each other; stamps without a year and
addresses that others report. `PROJECT.json` lists each hazard at its line.

What makes each part correct:

- follower: records are whole lines, in order, once, and every finished line;
- pipeline: the same of commits, through faults (`LineFeed`), and a checkpoint
  that is the end of a line and only moves forward;
- stitching: the rows of a Queue ID partition its lines, at most one is active,
  closed rows are final, only idle ones time out, all close, stdout repeats
  nothing;
- nginx loop: the same `LineFeed`, so that detection counts each line once;
- detection: nobody is flagged without cause, bursts do not escape;
- firewall: what is shown is enforced, what is enforced is shown, timed blocks
  end, commands are audited;
- sessions: a logout is final, a cookie is good until it expires or is logged
  out, only administrators add accounts, replicas come up;
- query API and table: what is shown is the answer to what was asked last, and
  paging through it misses nothing;
- parsers: what is read back is what was meant.

## Modules

**LogFollower** (`stream.go` 206-318). Files are sequences of units: the k-th
line is `Body(k)`, one unit or two, and a newline; an offset counts units.
`Write`, `Rename`, `Create`, `WriterReopen` and `Truncate` are the daemon and
logrotate. `ReadLine` and `ReadEOF` are the two results of `ReadString`
(`Available` is what bufio can see), `SendRecord` the channel send,
`CheckRotation` the switch on the two stats, `Reopen` and `FollowOpen` the
opens, `Poll` the wait. `fpc` is the place in the loop. The two stats of one
iteration are one step. `orderly`, chosen in the initial state and never
changed, says whether logrotate waits for the daemon and the follower, which is
what the drain timeout presumes; both cases are in every run. `MayLose` says
what can lose lines; the history variable `interrupted` records for it that a
run has ended after a rotation began.

**MailIngest** extends LogFollower with the pipeline. `Start` is one turn of the
retry loop, `TakeRecord`/`PutParsed` a worker, `Collect`/`Commit`/`DrainDone` the
collector's select and inner loop, `persistMailLogRecord` the transaction.
A run ends by `Crash` (a crash or a statement that rolls back),
`CommitThenFail` (durable, but the answer or stdout fails), `CommitRefused` (a
row PostgreSQL never accepts) or `FollowErrorReported`; `Stop` drops all that
was in memory. `cut`, `committed` and `base` are history.

**LineFeed** is the promise: lines are appended to a log and ingested once each,
in order; and each of them eventually, up to the first that is refused and
unless lines may have been lost (`lossy`). Skipping a line is a step of it only
while `lossy`. `MailIngest!ImplementsLineFeed` and
`NginxIngest!NginxImplementsLineFeed` map the number of finished lines to
`written`, the lines of the committed records to `ingested` and `MayLose` to
`lossy`: a rotation that does not wait, a truncation, or a run that ends after
a rotation began (in this order; a fault before the rotation loses nothing).

**FollowerProofs** (lemmas about the follower, for both pipelines),
**MailIngestProofs**, **NginxProofs** (detection and the loop before it),
**StitcherProofs**, **FirewallProofs**, **SessionProofs**, **DashboardProofs** and
**InputProofs** hold the theorems (see Proofs).

**MailStitcher** (`mergeMailTransaction`, `evictExpiredTransactions`,
`TransactionStitcher`). A line has a Queue ID and a kind; of the merged fields
the status and the raw lines are kept, since the others are merged by the same
rule and decide nothing. Ages replace timestamps. `tick` is the tick waiting in
the ticker's channel, whose time may be old when it is taken.

**NginxDetection** (`persistNginxEvent`, `updateNginxDetection`,
`flagSecurityOffender`, `handleSecurityDismiss`). 401 stands for 401 and 403,
200 for every other status. An event is applied once: a failed transaction
leaves nothing and is repeated.

**NginxIngest** extends LogFollower and NginxDetection with
`RunNginxSecurityIngestor` and its retry loop: `Persist` is the whole handling of
a record, detection and checkpoint in one transaction. A run ends by `Fails`,
`PersistThenFail` (durable, answer lost), `PersistRefused` (a row PostgreSQL
never accepts, so that the next run ends at the same line) or `FollowErrorSeen`.
The follower of a
failed run is not cancelled by the code; it fills the channel nobody reads and
blocks, and is left out. All lines come from one client and carry one time;
times and addresses are NginxDetection's own run.

**Firewall** (`handleSecurityBlock`, `FirewallClient.request`, the agent,
`recordFirewallResult`, `handleSecurity`). One address; what is left of a block
stands for expiry times; the agent's goroutine of a request lives on when the
client has timed out. `rule` and `up` are the host: the DROP rule, which
`ensureFirewall` restores at the agent's start and at each status request, and
the agent itself. An agent that stops takes its goroutines with it: those that
have not run their command never will, and of those that have, any may go
without an answer (`Answering`), so that the handler is told of a failure that
was none. The expiry of a row that is not active is not kept: nothing acts on
it. `faults` is the set of faults so far, each at most once;
`overlapped` records whether two requests ever ran at the same time.

**Sessions** (`ensureColumns`, `EnsureBootstrapAdmin`, `handleLogin`,
`handleLogout`, `requireAuth`, `handleUsers`). Every statement is a step. A
replica goes from reading the columns through adding the missing ones and the
bootstrap to serving, and starts again when a statement fails. A request carries
the cookie of the moment it is sent; an answer sets the cookie of the moment it
arrives.

**Dashboard** (`handleLogs`, and the logs table of `page.tsx`). `CountRows` and
`SelectPage` are the two statements, `InsertRow` and `UpdateRow` the ingestor
between them. `Effect` is the React effect: the clean-up that aborts the load
before, and the new load. `Answer`, `AnswerError` and `AbortSettles` are the
three ways its promise ends, the last with the `finally` that runs for aborted
loads too. A row is its arrival time and its status; the status filter stands
for every filter on a field that an update changes. `walk` is history: the pages
shown one after the other under one filter, from the first.

**Inputs** (`ParseLine`, `inferLegacyTimestamp`, `ParseNginxLine`,
`forwardedClientIP`, `clientIP`, `validateBlockTarget`). No state of the program:
an input is a fact, what another program writes of it is a definition marked
external (`Written`, `Logged`; `Headers` is half the frontend's route, half
the proxies), and one step reads it back. A block request may carry either
address header from its sender, and an address `net.ParseIP` does not read. So
the
reference definition of a parser is the fact itself. Texts are records of what
they say; time is counted in half-days, which is fine enough to tell dates apart
and coarse enough for every day of three years.

Definitions marked `\* mutant` are faulty variants of the definition that
follows them. No specification uses them; `PROJECT.json` names, for each
property, the variant that violates it, which shows that the property can fail.

## Runs

Passing:

| Run | Shows | Bounds and why they suffice |
|---|---|---|
| Nginx | `RecordsAreWholeLines`, `NoInventedAttempts`, `NginxImplementsLineFeed`, `ScanFlaggedInTheEnd` | 3 lines, one written in parts, over up to 3 files (two rotations, or one and a truncation), rotations that wait and that do not, a fault, and a third line whose row is refused every time, after the scan: a line on each side of each event |
| Ingest | `IngestTypeOK`, `InSourceOrder`, `NoneLost`, `CheckpointResumable`, `CheckpointAdvances`, `ImplementsLineFeed` | 2 workers and channels of 1, so that records overtake and block each other; a malformed line, a refused one after it, a rotation or a truncation, 2 faults (a retry that itself fails) |
| Stitch | `RowsHoldTheLog`, `OnlyNewestActive`, `EmittedOnce`, `ClosedRowsFrozen`, `OnlyIdleEvicted`, `EveryRowCloses`, `EveryLineEmitted` | 2 Queue IDs, 3 lines (a transaction of two and one of another Queue ID between), a restart, ticks one step late; a timeout of one step, so that "at" and "past" the timeout differ |
| Detect | `StreakIsReal`, `OffendersOffended`, `AuthBurstFlagged`, `LongScanFlagged` | 2 addresses, 4 events, 3 times in any order, thresholds 2 and windows 1: 2 * 2 - 1 fit, with one event in between, and times lie in, at the end of and past a window |
| FirewallFaults | `FirewallTypeOK`, `ActiveIsEnforced`, `ShownWhileReliable`, `EveryCommandAudited`, `TimedBlocksEnd`, `RuleReturns` | 3 requests (block, renew or unblock, block again), serial or concurrent, timeouts of two steps so that row and kernel can drift, any two of the six faults in either order |
| SessionRaces | `SessionTypeOK`, `SignedInStays`, `ReadyBeforeServing`, `LogoutIsFinal`, `EveryReplicaServes` | 2 replicas, 2 columns (none, one or both there), 2 tabs, 2 accounts, 2 sessions (one replaces the other), a failing statement, a lost answer |
| Dashboard | `ShownIsAsked`, `PageKeepsPromise`, `PagingSkipsNothing`, `Settles` | pages of 1, 2 rows and one that arrives before, between or after them or at the same time as one; 4 loads (two pages, a change of filter, one more), an error |
| Inputs | `MailLineReadBack`, `ClientNamed`, `FormatsAgree`, `NeverLockedOut` | every half-day of a leap year and its neighbours, lags 0, one and 364 half-days either way; 2 clients, 2 proxies in chains of up to 2, 2 forged entries, each combination of time fields, a path that parses or does not; two notations and an unreadable one, four ways to reach the API, one entry in either header from the sender |

Properties that hold only under a condition say so in their formula: those on
offsets and checkpoints while `truncations = 0`; the two `LineFeed` refinements
and `ScanFlaggedInTheEnd` promise every line before the first refused one unless
`MayLose`; `AuthBurstFlagged`
for an address whose events are logged in order of time; the two on row and
ipset while `Quiet` (no request under way, none overlapped, none timed out or
lost, no reboot), and `ShownWhileReliable` also while no command has failed;
`EveryLineEmitted` until a restart; `EveryCommandAudited` until a result is
lost; `RuleReturns` while the agent runs; `PagingSkipsNothing` for different
arrival times and a last page whose two statements saw the same rows;
`ClientNamed` behind proxies for the JSON format; `NeverLockedOut` for requests
whose sender `clientIP` can tell (`Recognised`: not through the frontend's route,
a readable address, no header of the sender's own before the proxies');
`FormatsAgree` lets a path that does not parse keep its query. TLC reaches states on both sides
of each condition. Some liveness properties are stated as `[]<>`: their sources
(lines, requests, loads) are bounded, so this says that all of them are dealt
with.

Violated, where the code disagrees with what the repository says of it (quoted
in `PROJECT.json`):

- **IngestRotationLoss**: a run that ends during a drain loses the rest of the
  rotated file, for the checkpoint's inode is no longer the path's
  (`stream.go:298`).
- **StitchFragments**: the line after the delivery is a transaction of its own
  (`continuous_ingest.go:200`).
- **DetectScanMissed**: a burst across the end of the anchored window is not
  flagged (`nginx_security.go:266`); `LongScanFlagged` is what does hold.
- **FirewallFailedUnblock**: a failed unblock closes the row of an address the
  kernel still blocks (`security.go:237`).

Known limits that the models show and no run is kept for:

- a file truncated and refilled to the old offset between two polls is read on
  from the middle (`stream.go:253`), so lines in it are skipped;
- a row PostgreSQL refuses every time (a size beyond its INTEGER column, text
  that is not UTF-8) ends every run at the same line, and no later line is
  stored (`continuous_ingest.go:126`; `Refused`, action `CommitRefused`);
- the access log's loop has the same end (`nginx_security.go:220`; `Refused`,
  action `PersistRefused`): a path such as `/%ff` is decoded to a byte that is
  no UTF-8 (`nginx_security.go:110`), and bytes from 0x80 in a user agent are kept
  as they are, so the INSERT (`nginx_security.go:237`) fails on every retry; no
  line behind it is applied and no scan behind it flagged;
- transactions open at a restart do not reach stdout whole, for the stitcher
  starts empty (`continuous_ingest.go:39`);
- a `DELETE` of a logout that fails is ignored and the session lives on
  (`auth.go:173`);
- a failed transaction of the nginx loop leaves its follower, blocked for good,
  with a goroutine and a descriptor (`nginx_security.go:220`);
- after a reboot the rows of permanent blocks stay active and the kernel has
  none of them (`cmd/firewall-agent/main.go:58`), and a stopped agent stays
  stopped, for its unit has no `Restart`;
- a row that arrives between the count and the page of the last page disables
  Next one page early (`server.go:139`), rows with equal arrival times may
  change places between two pages (`server.go:149`), and a filter on a field
  that changes may leave a page shorter than its total;
- `loading` turns false when an aborted load ends, although its successor is
  under way (`page.tsx:164`);
- a block request through the frontend's route carries no address headers, so
  that the check for the administrator's own address compares with the
  frontend's (`security.go:208`, `security/[...path]/route.ts:26`). Nor does the
  check hold for an address `net.ParseIP` does not read, for which it is skipped
  (`security.go:208`: a zone, a port, `unknown`), or where the client or a forward
  proxy wrote the first entry of `X-Forwarded-For`, which is the one `clientIP`
  takes (`server.go:308`);
- a path `url.ParseRequestURI` does not parse keeps its query
  (`nginx_security.go:110`), so that a query makes it another path;
- behind a proxy the combined log format names the proxy
  (`nginx_security.go:65`).

Seen while reading, outside the models: a word such as `NOQUEUE` or `warning`
before the first colon is taken for a Queue ID (`parser.go:103`); a key=value
pair in a quoted answer of a remote server replaces the line's own
(`parser.go:116`); the case `message-id` is never reached, since `\w+` matches
no hyphen (`parser.go:143`); `MAILLOG_PROCESSING_WORKERS=0` is accepted and
nothing is ever parsed (`main.go:154`).

## Fairness

Only what the code's scheduling gives. Goroutines that can take their next step
take it (the Go scheduler); a ready case of a select is taken in the end, since
select chooses at random; the retry loop has no end; tickers and clocks go on.
Of the environment it is assumed that the daemon finishes a line it began and
reopens its log after a rotation, that logrotate creates what it renamed, that
Docker restarts a process that exited, and, for the closing of expired firewall
rows and the return of the DROP rule, that somebody looks at the dashboard, since
only `handleSecurity` closes the rows and asks for the status. Nothing starts a
stopped agent. HTTP requests are served and answered, or aborted. Faults are
never required; lines, requests, rows and clicks need not come.

Deadlock is checked wherever the system has no end. The Detect, Firewall and
Dashboard runs stop when their events, requests or loads are used up, and the
Inputs run when its one input is read.

## Proofs

Every theorem holds for every value of the constants that meets the module's
assumption: natural numbers, thresholds, page sizes, capacities and the drain
timeout positive, the sets of special lines subsets of the lines. Beyond that:
Queue IDs (`StitcherAssumption`) and tabs (`SessionAssumption`) are finitely
many, nobody's account is called `NoOne`, the model's word for no account, and
there is an address for the access log to be about, and room for an event of
each of its lines (`NginxAssumption`).

Hardly any property is inductive as it stands. Each proof module states one
invariant that is, checks first with TLC that it holds, and proves it with one
lemma per action; the theorems follow from it. What the invariants add:

**FollowerProofs** knows nothing of a pipeline: it says what the log, its daemon
and logrotate do (`Environment`), what the reader does, and what that does to
any sequence of records. Three of its invariants carry both pipelines:

- `LogOrder`: the files hold the lines in the order they were written, and only
  the daemon's file may hold an unfinished one;
- `ReaderOrder`: so does what the reader has before it (`Ahead`: its pending
  line, what bufio fetched and the rest of the open file). After a truncation
  what was fetched is no longer in the file (`Stale`) but still of earlier
  lines than all the file now holds;
- `CutOrder(s)`: each record of `s` holds later lines than those before it, and
  neither the reader nor a run that resumes behind one of them (`BeforePlace`)
  can find a line of theirs again. This second part is what makes a restart
  safe; without it the invariant is not inductive.

They hold with truncations and disorderly rotations too. That no line is left
out needs files that were not truncated: `LogInSteps` says that each of them
holds line after line (`LineAt`) and the daemon's file the newest;
`ReaderInStep(n)` that the reader is at line `n` or comes to it next
(`ReaderAtLine`), that a file the daemon has left ends with the line before the
first of the daemon's (`LeftBehind`), and, for a logrotate that waits, that a
drain ends only when the daemon is in the next file and this one is read to its
end (`Draining`).

**MailIngestProofs** goes in four steps.

1. `IngestInv`: `IngestTypeCorrect` (`IngestTypeOK`), `CommitsInSourceOrder`
   (`InSourceOrder`), `NoRecordLost` (`NoneLost`). That the record the collector
   commits is `cut[nextSequence + 1]` needs `NumberedByPlace` (the k-th record
   cut has sequence k - 1) and `InFlightFromCut` (whatever is in a channel, in a
   worker or in `pending` is one of the records cut); that a worker passes on
   all it holds needs `OneEach`. The actions that end a run share `Stop`, which
   empties everything at once.
2. `SourceInv`: `RecordsWhole` (`RecordsAreWholeLines`), `ResumesBetweenLines`
   (`CheckpointResumable`), `CheckpointOnlyAdvances` (`CheckpointAdvances`). The
   reader's position, its pending text and the records cut are all cut out of
   the same file: what is pending is the part of the file from the last record's
   end to the reader's offset, without a newline in it. Files only grow while
   none is truncated, so what was the end of a line stays one. `CutInOrder`,
   `CheckpointBeforeCut` and `ReaderAhead` say that the records are cut at
   increasing positions (inode, then offset), the uncommitted ones after the
   checkpoint and none beyond the reader, which makes the checkpoint advance;
   `NamedInOrder` says that inodes are given out in order of creation, so a file
   opened later compares greater.
3. `OrderInv` (`MailOrdered`): `CutOrder` of `Taken`, the records committed by
   the runs before and those this run has cut. A run that ends shortens `Taken`
   to what was committed, and the next one resumes behind its last record
   (`CheckpointIsLast`).
4. `StepInv` (`MailInStep`): unless `MayLose`, the k-th record of `Taken` is line
   k. A run that ends lets a next one start in step: if no rotation has begun,
   the one file is still there to resume in; if one has, `interrupted` is set and
   nothing is promised any more (`RunEndsInStep`). `MailFeedsLines` follows: the
   initial state and each step of the pipeline are those of `LineFeed`
   (`FeedSafety`, the safety part of `ImplementsLineFeed`).

**NginxProofs** has the same two last steps for the access log, where `Taken` is
`applied` and what is on its way to it: `NginxInv` (`NginxOrdered`) and `StepInv`
(`NginxInStep`), hence `NginxFeedsLines` for `NginxImplementsLineFeed`; between
them `WholeInv` (`NginxRecordsWhole`, which gives `RecordsAreWholeLines` behind
this loop too). On the detection side:

- `NginxImplementsDetection`: each step of the loop is a step of NginxDetection
  or none, so that all theorems about `DetectSpec` hold behind the follower;
- `EventsAreLines`: the events of `history` are distinct finished lines, in
  their order, by an increasing map from events to lines that each transaction
  extends by the next record's line. `AccusedOfLoggedLines`
  (`NoInventedAttempts`) counts with it: the events behind a counter, which
  `DetectInv` names, are mapped one to one into the finished lines that report
  the status;
- `ScansAreFlagged`: unless lines may have been lost (a disorderly rotation, a
  truncation, a run that ends after a rotation began), `Threshold404` lines of
  404 in a row have their client flagged once the last is applied (`ScanInv`: the
  counter is at least as long as the run of 404s that ends at the last line).
  It is the safety half of `ScanFlaggedInTheEnd`, in a log of one client and one
  second, which is what NginxIngest models.

**StitcherProofs** (`StitchInv`): `RowsKeepTheLog` (`RowsHoldTheLog`),
`AtMostOneActive` (`OnlyNewestActive`), `LinesEmittedOnce` (`EmittedOnce`), and
the action properties `ClosedIsFinal` (`ClosedRowsFrozen`) and `OnlyIdleTimesOut`
(`OnlyIdleEvicted`). `RowsInv` says of the table that each persisted line is in
one row of its Queue ID and that rows come in log order; `MemoryInv` says of
the stitcher that a line is in memory, on stdout or in neither, and never in two
of these places.

**NginxProofs** on NginxDetection alone (`DetectInv`): `CounterTellsTheLog` (`StreakIsReal`),
`AccusedWithCause` (`OffendersOffended`), `AuthBurstsCaught`
(`AuthBurstFlagged`), `LongScansCaught` (`LongScanFlagged`). `RowIsCurrent`
says that the detection row tells the address's last response and where in the
log the streak it ends began. `MissesOneStreak` is why `2 * threshold - 1` is
enough: while an address is not flagged, a scan it is in is counted in full, or
began no later than the present streak and is short by less than a threshold.
When the window cuts a streak off, a scan that still fits the window began after
that streak did, so all of it was counted, and that was below the threshold.

**FirewallProofs** (`FirewallInv`): `FirewallTypesCorrect` (`FirewallTypeOK`),
`ShownBlocksAreEnforced` (`ActiveIsEnforced`), `EnforcedBlocksAreShown`
(`ShownWhileReliable`). While requests come one after the other, the row and the
kernel may differ only by what the one request under way has done and not yet
recorded, also where its handler was told of a failure because the agent stopped
before it answered.

**SessionProofs** (`SessionInv`): `SessionTypesCorrect` (`SessionTypeOK`),
`ServesOnlyWhenReady` (`ReadyBeforeServing`), `SignedInUntilLogout`
(`SignedInStays`), and the action property `LoggedOutStaysOut`
(`LogoutIsFinal`). A replica past the schema stays so because columns are never
dropped; a token is given out once, so that an answer on its way carries one
that no other login has, and one that is logged out never comes back.

**DashboardProofs** (`DashboardInv`): `LastQuestionAnswered` (`ShownIsAsked`),
`TotalsAreKept` (`PageKeepsPromise`), `NoRowSkipped` (`PagingSkipsNothing`).
Only the last load is ever under way (`LastOnly`). `Rank(L, r)` is the place of a
row among the first `L`; a page selected when there were `L` rows has the rows
whose rank is on it (`PageHasItsRows`), and ranks only grow. `WalkCovers` says
that a walk has seen every row it started with whose rank is before the next
page; it is needed of the rows there are now, and of those there were when the
page under way was selected.

**InputProofs** (the facts read back). The invariant is the property together
with `Facts`: the input is one of the facts, and it does not change. So the work
is in what one step computes.

- `MailLinesReadBack` (`MailLineReadBack`), if `MaxLag <= 364` half-days, that is
  if a line is read within 182 days of its date; beyond half a year the code
  cannot tell the year of a stamp that has none. `YearLength` says how long a
  year is, `DateStep` that the same date is 730 or 732 half-days later a year
  later, February 29 included, and `YearOfNow` that the clock's year is that of
  the date or one next to it. So of the three candidates the code compares
  one is the true date, at most 364 half-days away, and every other is at least
  730 - 364 away (`LegacyYear`). `ValueFound` and `ValueMissing` are about the
  key=value pairs.
- `ClientIsNamed` (`ClientNamed`): the entries that the trusted proxies append
  are the end of the header, and `ClientOfHeader` finds the last one before them,
  whatever the client wrote in front and however long the chain is;
  `FormatsReadAlike` (`FormatsAgree`) for every combination of fields.
- `NobodyLockedOut` (`NeverLockedOut`): `SenderRecognised` says that `clientIP`
  finds the sender of each request that meets `Recognised`, and
  `OwnAddressRefused` that such a sender is refused their own address, in each
  notation `net.ParseIP` reads, and no other that is readable and not protected.

Only model-checked, for they are liveness under fairness: `FeedLiveness`, the
last conjunct of `ImplementsLineFeed` and `NginxImplementsLineFeed` (the other
two are `MailFeedsLines` and `NginxFeedsLines`); that the lines of a scan are
applied in the end (`ScanFlaggedInTheEnd`); `EveryRowCloses`, `EveryLineEmitted`,
`EveryCommandAudited`, `TimedBlocksEnd`, `RuleReturns`, `EveryReplicaServes` and
`Settles`. The four violations are TLC's counterexamples.

## Not modelled

The regular expressions of the parsers and the fields they only copy; the text
of SQL; reading of the configuration; `CREATE ... IF NOT EXISTS`; the users and
security tabs of the frontend (`loadUsers`, `loadSecurity`, whose overlapping
answers nothing orders) and rendering; HTTP headers, CORS, password hashing and
cookie attributes; hours of daylight saving time in `inferLegacyTimestamp`.
Inode numbers are not reused by the environment: a new file under an inode the
checkpoint names would be resumed in the middle, and the code has nothing to
tell it from the old one. `LogoutIsFinal` speaks of logouts whose
`DELETE` succeeded; the failing one happens in the run too. Two concurrent
requests for one address may leave row and ipset in disagreement: the code does
not order them and no document says it does.

## Plan

Done: all modules above and the proofs listed. What could come next:

1. MailIngest composed with MailStitcher: a crash between the commit of a line
   and its `Apply`, with the checkpoint;
2. several clients and times in the access log of NginxIngest, so that
   `ScansAreFlagged` speaks of interleaved scans, as DetectInv already does;
3. the security tab (`loadSecurity`, `changeFirewallBlock`) on top of Firewall.
