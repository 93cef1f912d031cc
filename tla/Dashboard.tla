----------------------------- MODULE Dashboard -----------------------------
(* The table of mail transactions: handleLogs (server.go) answers a page of  *)
(* mail_transactions with two statements, while the ingestor goes on adding  *)
(* and updating rows, and the browser (frontend/app/page.tsx) loads a page    *)
(* whenever the user, the applied filters or the offset change, aborting the *)
(* load before it.                                                           *)
(*                                                                           *)
(* A row is its arrival time and its status; the status filter stands for    *)
(* the filters on fields that an update may change.                          *)
EXTENDS Naturals, Sequences, FiniteSets, FiniteSetsExt

CONSTANTS
    PageSize,    \* PAGE_SIZE
    Filters,     \* values of the status filter
    OldRows,     \* rows there are when the page is opened
    Arrivals,    \* arrival times of rows inserted later
    MaxRows,     \* bound: rows
    MaxLoads,    \* bound: loads ever started
    MaxErrors    \* bound: answers other than 200

AnyStatus == ""   \* the filter left empty

ASSUME DashboardAssumption ==
    /\ PageSize \in Nat \ {0} /\ Arrivals \subseteq Nat /\ AnyStatus \in Filters
    /\ OldRows \in Nat /\ MaxRows \in Nat /\ MaxLoads \in Nat /\ MaxErrors \in Nat

VARIABLES
    rows,       \* mail_transactions, by id
    signedIn,   \* is user set?
    filter,     \* appliedFilters
    offset,
    load,       \* the loads started, in order
    data,       \* the answer shown
    error,      \* is an error shown?
    loading,
    errors,     \* answers other than 200 so far
    walk        \* history: the rows of a walk through the pages

viewVars == <<signedIn, filter, offset, data, error, loading>>
dashboardVars == <<rows, viewVars, load, errors, walk>>

NoData == [n |-> 0, filter |-> AnyStatus, offset |-> 0, total |-> 0, items |-> {},
           raced |-> FALSE]
NoWalk == [filter |-> AnyStatus, start |-> {}, seen |-> {}, next |-> 0]
Fresh(f, o) == [filter |-> f, offset |-> o, at |-> "count", total |-> 0, counted |-> 0,
                present |-> {}, items |-> {}]
Ended(how) == [Fresh(AnyStatus, 0) EXCEPT !.at = how]
Waiting == {"count", "page", "answer", "failed", "expired"}

----------------------------------------------------------------------------
(* The ingestor.  Rows are never deleted and keep their arrival time.         *)
InsertRow ==
    /\ Len(rows) < MaxRows
    /\ \E a \in Arrivals : rows' = Append(rows, [arrival |-> a, status |-> "deferred"])
    /\ UNCHANGED <<viewVars, load, errors, walk>>

UpdateRow ==
    /\ \E i \in 1..Len(rows) : rows[i].status = "deferred" /\ rows' = [rows EXCEPT ![i].status = "sent"]
    /\ UNCHANGED <<viewVars, load, errors, walk>>

----------------------------------------------------------------------------
(* handleLogs.                                                                *)

Matching(f) == {i \in 1..Len(rows) : f \in {AnyStatus, rows[i].status}}

(* ORDER BY arrival_ts_utc DESC leaves the order of equal times open.         *)
Unordered(M) ==                                                  \* mutant
    {s \in [1..Cardinality(M) -> M] : \A i, j \in DOMAIN s : i < j => s[i] # s[j]}
Ordered(M) ==
    {s \in [1..Cardinality(M) -> M] :
        \A i, j \in DOMAIN s : i < j => s[i] # s[j] /\ rows[s[i]].arrival >= rows[s[j]].arrival}

OneMore(s, o) == {s[i] : i \in (o + 2)..Min({o + 1 + PageSize, Len(s)})}  \* mutant
Page(s, o) == {s[i] : i \in (o + 1)..Min({o + PageSize, Len(s)})}

(* SELECT COUNT.                                                              *)
CountRows(n) ==
    /\ load[n].at = "count"
    /\ load' = [load EXCEPT ![n].at = "page", ![n].counted = Len(rows),
                            ![n].total = Cardinality(Matching(load[n].filter))]
    /\ UNCHANGED <<rows, viewVars, errors, walk>>

(* SELECT ... LIMIT OFFSET.                                                   *)
SelectPage(n) ==
    /\ load[n].at = "page"
    /\ LET M == Matching(load[n].filter)
       IN \E s \in Ordered(M) :
            load' = [load EXCEPT ![n].at = "answer", ![n].present = M,
                                 ![n].items = Page(s, load[n].offset)]
    /\ UNCHANGED <<rows, viewVars, errors, walk>>

(* requireAuth answers 401, or a statement fails and the answer is a 500.     *)
Refuse(n) ==
    /\ errors < MaxErrors
    /\ \/ load[n].at = "count" /\ load' = [load EXCEPT ![n] = Ended("expired")]
       \/ load[n].at \in {"count", "page"} /\ load' = [load EXCEPT ![n] = Ended("failed")]
    /\ errors' = errors + 1
    /\ UNCHANGED <<rows, viewVars, walk>>

----------------------------------------------------------------------------
(* The browser.                                                               *)

(* The effect's clean-up aborts the load before, if it is still waiting.      *)
NotAborted(l) == l                                               \* mutant
Aborted(l) == IF l.at \in Waiting THEN Ended("aborted") ELSE l
AbortAll == [n \in DOMAIN load |-> Aborted(load[n])]

(* The effect: a new load, for the user, filters and offset it now has.       *)
Effect(f, o) ==
    /\ Len(load) < MaxLoads
    /\ filter' = f /\ offset' = o
    /\ load' = Append(AbortAll, Fresh(f, o))
    /\ loading' = TRUE /\ error' = FALSE
    /\ UNCHANGED <<rows, data, errors, walk>>

SignIn == ~signedIn /\ signedIn' = TRUE /\ Effect(filter, offset)

(* applySearch and resetFilters; never disabled.                              *)
Search == signedIn /\ UNCHANGED signedIn /\ \E f \in Filters : Effect(f, 0)

(* The buttons that loading disables.  Next trusts the total shown.           *)
Refresh == signedIn /\ ~loading /\ UNCHANGED signedIn /\ Effect(filter, offset)

NextPage ==
    /\ signedIn /\ ~loading /\ offset + PageSize < data.total
    /\ UNCHANGED signedIn
    /\ Effect(filter, offset + PageSize)

PreviousPage ==
    /\ signedIn /\ ~loading /\ offset > 0
    /\ UNCHANGED signedIn
    /\ Effect(filter, IF offset > PageSize THEN offset - PageSize ELSE 0)

(* What the pages shown one after the other amount to; a page left out, or    *)
(* one of another filter, ends the walk.                                      *)
Walked(l) ==
    IF l.offset = 0
    THEN [filter |-> l.filter, start |-> l.present, seen |-> l.items, next |-> PageSize]
    ELSE IF l.offset > walk.next \/ l.filter # walk.filter THEN NoWalk
    ELSE [walk EXCEPT !.seen = @ \cup l.items, !.next = Max({@, l.offset + PageSize})]

(* The answer arrives: setData, and finally setLoading(false).                *)
StillLoading == TRUE                                             \* mutant
Loaded == FALSE

Answer(n) ==
    /\ load[n].at = "answer"
    /\ data' = [n |-> n, filter |-> load[n].filter, offset |-> load[n].offset,
                total |-> load[n].total, items |-> load[n].items,
                raced |-> \E i \in load[n].present : i > load[n].counted]
    /\ loading' = Loaded
    /\ load' = [load EXCEPT ![n] = Ended("done")]
    /\ walk' = Walked(load[n])
    /\ UNCHANGED <<rows, signedIn, filter, offset, error, errors>>

(* Any other status: the message is shown and the old answer stays; a 401     *)
(* also signs the user out.                                                   *)
AnswerError(n) ==
    /\ load[n].at \in {"failed", "expired"}
    /\ signedIn' = (load[n].at = "failed")
    /\ error' = TRUE /\ loading' = FALSE
    /\ load' = [load EXCEPT ![n] = Ended("done")]
    /\ UNCHANGED <<rows, filter, offset, data, errors, walk>>

(* The aborted load rejects: its finally too sets loading to false.           *)
AbortSettles(n) ==
    /\ load[n].at = "aborted"
    /\ load' = [load EXCEPT ![n] = Ended("done")]
    /\ loading' = FALSE
    /\ UNCHANGED <<rows, signedIn, filter, offset, data, error, errors, walk>>

Logout ==
    /\ signedIn
    /\ signedIn' = FALSE /\ data' = NoData /\ walk' = NoWalk
    /\ load' = AbortAll
    /\ UNCHANGED <<rows, filter, offset, error, loading, errors>>

DashboardInit ==
    /\ rows = [i \in 1..OldRows |-> [arrival |-> 2 * i, status |-> "deferred"]]
    /\ signedIn = FALSE /\ filter = AnyStatus /\ offset = 0
    /\ load = <<>> /\ data = NoData /\ error = FALSE /\ loading = FALSE
    /\ errors = 0 /\ walk = NoWalk

Serve(n) == CountRows(n) \/ SelectPage(n) \/ Refuse(n)
Receive(n) == Answer(n) \/ AnswerError(n) \/ AbortSettles(n)

DashboardNext ==
    \/ InsertRow \/ UpdateRow
    \/ SignIn \/ Search \/ Refresh \/ NextPage \/ PreviousPage \/ Logout
    \/ \E n \in 1..Len(load) : Serve(n) \/ Receive(n)

(* Requests are served and answers arrive; nobody has to press a button.      *)
DashboardSpec ==
    /\ DashboardInit /\ [][DashboardNext]_dashboardVars
    /\ \A n \in 1..MaxLoads : /\ WF_dashboardVars(n <= Len(load) /\ Serve(n))
                              /\ WF_dashboardVars(n <= Len(load) /\ Receive(n))

----------------------------------------------------------------------------
(* Properties.                                                               *)

InFlight == {n \in 1..Len(load) : load[n].at \in Waiting}

(* The table is the answer to what was asked last, whatever order answers     *)
(* come in: once nothing is under way and no error is shown, it belongs to    *)
(* the filters and the offset the page is on (the AbortController of the       *)
(* effect).                                                                   *)
ShownIsAsked ==
    signedIn /\ InFlight = {} /\ ~error =>
        data.n = Len(load) /\ data.filter = filter /\ data.offset = offset

(* The two statements see different rows, but the page is never shorter than  *)
(* the total that comes with it says ("Showing ... of ... records"), since    *)
(* rows only arrive; a filter on a field that changes is no such case.        *)
PageKeepsPromise ==
    data.filter = AnyStatus /\ data.offset < data.total =>
        Cardinality(data.items) >= Min({PageSize, data.total - data.offset})

(* Whoever pages on until Next is disabled has seen every row there was at    *)
(* the first page, though rows arrive meanwhile: they only push others to     *)
(* later pages.  Provided arrival times differ, and none arrived between the  *)
(* two statements of the last page: its total would end the walk too early.   *)
PagingSkipsNothing ==
    /\ walk.next = data.offset + PageSize /\ data.filter = AnyStatus /\ ~data.raced
    /\ data.offset + PageSize >= data.total
    /\ \A i, j \in 1..Len(rows) : i # j => rows[i].arrival # rows[j].arrival
    => walk.start \subseteq walk.seen

(* Whatever is aborted, refused or signed out, the table settles: no load is  *)
(* under way and nothing spins.                                               *)
Settles == []<>(InFlight = {} /\ ~loading)
=============================================================================
