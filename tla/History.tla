------------------------------- MODULE History -------------------------------
(***************************************************************************)
(* Run history: the rows, test cases and objects of finished runs, and     *)
(* everyone who works on them at the same time.                            *)
(*                                                                         *)
(*  - the reconciler writes a terminal TestRun it sees in its cache:       *)
(*    create the month's partition, upsert the row, replace its test cases *)
(*    (internal/controller/testrun_controller.go, internal/store);         *)
(*  - retention drops whole months, objects first (internal/retention);    *)
(*  - the API deletes one run, comments on it, and lists runs page by page *)
(*    from the cluster's cache and the store (internal/apiserver).         *)
(*                                                                         *)
(* Time is counted in ticks and a month has Month of them.  A run's uid is *)
(* a number, compared the way the store compares uuids.  Every SQL         *)
(* statement and every request to the API server or to the object store is *)
(* one step.                                                               *)
(***************************************************************************)
EXTENDS Integers, FiniteSets, FiniteSetsExt

CONSTANTS
    Runs,           \* the uids: a set of numbers
    Month,          \* ticks in a month
    Retention,      \* how long runs are kept
    Horizon,        \* the last instant that is explored
    Limit,          \* runs on a page
    MaxLag,         \* how many ends of runs the cache may be behind
    HistoryBudgets  \* how often each kind of event may happen

\* tick: a unit of time passes.  fail: a call fails.  pass: a retention pass.  delete and
\* comment: an API call.  page: a client that lists.  expire: a TTL.  kubectl: a user deletes
\* the TestRun itself.  crash: a restart.
HistoryKinds == {"tick", "fail", "pass", "delete", "comment", "page", "expire", "kubectl", "crash"}

ASSUME HistoryAssumption ==
    /\ Runs \subseteq Nat /\ IsFiniteSet(Runs)
    /\ Month \in Nat \ {0} /\ Retention \in Nat \ {0} /\ Horizon \in Nat
    /\ Limit \in Nat \ {0} /\ MaxLag \in Nat
    /\ HistoryBudgets \subseteq [HistoryKinds -> Nat]

NoRow == [comment |-> -1]       \* no row
NoRun == -1
NoCursor == [at |-> Horizon + 1, uid |-> 0]

VARIABLES
    now,
    cr,         \* TestRuns: "live", "terminal", "dying" and "deleting" (deleted before and after
                \* the end, finalizer held) or "none"
    shown,      \* the TestRuns the operator's cache shows
    fin,        \* status.finishedAt
    objects,    \* the runs with objects in the bucket
    row,        \* test_runs: a row and its comment (0: none)
    cases,      \* the runs with rows in test_cases
    parts,      \* the months that have a partition of test_runs, and of test_cases
    audit,      \* instants of the audit log's entries
    persisted,  \* persistedRuns, in memory
    saver,      \* persistFinished under way
    job,        \* the retention pass under way
    deleter,    \* deleteRun under way
    pager,      \* a client that lists page after page
    there,      \* history: the finished runs that could be listed ever since the client began
    loose,      \* history: the runs nobody has undertaken to clean up after (Loosened)
    budget

vars == <<now, cr, shown, fin, objects, row, cases, parts, audit, persisted, saver, job, deleter, pager, there, loose, budget>>
cluster == <<cr, shown, fin, persisted>>
tables == <<row, cases, parts, audit>>
work == <<saver, job, deleter, pager>>

Spend(kind) == budget[kind] > 0 /\ budget' = [budget EXCEPT ![kind] = @ - 1]

\* Terminal phase, whether or not the object is being deleted.
IsTerminalPhase(phase) == phase \in {"terminal", "deleting"}
Unfinished == {"live", "dying"}
PartitionForTime(t) == t \div Month
PartitionEnd(m) == (m + 1) * Month
HasRow(r) == row[r] # NoRow
InPartition(m) == {r \in Runs : HasRow(r) /\ PartitionForTime(fin[r]) = m}

Idle == [pc |-> "idle", run |-> NoRun]
IdleJob == [pc |-> "idle", cutoff |-> 0, todo |-> {}, part |-> 0, refs |-> {}]
IdlePager == [pc |-> "idle", cursor |-> NoCursor, finished |-> {}, live |-> {},
              passed |-> {}, seen |-> {}, twice |-> {}]

\* A cluster where some runs have ended before the store was configured; "none" is a run that
\* never was.
HistoryInit ==
    /\ now = 0
    /\ cr \in [Runs -> {"live", "terminal", "none"}] /\ shown = cr
    /\ fin = [r \in Runs |-> 0]
    /\ objects = {r \in Runs : cr[r] = "terminal"}
    /\ row = [r \in Runs |-> NoRow] /\ cases = {} /\ parts = [runs |-> {}, cases |-> {}]
    /\ audit = {} /\ persisted = {}
    /\ saver = Idle /\ job = IdleJob /\ deleter = Idle /\ pager = IdlePager
    /\ there = {r \in Runs : shown[r] = "terminal"} /\ loose = {}
    /\ budget \in HistoryBudgets

-----------------------------------------------------------------------------
(***************************************************************************)
(* The cluster: runs end, the cache follows, time passes.                  *)
(***************************************************************************)

\* Runs that have ended and that the cache, or a page being put together, still takes as live.
Behind == {r \in Runs : cr[r] # "live" /\ (shown[r] = "live" \/ r \in pager.live)}

Finish(r) ==
    /\ cr[r] = "live" /\ Cardinality(Behind) < MaxLag
    /\ cr' = [cr EXCEPT ![r] = "terminal"]
    /\ fin' = [fin EXCEPT ![r] = now]
    /\ objects' = objects \union {r}
    /\ UNCHANGED <<now, shown, tables, persisted, work, budget>>

Watch(r) ==
    /\ shown[r] # cr[r]
    /\ shown' = [shown EXCEPT ![r] = cr[r]]
    /\ UNCHANGED <<now, cr, fin, objects, tables, persisted, work, budget>>

\* kubectl delete, at any phase; a live run's pod and tailer may have stored something by then.
UserDelete(r) ==
    /\ cr[r] \in {"live", "terminal"} /\ Spend("kubectl")
    /\ cr' = [cr EXCEPT ![r] = IF @ = "live" THEN "dying" ELSE "deleting"]
    /\ \/ objects' = objects
       \/ cr[r] = "live" /\ objects' = objects \union {r}
    /\ UNCHANGED <<now, shown, fin, persisted, tables, work>>

Tick ==
    /\ now < Horizon /\ Spend("tick")
    /\ now' = now + 1
    /\ UNCHANGED <<cluster, objects, tables, work>>

-----------------------------------------------------------------------------
(***************************************************************************)
(* persistFinished: SaveFinished, then SaveTestCases, then the entry in    *)
(* persistedRuns.  Whatever fails is tried again by a later reconcile.     *)
(***************************************************************************)

SaveFails ==
    /\ saver.pc # "idle" /\ Spend("fail")
    /\ saver' = Idle
    /\ UNCHANGED <<now, cluster, objects, tables, job, deleter, pager>>

\* The terminal run as the cache shows it, however old; ensurePartition creates both tables' partitions.
PersistFinished(r) ==
    /\ saver.pc = "idle" /\ shown[r] = "terminal" /\ r \notin persisted
    /\ parts' = [runs |-> parts.runs \union {PartitionForTime(fin[r])},
                 cases |-> parts.cases \union {PartitionForTime(fin[r])}]
    /\ saver' = [pc |-> "upsert", run |-> r]
    /\ UNCHANGED <<now, cluster, objects, row, cases, audit, job, deleter, pager, budget>>

UpsertedAfresh(r) == [comment |-> 0]
\* ON CONFLICT DO UPDATE sets every column but the comment's.
Upserted(r) == IF HasRow(r) THEN row[r] ELSE [comment |-> 0]

\* The insert fails when the partition has been dropped meanwhile.
SaveFinished ==
    /\ saver.pc = "upsert"
    /\ IF PartitionForTime(fin[saver.run]) \in parts.runs
       THEN /\ row' = [row EXCEPT ![saver.run] = Upserted(saver.run)]
            /\ saver' = [saver EXCEPT !.pc = "cases"]
       ELSE row' = row /\ saver' = Idle
    /\ UNCHANGED <<now, cluster, objects, cases, parts, audit, job, deleter, pager, budget>>

\* The cases come from result.json: with the objects gone there are none to store.
ReadCases ==
    /\ saver.pc = "cases"
    /\ IF saver.run \in objects
       THEN saver' = [saver EXCEPT !.pc = "copy"] /\ persisted' = persisted
       ELSE saver' = Idle /\ persisted' = persisted \union {saver.run}
    /\ UNCHANGED <<now, cr, shown, fin, objects, tables, job, deleter, pager, budget>>

\* The partition once more, and the cases replaced in one transaction.
SaveTestCases ==
    /\ saver.pc = "copy"
    /\ parts' = [runs |-> parts.runs \union {PartitionForTime(fin[saver.run])},
                 cases |-> parts.cases \union {PartitionForTime(fin[saver.run])}]
    /\ cases' = cases \union {saver.run}
    /\ persisted' = persisted \union {saver.run}
    /\ saver' = Idle
    /\ UNCHANGED <<now, cr, shown, fin, objects, row, audit, job, deleter, pager, budget>>

\* expireFinished: TTL passed, and the run is in history.
ExpireFinished(r) ==
    /\ saver.pc = "idle" /\ shown[r] = "terminal" /\ cr[r] = "terminal" /\ r \in persisted
    /\ Spend("expire")
    /\ cr' = [cr EXCEPT ![r] = "deleting"]
    /\ UNCHANGED <<now, shown, fin, persisted, objects, tables, work>>

\* finalize: the finalizer goes, and with it the entry in persistedRuns.
Finalize(r) ==
    /\ saver.pc = "idle" /\ shown[r] \in {"dying", "deleting"}
    /\ cr' = [cr EXCEPT ![r] = "none"]
    /\ persisted' = persisted \ {r}
    /\ UNCHANGED <<now, shown, fin, objects, tables, work, budget>>

-----------------------------------------------------------------------------
(***************************************************************************)
(* Retention.                                                              *)
(***************************************************************************)

\* Months that end at the cutoff or before it.
PartitionsToDrop(existing, cutoff) == {m \in existing : PartitionEnd(m) <= cutoff}

StartPass ==
    /\ job.pc = "idle" /\ now >= Retention /\ Spend("pass")
    /\ job' = [IdleJob EXCEPT !.pc = "next", !.cutoff = now - Retention,
                              !.todo = PartitionsToDrop(parts.runs, now - Retention)]
    /\ UNCHANGED <<now, cluster, objects, tables, saver, deleter, pager>>

RunsIn ==
    /\ job.pc = "next" /\ job.todo # {}
    /\ LET m == Min(job.todo)
       IN job' = [job EXCEPT !.pc = "remove", !.part = m, !.todo = @ \ {m}, !.refs = InPartition(m)]
    /\ UNCHANGED <<now, cluster, objects, tables, saver, deleter, pager, budget>>

JobGoesOn ==
    /\ job.pc = "remove" /\ job.refs # {} /\ Spend("fail")
    /\ job' = [job EXCEPT !.refs = @ \ {Min(@)}]
    /\ UNCHANGED <<now, cluster, objects, tables, saver, deleter, pager>>

\* Whatever fails, this partition is kept for the next pass and the loop goes on.
JobFails ==
    /\ job.pc \in {"remove", "dropRuns"} /\ Spend("fail")
    /\ job' = [job EXCEPT !.pc = "next"]
    /\ UNCHANGED <<now, cluster, objects, tables, saver, deleter, pager>>

RemoveObjects ==
    /\ job.pc = "remove" /\ job.refs # {}
    /\ LET r == Min(job.refs)
       IN objects' = objects \ {r} /\ job' = [job EXCEPT !.refs = @ \ {r}]
    /\ UNCHANGED <<now, cluster, tables, saver, deleter, pager, budget>>

OfMonth(m) == {r \in Runs : PartitionForTime(fin[r]) = m}

\* test_cases first, then test_runs.
DropCases ==
    /\ job.pc = "remove" /\ job.refs = {}
    /\ cases' = cases \ OfMonth(job.part)
    /\ parts' = [parts EXCEPT !.cases = @ \ {job.part}]
    /\ job' = [job EXCEPT !.pc = "dropRuns"]
    /\ UNCHANGED <<now, cluster, objects, row, audit, saver, deleter, pager, budget>>

DropRuns ==
    /\ job.pc = "dropRuns"
    /\ row' = [r \in Runs |-> IF r \in InPartition(job.part) THEN NoRow ELSE row[r]]
    /\ parts' = [parts EXCEPT !.runs = @ \ {job.part}]
    /\ job' = [job EXCEPT !.pc = "next"]
    /\ UNCHANGED <<now, cluster, objects, cases, audit, saver, deleter, pager, budget>>

PruneAudit ==
    /\ job.pc = "next" /\ job.todo = {}
    /\ audit' = {t \in audit : t >= job.cutoff}
    /\ job' = IdleJob
    /\ UNCHANGED <<now, cluster, objects, row, cases, parts, saver, deleter, pager, budget>>

-----------------------------------------------------------------------------
(***************************************************************************)
(* The API's handlers.                                                     *)
(***************************************************************************)

\* The cluster (through the cache) first, then the store.
FindRun(r) ==
    IF shown[r] # "none" THEN shown[r] ELSE IF HasRow(r) THEN "archived" ELSE "unknown"
Ended(r) == FindRun(r) \notin Unfinished \union {"unknown"}

StartDelete(r) ==
    /\ deleter.pc = "idle" /\ Ended(r) /\ Spend("delete")
    /\ deleter' = [pc |-> "objects", run |-> r]
    /\ UNCHANGED <<now, cluster, objects, tables, saver, job, pager>>

DeleteFails ==
    /\ deleter.pc # "idle" /\ Spend("fail")
    /\ deleter' = Idle
    /\ UNCHANGED <<now, cluster, objects, tables, saver, job, pager>>

\* Objects, then the TestRun, then the row with its cases; what is gone already is no error.
DeleteObjects ==
    /\ deleter.pc = "objects"
    /\ objects' = objects \ {deleter.run}
    /\ deleter' = [deleter EXCEPT !.pc = "cr"]
    /\ UNCHANGED <<now, cluster, tables, saver, job, pager, budget>>

DeleteRun ==
    /\ deleter.pc = "cr"
    /\ cr' = [cr EXCEPT ![deleter.run] = IF @ = "terminal" THEN "deleting" ELSE @]
    /\ deleter' = [deleter EXCEPT !.pc = "row"]
    /\ UNCHANGED <<now, shown, fin, persisted, objects, tables, saver, job, pager, budget>>

DeleteRow ==
    /\ deleter.pc = "row"
    /\ row' = [row EXCEPT ![deleter.run] = NoRow]
    /\ cases' = IF HasRow(deleter.run) THEN cases \ {deleter.run} ELSE cases
    /\ audit' = audit \union {now}
    /\ deleter' = Idle
    /\ UNCHANGED <<now, cluster, objects, parts, saver, job, pager, budget>>

\* 409 while the run is live or not in history yet.
PutComment(r) ==
    /\ Ended(r) /\ HasRow(r) /\ Spend("comment")
    /\ row' = [row EXCEPT ![r].comment = 1]
    /\ audit' = audit \union {now}
    /\ UNCHANGED <<now, cluster, objects, cases, parts, work>>

DeleteComment(r) ==
    /\ Ended(r) /\ Spend("comment")
    /\ row' = IF HasRow(r) THEN [row EXCEPT ![r].comment = 0] ELSE row
    /\ audit' = audit \union {now}
    /\ UNCHANGED <<now, cluster, objects, cases, parts, work>>

-----------------------------------------------------------------------------
(***************************************************************************)
(* listRuns: the cluster's finished runs and the store's next page, merged *)
(* and cut to the page's limit; the last run on the page is the cursor.    *)
(***************************************************************************)

BeforeByTime(cursor, r) == fin[r] < cursor.at
\* r comes after the cursor: (finishedAt, uid) is smaller.
Before(cursor, r) == fin[r] < cursor.at \/ (fin[r] = cursor.at /\ r < cursor.uid)
Newer(r, q) == fin[r] > fin[q] \/ (fin[r] = fin[q] /\ r > q)
\* page is the newest Limit runs of a set: sorted, and cut.
Newest(page, rs) ==
    /\ Cardinality(page) = IF Cardinality(rs) > Limit THEN Limit ELSE Cardinality(rs)
    /\ \A r \in page, q \in rs \ page : Newer(r, q)
\* The cursor is the last run on the page, as {at, uid}.
Cursors(page) ==
    IF page = {} THEN {pager.cursor}
    ELSE {[at |-> fin[r], uid |-> r] : r \in {r \in page : \A q \in page \ {r} : Newer(q, r)}}

\* What a client that starts now may count on: finished, and known to the cache or archived.
Listable == {r \in Runs : IsTerminalPhase(shown[r]) \/ (shown[r] = "none" /\ HasRow(r))}

FirstPage ==
    /\ pager.pc = "idle" /\ Spend("page")
    /\ pager' = [IdlePager EXCEPT !.pc = "cluster"]
    /\ UNCHANGED <<now, cluster, objects, tables, saver, job, deleter>>

CollectClusterRuns ==
    /\ pager.pc = "cluster"
    /\ pager' = [pager EXCEPT !.pc = "store",
                              !.live = {r \in Runs : shown[r] \in Unfinished},
                              !.finished = {r \in Runs : IsTerminalPhase(shown[r]) /\ Before(pager.cursor, r)}]
    /\ UNCHANGED <<now, cluster, objects, tables, saver, job, deleter, budget>>

\* A row whose run the cluster still showed as live is passed over.
Merged(rows) == pager.finished \union (rows \ pager.live)
HasMore(rows) == Cardinality(rows) >= Limit \/ Cardinality(Merged(rows)) > Limit

\* The client keeps the page, and goes on from the cursor if it was given one.
Turned(rows, page, cursor) ==
    [pager EXCEPT !.pc = IF HasMore(rows) /\ page # {} THEN "cluster" ELSE "done",
                  !.cursor = cursor,
                  !.finished = {}, !.live = {},
                  !.passed = @ \union (rows \intersect pager.live),
                  !.seen = @ \union page,
                  !.twice = @ \union (pager.seen \intersect page)]

MergeStoreRuns ==
    /\ pager.pc = "store"
    /\ LET after == {r \in Runs : HasRow(r) /\ Before(pager.cursor, r)} IN
       \E rows \in SUBSET after : \E page \in SUBSET Merged(rows) : \E cursor \in Cursors(page) :
          /\ Newest(rows, after) /\ Newest(page, Merged(rows))
          /\ pager' = Turned(rows, page, cursor)
    /\ UNCHANGED <<now, cluster, objects, tables, saver, job, deleter, budget>>

-----------------------------------------------------------------------------
\* The operator dies: the requests and the passes end, persistedRuns is empty.
Crash ==
    /\ Spend("crash")
    /\ persisted' = {} /\ saver' = Idle /\ job' = IdleJob /\ deleter' = Idle
    /\ pager' = [IdlePager EXCEPT !.pc = "gone"]
    /\ UNCHANGED <<now, cr, shown, fin, objects, tables>>

ClusterNext == Tick \/ \E r \in Runs : Finish(r) \/ Watch(r) \/ UserDelete(r)
SaveNext == SaveFails \/ SaveFinished \/ ReadCases \/ SaveTestCases \/ \E r \in Runs : PersistFinished(r) \/ ExpireFinished(r) \/ Finalize(r)
RetentionNext == StartPass \/ RunsIn \/ JobFails \/ RemoveObjects \/ DropCases \/ DropRuns \/ PruneAudit
ApiNext ==
    \/ DeleteFails \/ DeleteObjects \/ DeleteRun \/ DeleteRow
    \/ FirstPage \/ CollectClusterRuns \/ MergeStoreRuns
    \/ \E r \in Runs : StartDelete(r) \/ PutComment(r) \/ DeleteComment(r)

\* The runs that a user deletes before their row is written, and those whose row is written
\* after the pass that drops their month has read which runs are in it.
Loosened ==
    {r \in Runs : ~HasRow(r) /\
        \/ cr'[r] # cr[r] /\ budget'.kubectl < budget.kubectl
        \/ HasRow(r)' /\ job.pc \in {"remove", "dropRuns"} /\ PartitionForTime(fin[r]) = job.part}

HistoryNext ==
    /\ ClusterNext \/ SaveNext \/ RetentionNext \/ ApiNext \/ Crash
    /\ there' = IF pager.pc = "idle" THEN Listable' ELSE there \intersect Listable'
    /\ loose' = loose \union Loosened
HistorySpec == HistoryInit /\ [][HistoryNext]_vars

-----------------------------------------------------------------------------
\* A client that follows the cursor to the last page is given no run twice and every finished
\* run that was there all the time, also one that moves from the cluster to the store
\* meanwhile, unless a newer row was passed over: the page is then filled with runs of the
\* cluster that may be older than rows the store has not returned yet.
PagesCoverAll ==
    pager.pc = "done" =>
        /\ \A r \in there : r \in pager.seen \/ \E q \in pager.passed : Newer(q, r)
        /\ pager.twice = {}

\* listRuns: "The merge is exact: the store returns its top `limit` rows after the cursor, the
\* cluster's terminal CRs are filtered by the same cursor, and the union is cut to `limit`."
\* It does not hold: a run that ends between the two reads is left out of the store's rows,
\* and with four runs the cursor passes over another.
MergeIsExact == pager.pc = "done" => there \subseteq pager.seen

\* A run that has left the cluster and run history has no objects in the bucket, where nobody
\* could find them again, but for the two kinds of run in loose.  Failed removals, failed
\* drops, deletes and restarts at any point strand nothing.
NoneStranded ==
    \A r \in objects : cr[r] = "none" => HasRow(r) \/ r \in loose

\* docs/storage.md: "If deleting objects fails, the partition is kept and the next pass retries
\* -- nothing is orphaned."  It does not hold: the pass removes the objects of the runs it
\* read, and drops the month with the rows that were written since.
NothingOrphaned ==
    \A r \in objects : cr[r] = "none" => HasRow(r)

\* Retention takes no row and no audit entry that is younger than the retention period: a
\* row goes otherwise only by the delete handler.
RetentionKeepsYoung ==
    [][/\ \A r \in Runs : HasRow(r) /\ ~HasRow(r)' =>
           fin[r] < now - Retention \/ (deleter.run = r /\ deleter.pc = "row")
       /\ \A t \in audit \ audit' : t < now - Retention]_vars

\* A comment stays until someone removes it or the run goes from history: writing a run
\* again, as every restart of the operator does, keeps it.
CommentKept ==
    [][\A r \in Runs : HasRow(r) /\ row[r].comment = 1 /\ HasRow(r)' /\ row'[r].comment = 0 =>
           budget'.comment < budget.comment]_vars

\* What retention and rewriting must leave alone stays.
HistoryKept == RetentionKeepsYoung /\ CommentKept
=============================================================================
