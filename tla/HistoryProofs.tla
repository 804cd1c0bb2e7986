---------------------------- MODULE HistoryProofs ----------------------------
(***************************************************************************)
(* Proofs about History: for any set of runs, any length of the months and *)
(* of the retention period, any page size and any lag of the cache.        *)
(***************************************************************************)
EXTENDS History, FiniteSetTheorems, WellFoundedInduction, TLAPS

-----------------------------------------------------------------------------
(* The inductive invariant.                                                *)

CrStates == {"live", "terminal", "dying", "deleting", "none"}
Row == [comment : {-1, 0, 1}]
Saver == [pc : {"idle", "upsert", "cases", "copy"}, run : Runs \union {NoRun}]
Deleter == [pc : {"idle", "objects", "cr", "row"}, run : Runs \union {NoRun}]
Job == [pc : {"idle", "next", "remove", "dropRuns"}, cutoff : Nat, todo : SUBSET Nat, part : Nat,
        refs : SUBSET Runs]
Parts == [runs : SUBSET Nat, cases : SUBSET Nat]
Cursor == [at : Nat, uid : Nat]
Pager == [pc : {"idle", "cluster", "store", "done", "gone"}, cursor : Cursor, finished : SUBSET Runs,
          live : SUBSET Runs, passed : SUBSET Runs, seen : SUBSET Runs, twice : SUBSET Runs]

ClusterTyped ==
    /\ now \in Nat /\ cr \in [Runs -> CrStates] /\ shown \in [Runs -> CrStates]
    /\ fin \in [Runs -> Nat] /\ objects \subseteq Runs /\ persisted \subseteq Runs
    /\ loose \subseteq Runs
    /\ budget \in [HistoryKinds -> Nat]
TablesTyped == row \in [Runs -> Row] /\ parts \in Parts /\ audit \subseteq Nat
WorkTyped ==
    /\ saver \in Saver /\ deleter \in Deleter /\ job \in Job /\ pager \in Pager
    /\ saver.pc # "idle" => saver.run \in Runs
    /\ deleter.pc # "idle" => deleter.run \in Runs
TypeInv == ClusterTyped /\ TablesTyped /\ WorkTyped

\* A run that is live for the API server is so for everyone; what the cache shows is past.
ClusterInv ==
    /\ now <= Horizon
    /\ \A r \in Runs :
          /\ fin[r] <= now
          /\ cr[r] = "live" => shown[r] = "live"
          /\ cr[r] \in Unfinished => shown[r] \in Unfinished /\ ~HasRow(r) /\ r \notin persisted
          /\ shown[r] = "dying" => cr[r] \in {"dying", "none"}
          /\ shown[r] = "deleting" => cr[r] \in {"deleting", "none"}
          /\ shown[r] = "none" => cr[r] = "none"
    /\ saver.pc # "idle" => cr[saver.run] \notin Unfinished
    /\ deleter.pc # "idle" => cr[deleter.run] \notin Unfinished

\* A run with objects that is going or gone, or that memory takes as written, has its row or
\* is loose.
Saved(r) == r \in persisted \/ (saver.pc \in {"cases", "copy"} /\ saver.run = r)
RowInv ==
    \A r \in objects : cr[r] \in {"dying", "deleting", "none"} \/ Saved(r) => HasRow(r) \/ r \in loose

DeleterInv == deleter.pc \in {"cr", "row"} => deleter.run \notin objects

\* Retention: the months it drops are over since the period, and before the rows of one go
\* the objects of those it read have gone.
JobInv ==
    /\ job.pc # "idle" =>
          /\ job.cutoff + Retention <= now
          /\ \A m \in job.todo : PartitionEnd(m) <= job.cutoff
    /\ job.pc \in {"remove", "dropRuns"} =>
          /\ PartitionEnd(job.part) <= job.cutoff
          /\ \A r \in InPartition(job.part) : r \in objects \ loose => job.pc = "remove" /\ r \in job.refs

Inv == TypeInv /\ ClusterInv /\ RowInv /\ DeleterInv /\ JobInv

\* The client's pages so far: every run that was there all the time was given, is still to
\* come, or comes after a row that was passed over; none given is still to come.
Covered(r) == r \in pager.seen \/ \E q \in pager.passed : Newer(q, r)
PagerInv ==
    /\ there \subseteq Listable
    /\ \A r \in pager.seen \union pager.passed \union pager.finished : cr[r] # "live"
    /\ pager.pc = "idle" => pager = IdlePager
    /\ pager.pc \in {"cluster", "store"} =>
          /\ \A r \in there : Covered(r) \/ Before(pager.cursor, r)
          /\ \A r \in pager.seen : ~Before(pager.cursor, r)
    /\ pager.pc = "store" =>
          /\ \A r \in pager.finished : Before(pager.cursor, r)
          /\ \A r \in there : /\ r \notin pager.live
                              /\ Covered(r) \/ r \in pager.finished \/ shown[r] = "none"
    /\ pager.pc = "done" => \A r \in there : Covered(r)
    /\ pager.pc # "gone" => pager.twice = {}

-----------------------------------------------------------------------------
(* Lemmas about the operators.                                             *)

\* A run's month ends after the run.
LEMMA MonthEnds ==
    ASSUME NEW f \in Nat
    PROVE  PartitionForTime(f) \in Nat /\ f < PartitionEnd(PartitionForTime(f))
<1>1. Month \in Nat /\ Month > 0
  BY HistoryAssumption
<1>2. f \div Month \in Nat /\ f < ((f \div Month) + 1) * Month
  BY <1>1
<1>3. QED
  BY <1>2 DEF PartitionForTime, PartitionEnd

\* The least of a set of months is one of them.
LEMMA MinOfNats ==
    ASSUME NEW S \in SUBSET Nat, S # {}
    PROVE  Min(S) \in S
<1>1. \E x \in S : \A y \in S : ~(<<y, x>> \in OpToRel(<, Nat))
  BY NatLessThanWellFounded, WFMin
<1>2. \A x, y \in Nat : <<y, x>> \in Nat \X Nat /\ (<<y, x>>)[1] = y /\ (<<y, x>>)[2] = x
  OBVIOUS
<1>3. \A x, y \in Nat : y < x => <<y, x>> \in OpToRel(<, Nat)
  BY <1>2, Zenon DEF OpToRel
<1>4. \E x \in S : \A y \in S : x <= y
  <2>1. PICK x \in S : \A y \in S : ~(<<y, x>> \in OpToRel(<, Nat))
    BY <1>1
  <2>2. \A y \in S : ~(y < x)
    BY <1>3, <2>1, Zenon
  <2>3. \A y \in S : x <= y
    BY <2>2
  <2>4. QED
    BY <2>3
<1>5. QED
  BY <1>4 DEF Min

-----------------------------------------------------------------------------
(* The invariant is inductive.                                             *)

\* A step, but for the history variable there.
Step ==
    /\ ClusterNext \/ SaveNext \/ RetentionNext \/ ApiNext \/ Crash
    /\ loose' = loose \union Loosened

LEMMA SpendType ==
    ASSUME budget \in [HistoryKinds -> Nat], NEW k \in HistoryKinds, Spend(k)
    PROVE  budget' \in [HistoryKinds -> Nat]
BY DEF Spend

LEMMA BudgetType ==
    ASSUME budget \in [HistoryKinds -> Nat], Step
    PROVE  budget' \in [HistoryKinds -> Nat]
<1>1. \A k \in HistoryKinds : Spend(k) => budget' \in [HistoryKinds -> Nat]
  BY SpendType
<1>2. budget' = budget \/ \E k \in HistoryKinds : Spend(k)
  BY DEF Step, ClusterNext, SaveNext, RetentionNext, ApiNext, HistoryKinds,
         Tick, SaveFails, SaveFinished, ReadCases, SaveTestCases, StartPass, RunsIn, JobFails,
         RemoveObjects, DropCases, DropRuns, PruneAudit, DeleteFails, DeleteObjects,
         DeleteRun, DeleteRow, FirstPage, CollectClusterRuns, MergeStoreRuns, Crash, Finish,
         Watch, PersistFinished, ExpireFinished, Finalize, StartDelete, PutComment,
         DeleteComment, UserDelete
<1>3. QED
  BY <1>1, <1>2

\* The records the steps write.
LEMMA RecordTypes ==
    /\ NoRow \in Row /\ [comment |-> 0] \in Row
    /\ Idle \in Saver /\ Idle \in Deleter /\ IdleJob \in Job /\ IdlePager \in Pager
    /\ Idle.pc = "idle" /\ IdleJob.pc = "idle" /\ IdlePager.pc = "idle"
    /\ NoCursor \in Cursor
<1>1. NoCursor \in Cursor
  BY HistoryAssumption DEF NoCursor, Cursor
<1>2. IdlePager \in Pager /\ IdlePager.pc = "idle"
  BY <1>1 DEF IdlePager, Pager
<1>3. QED
  BY <1>1, <1>2 DEF NoRow, Row, Idle, Saver, Deleter, IdleJob, Job

LEMMA TypeStep ==
    ASSUME TypeInv, ClusterInv, Step
    PROVE  TypeInv'
<1>0. /\ ClusterTyped /\ TablesTyped /\ WorkTyped /\ budget' \in [HistoryKinds -> Nat]
      /\ (\A r \in Runs : PartitionForTime(fin[r]) \in Nat) /\ loose' \subseteq Runs
  BY BudgetType, MonthEnds DEF TypeInv, ClusterTyped, Step, Loosened
<1> SUFFICES ClusterTyped' /\ TablesTyped' /\ WorkTyped'
  BY DEF TypeInv
<1> USE DEF cluster, tables, work, ClusterTyped, TablesTyped, WorkTyped, CrStates
<1>1. ASSUME Tick PROVE ClusterTyped' /\ TablesTyped' /\ WorkTyped'
  BY <1>0, <1>1, RecordTypes DEF Tick
<1>2. ASSUME SaveFails PROVE ClusterTyped' /\ TablesTyped' /\ WorkTyped'
  BY <1>0, <1>2, RecordTypes DEF SaveFails, Idle, Saver
<1>3. ASSUME SaveFinished PROVE ClusterTyped' /\ TablesTyped' /\ WorkTyped'
  <2>1. saver.run \in Runs /\ Upserted(saver.run) \in Row
    BY <1>0, <1>3, RecordTypes DEF SaveFinished, Upserted
  <2>2. row' \in [Runs -> Row]
    BY <1>0, <1>3, <2>1 DEF SaveFinished
  <2>3. saver' \in Saver /\ (saver'.pc # "idle" => saver'.run \in Runs)
    BY <1>0, <1>3, <2>1, RecordTypes DEF SaveFinished, Saver
  <2> QED  BY <1>0, <1>3, <2>2, <2>3 DEF SaveFinished
<1>4. ASSUME ReadCases PROVE ClusterTyped' /\ TablesTyped' /\ WorkTyped'
  BY <1>0, <1>4, RecordTypes DEF ReadCases, Saver, Idle
<1>5. ASSUME SaveTestCases PROVE ClusterTyped' /\ TablesTyped' /\ WorkTyped'
  BY <1>0, <1>5, RecordTypes DEF SaveTestCases, Saver, Idle, Parts
<1>6. ASSUME StartPass PROVE ClusterTyped' /\ TablesTyped' /\ WorkTyped'
  <2>1. now - Retention \in Nat
    BY <1>0, <1>6, HistoryAssumption DEF StartPass
  <2>2. PartitionsToDrop(parts.runs, now - Retention) \in SUBSET Nat
    BY <1>0 DEF PartitionsToDrop, Parts
  <2>3. job' \in Job
    BY <1>6, <2>1, <2>2, RecordTypes DEF StartPass, Job, IdleJob
  <2>4. QED
    BY <1>0, <1>6, <2>3 DEF StartPass
<1>7. ASSUME RunsIn PROVE ClusterTyped' /\ TablesTyped' /\ WorkTyped'
  <2>1. job.todo \in SUBSET Nat /\ job.todo # {}
    BY <1>0, <1>7 DEF RunsIn, Job
  <2>2. Min(job.todo) \in Nat
    BY <2>1, MinOfNats
  <2>3. job' \in Job
    BY <1>0, <1>7, <2>2 DEF RunsIn, Job, InPartition
  <2>4. QED
    BY <1>0, <1>7, <2>3 DEF RunsIn
<1>8. ASSUME JobFails PROVE ClusterTyped' /\ TablesTyped' /\ WorkTyped'
  BY <1>0, <1>8, RecordTypes DEF JobFails, Job
<1>9. ASSUME RemoveObjects PROVE ClusterTyped' /\ TablesTyped' /\ WorkTyped'
  BY <1>0, <1>9, RecordTypes DEF RemoveObjects, Job
<1>10. ASSUME DropCases PROVE ClusterTyped' /\ TablesTyped' /\ WorkTyped'
  BY <1>0, <1>10, RecordTypes DEF DropCases, Job, Parts
<1>11. ASSUME DropRuns PROVE ClusterTyped' /\ TablesTyped' /\ WorkTyped'
  BY <1>0, <1>11, RecordTypes DEF DropRuns, Job, Parts, Row, NoRow
<1>12. ASSUME PruneAudit PROVE ClusterTyped' /\ TablesTyped' /\ WorkTyped'
  BY <1>0, <1>12, RecordTypes DEF PruneAudit
<1>13. ASSUME DeleteFails PROVE ClusterTyped' /\ TablesTyped' /\ WorkTyped'
  BY <1>0, <1>13, RecordTypes DEF DeleteFails, Deleter, Idle
<1>14. ASSUME DeleteObjects PROVE ClusterTyped' /\ TablesTyped' /\ WorkTyped'
  BY <1>0, <1>14, RecordTypes DEF DeleteObjects, Deleter
<1>15. ASSUME DeleteRun PROVE ClusterTyped' /\ TablesTyped' /\ WorkTyped'
  BY <1>0, <1>15, RecordTypes DEF DeleteRun, Deleter
<1>16. ASSUME DeleteRow PROVE ClusterTyped' /\ TablesTyped' /\ WorkTyped'
  BY <1>0, <1>16, RecordTypes DEF DeleteRow, Deleter, Idle, Row, NoRow
<1>17. ASSUME FirstPage PROVE ClusterTyped' /\ TablesTyped' /\ WorkTyped'
  BY <1>0, <1>17, RecordTypes DEF FirstPage, Pager, IdlePager
<1>18. ASSUME CollectClusterRuns PROVE ClusterTyped' /\ TablesTyped' /\ WorkTyped'
  BY <1>0, <1>18, RecordTypes DEF CollectClusterRuns, Pager
<1>19. ASSUME MergeStoreRuns PROVE ClusterTyped' /\ TablesTyped' /\ WorkTyped'
  <2>b. PICK rows \in SUBSET Runs : \E page \in SUBSET Merged(rows) : \E cursor \in Cursors(page) :
          pager' = Turned(rows, page, cursor)
    BY <1>19 DEF MergeStoreRuns
  <2>c. PICK page \in SUBSET Merged(rows) : \E cursor \in Cursors(page) :
          pager' = Turned(rows, page, cursor)
    BY <2>b
  <2>d. PICK cursor \in Cursors(page) : pager' = Turned(rows, page, cursor)
    BY <2>c
  <2>1. Merged(rows) \subseteq Runs /\ pager \in Pager /\ pager.cursor \in Cursor
    BY <1>0 DEF Merged, Pager
  <2>2. page \in SUBSET Runs
    BY <2>1
  <2>a. cursor \in Cursor
    BY <1>0, <2>1, <2>2, HistoryAssumption DEF Cursors, Cursor
  <2>3. pager' \in Pager
    BY <2>d, <2>1, <2>2, <2>a DEF Pager, Turned
  <2>4. QED
    BY <1>0, <1>19, <2>3 DEF MergeStoreRuns
<1>20. ASSUME Crash PROVE ClusterTyped' /\ TablesTyped' /\ WorkTyped'
  BY <1>0, <1>20, RecordTypes DEF Crash, Pager, IdlePager
<1>21. ASSUME NEW r \in Runs, Finish(r) PROVE ClusterTyped' /\ TablesTyped' /\ WorkTyped'
  BY <1>0, <1>21, RecordTypes DEF Finish
<1>22. ASSUME NEW r \in Runs, Watch(r) PROVE ClusterTyped' /\ TablesTyped' /\ WorkTyped'
  BY <1>0, <1>22, RecordTypes DEF Watch
<1>23. ASSUME NEW r \in Runs, PersistFinished(r) PROVE ClusterTyped' /\ TablesTyped' /\ WorkTyped'
  BY <1>0, <1>23, RecordTypes DEF PersistFinished, Saver, Parts
<1>24. ASSUME NEW r \in Runs, ExpireFinished(r) PROVE ClusterTyped' /\ TablesTyped' /\ WorkTyped'
  BY <1>0, <1>24, RecordTypes DEF ExpireFinished
<1>25. ASSUME NEW r \in Runs, Finalize(r) PROVE ClusterTyped' /\ TablesTyped' /\ WorkTyped'
  BY <1>0, <1>25, RecordTypes DEF Finalize
<1>26. ASSUME NEW r \in Runs, StartDelete(r) PROVE ClusterTyped' /\ TablesTyped' /\ WorkTyped'
  BY <1>0, <1>26, RecordTypes DEF StartDelete, Deleter
<1>27. ASSUME NEW r \in Runs, PutComment(r) PROVE ClusterTyped' /\ TablesTyped' /\ WorkTyped'
  BY <1>0, <1>27, RecordTypes DEF PutComment, Row
<1>28. ASSUME NEW r \in Runs, DeleteComment(r) PROVE ClusterTyped' /\ TablesTyped' /\ WorkTyped'
  BY <1>0, <1>28, RecordTypes DEF DeleteComment, Row
<1>29. ASSUME NEW r \in Runs, UserDelete(r) PROVE ClusterTyped' /\ TablesTyped' /\ WorkTyped'
  BY <1>0, <1>29, RecordTypes DEF UserDelete
<1>30. QED
  BY <1>1, <1>2, <1>3, <1>4, <1>5, <1>6, <1>7, <1>8, <1>9, <1>10, <1>11, <1>12, <1>13,
     <1>14, <1>15, <1>16, <1>17, <1>18, <1>19, <1>20, <1>21, <1>22, <1>23, <1>24, <1>25,
     <1>26, <1>27, <1>28, <1>29
     DEF Step, ClusterNext, SaveNext, RetentionNext, ApiNext

\* What no step does: a row appears only by SaveFinished and goes only after the objects of a
\* run that is not loose, and objects, the time of its end and its phase change only once for
\* a live run.
LEMMA StepFacts ==
    ASSUME Inv, Step, NEW q \in Runs
    PROVE  /\ HasRow(q)' /\ ~HasRow(q) => SaveFinished /\ q = saver.run
           /\ HasRow(q) /\ ~HasRow(q)' => q \notin objects \/ q \in loose
           /\ q \in objects' /\ q \notin objects => cr[q] = "live"
           /\ fin'[q] # fin[q] => cr[q] = "live"
           /\ cr[q] # "live" => cr'[q] # "live"
           /\ cr[q] \notin Unfinished => cr'[q] \notin Unfinished
<1> DEFINE G == /\ HasRow(q)' /\ ~HasRow(q) => SaveFinished /\ q = saver.run
                /\ HasRow(q) /\ ~HasRow(q)' => q \notin objects \/ q \in loose
                /\ q \in objects' /\ q \notin objects => cr[q] = "live"
                /\ fin'[q] # fin[q] => cr[q] = "live"
                /\ cr[q] # "live" => cr'[q] # "live"
                /\ cr[q] \notin Unfinished => cr'[q] \notin Unfinished
<1>0. ClusterTyped /\ TablesTyped /\ WorkTyped
  BY DEF Inv, TypeInv
<1> USE DEF cluster, tables, work, ClusterTyped, TablesTyped, WorkTyped, HasRow, Unfinished
<1>1. ASSUME NEW r \in Runs, Finish(r) PROVE G
  BY <1>0, <1>1 DEF Finish, CrStates
<1>2. ASSUME SaveFinished PROVE G
  BY <1>0, <1>2 DEF SaveFinished, Upserted, Idle
<1>3. ASSUME DropRuns PROVE G
  <2>1. job.pc = "dropRuns" /\ job.pc # "remove"
    BY <1>3 DEF DropRuns
  <2>2. \A x \in InPartition(job.part) : x \notin objects \/ x \in loose
    BY <2>1 DEF Inv, JobInv
  <2>3. QED
    BY <1>0, <1>3, <2>2 DEF DropRuns
<1>4. ASSUME DeleteRow PROVE G
  <2>1. deleter.run \notin objects /\ deleter.run \in Runs
    BY <1>0, <1>4 DEF DeleteRow, Inv, DeleterInv
  <2>2. QED
    BY <1>0, <1>4, <2>1 DEF DeleteRow
<1>5. ASSUME NEW r \in Runs, PutComment(r) PROVE G
  BY <1>0, <1>5 DEF PutComment, NoRow, Row
<1>6. ASSUME NEW r \in Runs, DeleteComment(r) PROVE G
  BY <1>0, <1>6 DEF DeleteComment, NoRow, Row
<1>7. ASSUME NEW r \in Runs, Finalize(r) PROVE G
  BY <1>0, <1>7 DEF Finalize
<1>8. ASSUME NEW r \in Runs, ExpireFinished(r) PROVE G
  BY <1>0, <1>8 DEF ExpireFinished
<1>9. ASSUME DeleteRun PROVE G
  BY <1>0, <1>9 DEF DeleteRun
<1>10. ASSUME \/ \E r \in Runs : Watch(r) \/ PersistFinished(r) \/ StartDelete(r)
             \/ Tick \/ SaveFails \/ ReadCases \/ SaveTestCases \/ StartPass
             \/ RunsIn \/ JobFails \/ RemoveObjects \/ DropCases \/ PruneAudit
             \/ DeleteFails \/ DeleteObjects \/ FirstPage \/ CollectClusterRuns \/ MergeStoreRuns
             \/ Crash
      PROVE  G
  BY <1>0, <1>10 DEF Tick, SaveFails, ReadCases, SaveTestCases, StartPass, RunsIn, JobFails,
         RemoveObjects, DropCases, PruneAudit, DeleteFails, DeleteObjects, FirstPage,
         CollectClusterRuns, MergeStoreRuns, Crash, Watch, PersistFinished, StartDelete
<1>11. ASSUME NEW r \in Runs, UserDelete(r) PROVE G
  BY <1>0, <1>11 DEF UserDelete, CrStates
<1>12. QED
  BY <1>1, <1>2, <1>3, <1>4, <1>5, <1>6, <1>7, <1>8, <1>9, <1>10, <1>11
     DEF Step, ClusterNext, SaveNext, RetentionNext, ApiNext

\* The cache and those who work from it take no run for live that is not.
LEMMA ClusterStep ==
    ASSUME Inv, Step
    PROVE  ClusterInv'
<1>0. ClusterTyped /\ TablesTyped /\ WorkTyped /\ ClusterInv
  BY DEF Inv, TypeInv
<1> USE DEF cluster, tables, work, ClusterTyped, TablesTyped, WorkTyped, Unfinished
<1>1. ASSUME NEW r \in Runs, Finish(r) PROVE ClusterInv'
  BY <1>0, <1>1 DEF Finish, ClusterInv, HasRow, CrStates
<1>2. ASSUME NEW r \in Runs, Watch(r) PROVE ClusterInv'
  BY <1>0, <1>2 DEF Watch, ClusterInv, HasRow
<1>3. ASSUME Tick PROVE ClusterInv'
  BY <1>0, <1>3, HistoryAssumption DEF Tick, ClusterInv, HasRow
<1>4. ASSUME SaveFails PROVE ClusterInv'
  BY <1>0, <1>4 DEF SaveFails, ClusterInv, HasRow, Idle, Saver
<1>5. ASSUME NEW r \in Runs, PersistFinished(r) PROVE ClusterInv'
  BY <1>0, <1>5 DEF PersistFinished, ClusterInv, HasRow, Saver
<1>6. ASSUME SaveFinished PROVE ClusterInv'
  BY <1>0, <1>6 DEF SaveFinished, ClusterInv, HasRow, Saver, Idle
<1>7. ASSUME ReadCases PROVE ClusterInv'
  BY <1>0, <1>7 DEF ReadCases, ClusterInv, HasRow, Saver, Idle
<1>8. ASSUME SaveTestCases PROVE ClusterInv'
  BY <1>0, <1>8 DEF SaveTestCases, ClusterInv, HasRow, Saver, Idle
<1>9. ASSUME NEW r \in Runs, ExpireFinished(r) PROVE ClusterInv'
  BY <1>0, <1>9 DEF ExpireFinished, ClusterInv, HasRow
<1>10. ASSUME NEW r \in Runs, Finalize(r) PROVE ClusterInv'
  BY <1>0, <1>10 DEF Finalize, ClusterInv, HasRow
<1>11. ASSUME DropRuns PROVE ClusterInv'
  BY <1>0, <1>11 DEF DropRuns, ClusterInv, HasRow
<1>12. ASSUME NEW r \in Runs, StartDelete(r) PROVE ClusterInv'
  BY <1>0, <1>12 DEF StartDelete, ClusterInv, HasRow, Deleter, FindRun, Ended
<1>13. ASSUME DeleteFails PROVE ClusterInv'
  BY <1>0, <1>13 DEF DeleteFails, ClusterInv, HasRow, Deleter, Idle
<1>14. ASSUME DeleteObjects PROVE ClusterInv'
  BY <1>0, <1>14 DEF DeleteObjects, ClusterInv, HasRow, Deleter
<1>15. ASSUME DeleteRun PROVE ClusterInv'
  BY <1>0, <1>15 DEF DeleteRun, ClusterInv, HasRow, Deleter
<1>16. ASSUME DeleteRow PROVE ClusterInv'
  BY <1>0, <1>16 DEF DeleteRow, ClusterInv, HasRow, Deleter, Idle
<1>17. ASSUME NEW r \in Runs, PutComment(r) PROVE ClusterInv'
  BY <1>0, <1>17 DEF PutComment, ClusterInv, HasRow
<1>18. ASSUME NEW r \in Runs, DeleteComment(r) PROVE ClusterInv'
  BY <1>0, <1>18 DEF DeleteComment, ClusterInv, HasRow
<1>19. ASSUME Crash PROVE ClusterInv'
  BY <1>0, <1>19 DEF Crash, ClusterInv, HasRow, Idle
<1>20. ASSUME \/ StartPass \/ RunsIn \/ JobFails \/ RemoveObjects \/ DropCases
             \/ PruneAudit \/ FirstPage \/ CollectClusterRuns \/ MergeStoreRuns
      PROVE  ClusterInv'
  <2>1. cr' = cr /\ shown' = shown /\ row' = row /\ persisted' = persisted /\ fin' = fin /\ now' = now /\ saver' = saver /\ deleter' = deleter
    BY <1>20 DEF StartPass, RunsIn, JobFails, RemoveObjects, DropCases, PruneAudit, FirstPage,
           CollectClusterRuns, MergeStoreRuns
  <2>2. QED
    BY <1>0, <2>1 DEF ClusterInv, HasRow
<1>21. ASSUME NEW r \in Runs, UserDelete(r) PROVE ClusterInv'
  BY <1>0, <1>21 DEF UserDelete, ClusterInv, HasRow
<1>22. QED
  BY <1>1, <1>2, <1>3, <1>4, <1>5, <1>6, <1>7, <1>8, <1>9, <1>10, <1>11, <1>12,
     <1>13, <1>14, <1>15, <1>16, <1>17, <1>18, <1>19, <1>20, <1>21
     DEF Step, ClusterNext, SaveNext, RetentionNext, ApiNext

\* A run with objects that is going or gone, or that memory takes as written, has its row
\* or is loose.
LEMMA RowStep ==
    ASSUME Inv, Step
    PROVE  RowInv'
<1>0. ClusterTyped /\ TablesTyped /\ WorkTyped /\ RowInv /\ ClusterInv /\ loose \subseteq loose'
  BY DEF Inv, TypeInv, Step
<1> USE DEF cluster, tables, work, ClusterTyped, TablesTyped, WorkTyped
<1>1. ASSUME NEW r \in Runs, Finish(r) PROVE RowInv'
  <2>1. cr[r] \in Unfinished /\ cr'[r] = "terminal" /\ ~HasRow(r)
    BY <1>0, <1>1 DEF Finish, ClusterInv, Unfinished
  <2>2. ~Saved(r)
    BY <1>0, <2>1 DEF Saved, ClusterInv
  <2>3. /\ row' = row /\ persisted' = persisted /\ saver' = saver /\ objects' = objects \union {r}
        /\ \A q \in Runs : cr'[q] = cr[q] \/ q = r
    BY <1>0, <1>1 DEF Finish
  <2>4. QED
    BY <1>0, <2>1, <2>2, <2>3 DEF RowInv, Saved, HasRow
<1>2. ASSUME SaveFails PROVE RowInv'
  BY <1>0, <1>2, StepFacts DEF SaveFails, RowInv, Saved, Idle
<1>3. ASSUME NEW r \in Runs, PersistFinished(r) PROVE RowInv'
  BY <1>0, <1>3, StepFacts DEF PersistFinished, RowInv, Saved
<1>4. ASSUME SaveFinished PROVE RowInv'
  <2>1. ASSUME row'[saver.run] # NoRow PROVE RowInv'
    BY <1>0, <2>1, <1>4, StepFacts DEF SaveFinished, RowInv, Saved, Saver, Idle, HasRow
  <2>2. ASSUME saver' = Idle PROVE RowInv'
    BY <1>0, <2>2, <1>4, StepFacts DEF SaveFinished, RowInv, Saved, Idle
  <2>3. row'[saver.run] # NoRow \/ saver' = Idle
    BY <1>0, <1>4 DEF SaveFinished, HasRow, Upserted, NoRow
  <2>4. QED
    BY <2>1, <2>2, <2>3
<1>5. ASSUME ReadCases PROVE RowInv'
  BY <1>0, <1>5, StepFacts DEF ReadCases, RowInv, Saved, Saver, Idle
<1>6. ASSUME SaveTestCases PROVE RowInv'
  BY <1>0, <1>6, StepFacts DEF SaveTestCases, RowInv, Saved, Saver, Idle
<1>7. ASSUME NEW r \in Runs, ExpireFinished(r) PROVE RowInv'
  BY <1>0, <1>7, StepFacts DEF ExpireFinished, RowInv, Saved
<1>8. ASSUME NEW r \in Runs, Finalize(r) PROVE RowInv'
  BY <1>0, <1>8, StepFacts DEF Finalize, RowInv, Saved, ClusterInv
<1>9. ASSUME RemoveObjects PROVE RowInv'
  BY <1>0, <1>9, StepFacts DEF RemoveObjects, RowInv, Saved
<1>10. ASSUME DropRuns PROVE RowInv'
  BY <1>0, <1>10, StepFacts DEF DropRuns, RowInv, Saved
<1>11. ASSUME DeleteObjects PROVE RowInv'
  BY <1>0, <1>11, StepFacts DEF DeleteObjects, RowInv, Saved
<1>12. ASSUME DeleteRun PROVE RowInv'
  <2>1. deleter.run \notin objects
    BY <1>12 DEF DeleteRun, Inv, DeleterInv
  <2>2. QED
    BY <1>0, <1>12, <2>1, StepFacts DEF DeleteRun, RowInv, Saved
<1>13. ASSUME DeleteRow PROVE RowInv'
  BY <1>0, <1>13, StepFacts DEF DeleteRow, RowInv, Saved
<1>14. ASSUME NEW r \in Runs, PutComment(r) PROVE RowInv'
  BY <1>0, <1>14, StepFacts DEF PutComment, RowInv, Saved
<1>15. ASSUME NEW r \in Runs, DeleteComment(r) PROVE RowInv'
  BY <1>0, <1>15, StepFacts DEF DeleteComment, RowInv, Saved
<1>16. ASSUME Crash PROVE RowInv'
  BY <1>0, <1>16, StepFacts DEF Crash, RowInv, Saved, Idle
<1>17. ASSUME \/ \E r \in Runs : Watch(r) \/ StartDelete(r)
             \/ Tick \/ StartPass \/ RunsIn \/ JobFails \/ DropCases
             \/ PruneAudit \/ DeleteFails \/ FirstPage \/ CollectClusterRuns \/ MergeStoreRuns
      PROVE  RowInv'
  <2>1. objects' = objects /\ cr' = cr /\ row' = row /\ persisted' = persisted /\ saver' = saver
    BY <1>17 DEF Tick, StartPass, RunsIn, JobFails, DropCases, PruneAudit, DeleteFails,
           FirstPage, CollectClusterRuns, MergeStoreRuns, Watch, StartDelete
  <2>2. QED
    BY <1>0, <2>1 DEF RowInv, Saved, HasRow
<1>18. ASSUME NEW r \in Runs, UserDelete(r) PROVE RowInv'
  <2>1. budget'["kubectl"] < budget["kubectl"] /\ cr'[r] # cr[r]
    BY <1>0, <1>18 DEF UserDelete, Spend, HistoryKinds
  <2>2. HasRow(r) \/ r \in loose'
    BY <2>1 DEF Step, Loosened
  <2>3. \A q \in Runs : cr'[q] = cr[q] \/ q = r
    BY <1>0, <1>18 DEF UserDelete
  <2>4. objects' \subseteq objects \union {r} /\ row' = row /\ persisted' = persisted /\ saver' = saver
    BY <1>18 DEF UserDelete
  <2>5. QED
    BY <1>0, <2>2, <2>3, <2>4 DEF RowInv, Saved, HasRow
<1>19. QED
  BY <1>18, <1>1, <1>2, <1>3, <1>4, <1>5, <1>6, <1>7, <1>8, <1>9, <1>10, <1>11, <1>12,
     <1>13, <1>14, <1>15, <1>16, <1>17
     DEF Step, ClusterNext, SaveNext, RetentionNext, ApiNext

\* The objects of a run that is deleted stay gone.
LEMMA DeleterStep ==
    ASSUME Inv, Step
    PROVE  DeleterInv'
<1>0. ClusterTyped /\ TablesTyped /\ WorkTyped /\ DeleterInv /\ ClusterInv
  BY DEF Inv, TypeInv
<1> USE DEF cluster, tables, work, ClusterTyped, TablesTyped, WorkTyped
<1>1. ASSUME NEW r \in Runs, Finish(r) PROVE DeleterInv'
  BY <1>0, <1>1 DEF Finish, DeleterInv, ClusterInv, Unfinished
<1>2. ASSUME RemoveObjects PROVE DeleterInv'
  BY <1>0, <1>2 DEF RemoveObjects, DeleterInv
<1>3. ASSUME NEW r \in Runs, StartDelete(r) PROVE DeleterInv'
  BY <1>0, <1>3 DEF StartDelete, DeleterInv
<1>4. ASSUME DeleteFails PROVE DeleterInv'
  BY <1>0, <1>4 DEF DeleteFails, DeleterInv, Idle
<1>5. ASSUME DeleteObjects PROVE DeleterInv'
  BY <1>0, <1>5 DEF DeleteObjects, DeleterInv, Deleter
<1>6. ASSUME DeleteRun PROVE DeleterInv'
  BY <1>0, <1>6 DEF DeleteRun, DeleterInv, Deleter
<1>7. ASSUME DeleteRow PROVE DeleterInv'
  BY <1>0, <1>7 DEF DeleteRow, DeleterInv, Idle
<1>8. ASSUME Crash PROVE DeleterInv'
  BY <1>0, <1>8 DEF Crash, DeleterInv, Idle
<1>9. ASSUME \/ \E r \in Runs : Watch(r) \/ PersistFinished(r) \/ ExpireFinished(r) \/ Finalize(r) \/ PutComment(r) \/ DeleteComment(r)
             \/ Tick \/ SaveFails \/ SaveFinished \/ ReadCases \/ SaveTestCases
             \/ StartPass \/ RunsIn \/ JobFails \/ DropCases \/ DropRuns
             \/ PruneAudit \/ FirstPage \/ CollectClusterRuns \/ MergeStoreRuns
      PROVE  DeleterInv'
  <2>1. objects' = objects /\ deleter' = deleter
    BY <1>9 DEF Tick, SaveFails, SaveFinished, ReadCases, SaveTestCases, StartPass, RunsIn,
           JobFails, DropCases, DropRuns, PruneAudit, FirstPage, CollectClusterRuns,
           MergeStoreRuns, Watch, PersistFinished, ExpireFinished, Finalize, PutComment,
           DeleteComment
  <2>2. QED
    BY <1>0, <2>1 DEF DeleterInv
<1>10. ASSUME NEW r \in Runs, UserDelete(r) PROVE DeleterInv'
  BY <1>0, <1>10 DEF UserDelete, DeleterInv, ClusterInv, Unfinished
<1>11. QED
  BY <1>10, <1>1, <1>2, <1>3, <1>4, <1>5, <1>6, <1>7, <1>8, <1>9
     DEF Step, ClusterNext, SaveNext, RetentionNext, ApiNext

\* A run of a month that retention is dropping ended longer ago than the period.
LEMMA DroppedIsOld ==
    ASSUME Inv, job.pc \in {"remove", "dropRuns"}, NEW r \in Runs, PartitionForTime(fin[r]) = job.part
    PROVE  fin[r] < now - Retention
<1>1. fin[r] \in Nat /\ now \in Nat /\ Retention \in Nat /\ job.cutoff \in Nat
  BY HistoryAssumption DEF Inv, TypeInv, ClusterTyped, WorkTyped, Job
<1>2. fin[r] < PartitionEnd(job.part)
  BY <1>1, MonthEnds
<1>3. PartitionEnd(job.part) <= job.cutoff /\ job.cutoff + Retention <= now
  BY DEF Inv, JobInv
<1>4. PartitionEnd(job.part) \in Int
  BY HistoryAssumption DEF PartitionEnd, Inv, TypeInv, WorkTyped, Job
<1>5. QED
  BY <1>1, <1>2, <1>3, <1>4

\* A month that is dropped is over since the period, and its objects go before its rows.
LEMMA JobStep ==
    ASSUME Inv, Step
    PROVE  JobInv'
<1>0. ClusterTyped /\ TablesTyped /\ WorkTyped /\ JobInv /\ ClusterInv /\ loose \subseteq loose'
  BY DEF Inv, TypeInv, Step
<1> USE DEF cluster, tables, work, ClusterTyped, TablesTyped, WorkTyped
<1>1. ASSUME NEW r \in Runs, Finish(r) PROVE JobInv'
  <2>1. job' = job /\ now' = now
    BY <1>1 DEF Finish
  <2>2. ASSUME NEW q \in InPartition(job.part)' PROVE q \in InPartition(job.part) /\ (q \in objects' => q \in objects)
    <3>1. q \in Runs /\ HasRow(q)' /\ (PartitionForTime(fin[q]) = job.part)'
      BY <2>2 DEF InPartition
    <3>2. HasRow(q)
      BY <1>1, <3>1 DEF Finish, HasRow
    <3>3. cr[q] # "live"
      BY <1>0, <3>1, <3>2 DEF ClusterInv, Unfinished
    <3>4. fin'[q] = fin[q] /\ (q \in objects' => q \in objects)
      BY <3>1, <3>3, StepFacts
    <3>5. QED
      BY <2>1, <3>1, <3>2, <3>4 DEF InPartition, PartitionForTime
  <2>3. QED
    BY <1>0, <2>1, <2>2 DEF JobInv
<1>2. ASSUME Tick PROVE JobInv'
  <2>1. job' = job /\ now' = now + 1 /\ row' = row /\ fin' = fin /\ objects' = objects
    BY <1>2 DEF Tick
  <2>2. job.cutoff + Retention <= now => job.cutoff + Retention <= now'
    BY <1>0, <2>1, HistoryAssumption DEF Job
  <2>3. QED
    BY <1>0, <2>1, <2>2 DEF JobInv, InPartition, HasRow
<1>3. ASSUME SaveFinished PROVE JobInv'
  <2>1. job' = job /\ now' = now /\ fin' = fin /\ objects' = objects
    BY <1>3 DEF SaveFinished
  <2>2. ASSUME NEW q \in InPartition(job.part)', job.pc \in {"remove", "dropRuns"}
        PROVE  q \in InPartition(job.part) \/ q \in loose'
    <3>1. q \in Runs /\ HasRow(q)' /\ PartitionForTime(fin[q]) = job.part
      BY <2>1, <2>2 DEF InPartition, PartitionForTime
    <3>2. CASE HasRow(q)
      BY <3>1, <3>2 DEF InPartition
    <3>3. CASE ~HasRow(q)
      BY <2>2, <3>1, <3>3 DEF Step, Loosened
    <3>4. QED
      BY <3>2, <3>3
  <2>3. QED
    BY <1>0, <2>1, <2>2 DEF JobInv
<1>4. ASSUME StartPass PROVE JobInv'
  <2>1. /\ now' = now /\ job'.pc = "next" /\ job'.cutoff = now - Retention
        /\ job'.todo = PartitionsToDrop(parts.runs, now - Retention)
    BY <1>4 DEF StartPass, IdleJob
  <2>2. now \in Nat /\ Retention \in Nat
    BY <1>0, HistoryAssumption
  <2>3. (now - Retention) + Retention <= now
    BY <2>2
  <2>4. QED
    BY <2>1, <2>3 DEF JobInv, PartitionsToDrop
<1>5. ASSUME RunsIn PROVE JobInv'
  <2>1. job.todo \in SUBSET Nat /\ job.todo # {}
    BY <1>0, <1>5 DEF RunsIn, Job
  <2>2. Min(job.todo) \in job.todo
    BY <2>1, MinOfNats
  <2>3. /\ now' = now /\ row' = row /\ fin' = fin /\ objects' = objects
        /\ job'.pc = "remove" /\ job'.cutoff = job.cutoff /\ job'.part = Min(job.todo)
        /\ job'.todo \subseteq job.todo /\ job'.refs = InPartition(Min(job.todo))
    BY <1>0, <1>5 DEF RunsIn, Job
  <2>4. InPartition(job.part)' = InPartition(Min(job.todo))
    BY <2>3 DEF InPartition, HasRow, PartitionForTime
  <2>5. job.cutoff + Retention <= now /\ \A m \in job.todo : PartitionEnd(m) <= job.cutoff
    BY <1>0, <1>5 DEF RunsIn, JobInv
  <2>6. QED
    BY <2>2, <2>3, <2>4, <2>5 DEF JobInv
<1>6. ASSUME JobFails PROVE JobInv'
  BY <1>0, <1>6 DEF JobFails, JobInv, Job
<1>7. ASSUME RemoveObjects PROVE JobInv'
  <2>1. /\ now' = now /\ row' = row /\ fin' = fin /\ objects' = objects \ {Min(job.refs)}
        /\ job'.pc = "remove" /\ job.pc = "remove" /\ job'.cutoff = job.cutoff /\ job'.part = job.part
        /\ job'.todo = job.todo /\ job'.refs = job.refs \ {Min(job.refs)}
    BY <1>0, <1>7 DEF RemoveObjects, Job
  <2>2. InPartition(job.part)' = InPartition(job.part)
    BY <2>1 DEF InPartition, HasRow, PartitionForTime
  <2>3. QED
    BY <1>0, <2>1, <2>2 DEF JobInv
<1>8. ASSUME DropCases PROVE JobInv'
  <2>1. /\ now' = now /\ row' = row /\ fin' = fin /\ objects' = objects
        /\ job'.pc = "dropRuns" /\ job.pc = "remove" /\ job'.cutoff = job.cutoff /\ job'.part = job.part
        /\ job'.todo = job.todo /\ job.refs = {}
    BY <1>0, <1>8 DEF DropCases, Job
  <2>2. InPartition(job.part)' = InPartition(job.part)
    BY <2>1 DEF InPartition, HasRow, PartitionForTime
  <2>3. QED
    BY <1>0, <2>1, <2>2 DEF JobInv
<1>9. ASSUME DropRuns PROVE JobInv'
  BY <1>0, <1>9 DEF DropRuns, JobInv, Job
<1>10. ASSUME PruneAudit PROVE JobInv'
  BY <1>10 DEF PruneAudit, JobInv, IdleJob
<1>11. ASSUME Crash PROVE JobInv'
  BY <1>11 DEF Crash, JobInv, IdleJob
<1>12. ASSUME DeleteObjects PROVE JobInv'
  <2>1. job' = job /\ now' = now /\ fin' = fin /\ objects' \subseteq objects
    BY <1>12 DEF DeleteObjects
  <2>2. \A q \in Runs : HasRow(q)' => HasRow(q)
    BY <1>12, StepFacts DEF DeleteObjects, SaveFinished, HasRow
  <2>3. InPartition(job.part)' \subseteq InPartition(job.part)
    BY <2>1, <2>2 DEF InPartition, PartitionForTime
  <2>4. QED
    BY <1>0, <2>1, <2>3 DEF JobInv
<1>13. ASSUME DeleteRow PROVE JobInv'
  <2>1. job' = job /\ now' = now /\ fin' = fin /\ objects' \subseteq objects
    BY <1>13 DEF DeleteRow
  <2>2. \A q \in Runs : HasRow(q)' => HasRow(q)
    BY <1>13, StepFacts DEF DeleteRow, SaveFinished, HasRow
  <2>3. InPartition(job.part)' \subseteq InPartition(job.part)
    BY <2>1, <2>2 DEF InPartition, PartitionForTime
  <2>4. QED
    BY <1>0, <2>1, <2>3 DEF JobInv
<1>14. ASSUME NEW r \in Runs, PutComment(r) PROVE JobInv'
  <2>1. job' = job /\ now' = now /\ fin' = fin /\ objects' \subseteq objects
    BY <1>14 DEF PutComment
  <2>2. \A q \in Runs : HasRow(q)' => HasRow(q)
    BY <1>14, StepFacts DEF PutComment, NoRow, SaveFinished, HasRow
  <2>3. InPartition(job.part)' \subseteq InPartition(job.part)
    BY <2>1, <2>2 DEF InPartition, PartitionForTime
  <2>4. QED
    BY <1>0, <2>1, <2>3 DEF JobInv
<1>15. ASSUME NEW r \in Runs, DeleteComment(r) PROVE JobInv'
  <2>1. job' = job /\ now' = now /\ fin' = fin /\ objects' \subseteq objects
    BY <1>15 DEF DeleteComment
  <2>2. \A q \in Runs : HasRow(q)' => HasRow(q)
    BY <1>15, StepFacts DEF DeleteComment, NoRow, SaveFinished, HasRow
  <2>3. InPartition(job.part)' \subseteq InPartition(job.part)
    BY <2>1, <2>2 DEF InPartition, PartitionForTime
  <2>4. QED
    BY <1>0, <2>1, <2>3 DEF JobInv
<1>16. ASSUME \/ \E r \in Runs : Watch(r) \/ PersistFinished(r) \/ ExpireFinished(r) \/ Finalize(r) \/ StartDelete(r)
             \/ SaveFails \/ ReadCases \/ SaveTestCases \/ DeleteFails \/ DeleteRun
             \/ FirstPage \/ CollectClusterRuns \/ MergeStoreRuns
      PROVE  JobInv'
  <2>1. job' = job /\ now' = now /\ row' = row /\ fin' = fin /\ objects' = objects
    BY <1>16 DEF SaveFails, ReadCases, SaveTestCases, DeleteFails, DeleteRun, FirstPage,
           CollectClusterRuns, MergeStoreRuns, Watch, PersistFinished, ExpireFinished,
           Finalize, StartDelete
  <2>2. QED
    BY <1>0, <2>1 DEF JobInv, InPartition, HasRow, PartitionForTime
<1>17. ASSUME NEW r \in Runs, UserDelete(r) PROVE JobInv'
  <2>1. job' = job /\ now' = now /\ row' = row /\ fin' = fin
    BY <1>17 DEF UserDelete
  <2>2. InPartition(job.part)' = InPartition(job.part)
    BY <2>1 DEF InPartition, HasRow, PartitionForTime
  <2>3. ASSUME NEW q \in InPartition(job.part), q \in objects' PROVE q \in objects
    <3>1. q \in Runs /\ cr[q] # "live"
      BY <1>0 DEF InPartition, ClusterInv, Unfinished
    <3>2. QED
      BY <2>3, <3>1, StepFacts
  <2>4. QED
    BY <1>0, <2>1, <2>2, <2>3 DEF JobInv
<1>18. QED
  BY <1>17, <1>1, <1>2, <1>3, <1>4, <1>5, <1>6, <1>7, <1>8, <1>9, <1>10, <1>11, <1>12,
     <1>13, <1>14, <1>15, <1>16
     DEF Step, ClusterNext, SaveNext, RetentionNext, ApiNext

LEMMA InitInv == HistoryInit => Inv
<1> SUFFICES ASSUME HistoryInit PROVE Inv
  OBVIOUS
<1>1. ClusterTyped
  BY HistoryAssumption DEF HistoryInit, ClusterTyped, CrStates
<1>2. TablesTyped
  BY RecordTypes DEF HistoryInit, TablesTyped, Parts
<1>3. WorkTyped
  BY RecordTypes DEF HistoryInit, WorkTyped
<1>4. ClusterInv
  BY HistoryAssumption, RecordTypes DEF HistoryInit, ClusterInv, HasRow, Unfinished
<1>5. RowInv
  BY RecordTypes DEF HistoryInit, RowInv, Saved
<1>6. DeleterInv /\ JobInv
  BY RecordTypes DEF HistoryInit, DeleterInv, JobInv
<1>7. QED
  BY <1>1, <1>2, <1>3, <1>4, <1>5, <1>6 DEF Inv, TypeInv

LEMMA NextInv == Inv /\ [HistoryNext]_vars => Inv'
<1> SUFFICES ASSUME Inv, [HistoryNext]_vars PROVE Inv'
  OBVIOUS
<1>1. CASE HistoryNext
  <2>1. Step
    BY <1>1 DEF HistoryNext, Step
  <2>2. QED
    BY <2>1, TypeStep, ClusterStep, RowStep, DeleterStep, JobStep DEF Inv
<1>2. CASE UNCHANGED vars
  BY <1>2 DEF vars, Inv, TypeInv, ClusterTyped, TablesTyped, WorkTyped, ClusterInv, RowInv, Saved,
              DeleterInv, JobInv, InPartition, HasRow
<1>3. QED
  BY <1>1, <1>2

\* Whatever works on history at the same time and wherever it is cut short, the cache is
\* never ahead of the cluster, a row that retention read or the API deletes goes only after the
\* run's objects, and retention only drops months that are over since the whole period.
THEOREM Invariance == HistorySpec => []Inv
<1>1. QED
  BY InitInv, NextInv, PTL DEF HistorySpec

\* No objects are left in the bucket of a run that is in neither the cluster nor history, but
\* for a run deleted with kubectl before it was saved and one saved after the pass that drops
\* its month has read it, for any number of runs and interleaving of saves, retention,
\* deletes and crashes.
THEOREM NothingStranded == HistorySpec => []NoneStranded
<1>1. Inv => NoneStranded
  BY DEF Inv, RowInv, NoneStranded
<1>2. QED
  BY Invariance, <1>1, PTL

-----------------------------------------------------------------------------
(* What stays.                                                             *)

\* Retention and rewriting leave alone what they must: rows and audit entries younger than
\* the period, and comments.
THEOREM HistoryIsKept == HistorySpec => HistoryKept
<1> DEFINE
      Young == /\ \A r \in Runs : HasRow(r) /\ ~HasRow(r)' =>
                     fin[r] < now - Retention \/ (deleter.run = r /\ deleter.pc = "row")
               /\ \A t \in audit \ audit' : t < now - Retention
      Comments == \A r \in Runs : HasRow(r) /\ row[r].comment = 1 /\ HasRow(r)' /\ row'[r].comment = 0 =>
                     budget'.comment < budget.comment
<1>1. ASSUME Inv, Step PROVE Young
  <2>0. ClusterTyped /\ TablesTyped /\ WorkTyped
    BY <1>1 DEF Inv, TypeInv
  <2> USE DEF cluster, tables, work
  <2>1. ASSUME NEW r \in Runs, HasRow(r), ~HasRow(r)'
        PROVE  fin[r] < now - Retention \/ (deleter.run = r /\ deleter.pc = "row")
    <3>1. row'[r] # row[r] /\ row'[r] = NoRow
      BY <2>1 DEF HasRow
    <3>2. DropRuns \/ DeleteRow
      <4>1. ASSUME SaveFinished PROVE FALSE
        BY <2>0, <2>1, <3>1, <4>1 DEF SaveFinished, Upserted, TablesTyped, NoRow, HasRow
      <4>2. ASSUME NEW q \in Runs, PutComment(q) PROVE FALSE
        BY <2>0, <2>1, <3>1, <4>2 DEF PutComment, TablesTyped, NoRow, HasRow, Row
      <4>3. ASSUME NEW q \in Runs, DeleteComment(q) PROVE FALSE
        BY <2>0, <2>1, <3>1, <4>3 DEF DeleteComment, TablesTyped, NoRow, HasRow, Row
      <4>4. QED
        BY <1>1, <3>1, <4>1, <4>2, <4>3
           DEF Step, ClusterNext, SaveNext, RetentionNext, ApiNext, Tick, SaveFails, ReadCases,
               SaveTestCases, StartPass, RunsIn, JobFails, RemoveObjects, DropCases, PruneAudit,
               DeleteFails, DeleteObjects, DeleteRun, FirstPage, CollectClusterRuns, MergeStoreRuns,
               Crash, Finish, Watch, PersistFinished, ExpireFinished, Finalize, UserDelete, StartDelete
    <3>3. CASE DropRuns
      <4>1. PartitionForTime(fin[r]) = job.part /\ job.pc = "dropRuns"
        BY <2>0, <2>1, <3>1, <3>3 DEF DropRuns, InPartition, TablesTyped
      <4>2. QED
        BY <1>1, <4>1, DroppedIsOld
    <3>4. CASE DeleteRow
      BY <2>0, <3>1, <3>4 DEF DeleteRow, TablesTyped
    <3>5. QED
      BY <3>2, <3>3, <3>4
  <2>2. ASSUME NEW t \in audit \ audit' PROVE t < now - Retention
    <3>1. PruneAudit
      BY <1>1, <2>2
         DEF Step, ClusterNext, SaveNext, RetentionNext, ApiNext, Tick, SaveFails, SaveFinished,
             ReadCases, SaveTestCases, StartPass, RunsIn, JobFails, RemoveObjects, DropCases, DropRuns,
             DeleteFails, DeleteObjects, DeleteRun, DeleteRow, FirstPage, CollectClusterRuns,
             MergeStoreRuns, Crash, Finish, Watch, PersistFinished, ExpireFinished, Finalize, UserDelete,
             StartDelete, PutComment, DeleteComment
    <3>2. ~(t >= job.cutoff) /\ job.cutoff + Retention <= now
      BY <1>1, <2>2, <3>1 DEF PruneAudit, Inv, JobInv
    <3>3. t \in Nat /\ job.cutoff \in Nat /\ now \in Nat /\ Retention \in Nat
      BY <2>0, <2>2, HistoryAssumption DEF TablesTyped, ClusterTyped, WorkTyped, Job
    <3>4. QED
      BY <3>2, <3>3
  <2>3. QED
    BY <2>1, <2>2
<1>2. ASSUME Inv, Step PROVE Comments
  <2>0. ClusterTyped /\ TablesTyped
    BY <1>2 DEF Inv, TypeInv
  <2> SUFFICES ASSUME NEW r \in Runs, HasRow(r), row[r].comment = 1, HasRow(r)', row'[r].comment = 0
               PROVE  budget'.comment < budget.comment
    OBVIOUS
  <2> USE DEF cluster, tables, work
  <2>1. row'[r] # row[r]
    OBVIOUS
  <2>2. ASSUME SaveFinished PROVE FALSE
    BY <2>0, <2>1, <2>2 DEF SaveFinished, Upserted, TablesTyped
  <2>3. ASSUME DropRuns PROVE FALSE
    BY <2>0, <2>1, <2>3 DEF DropRuns, HasRow, TablesTyped
  <2>4. ASSUME DeleteRow PROVE FALSE
    BY <2>0, <2>1, <2>4 DEF DeleteRow, HasRow, TablesTyped
  <2>5. \E q \in Runs : PutComment(q) \/ DeleteComment(q)
    BY <1>2, <2>1, <2>2, <2>3, <2>4
       DEF Step, ClusterNext, SaveNext, RetentionNext, ApiNext, Tick, SaveFails, ReadCases,
           SaveTestCases, StartPass, RunsIn, JobFails, RemoveObjects, DropCases, PruneAudit,
           DeleteFails, DeleteObjects, DeleteRun, FirstPage, CollectClusterRuns, MergeStoreRuns,
           Crash, Finish, Watch, PersistFinished, ExpireFinished, Finalize, UserDelete, StartDelete
  <2>6. Spend("comment")
    BY <2>5 DEF PutComment, DeleteComment
  <2>7. budget \in [HistoryKinds -> Nat] /\ "comment" \in HistoryKinds
    BY <2>0 DEF ClusterTyped, HistoryKinds
  <2>8. budget["comment"] \in Nat /\ budget'["comment"] = budget["comment"] - 1
    BY <2>6, <2>7 DEF Spend
  <2>9. QED
    BY <2>8
<1>3. Inv /\ [HistoryNext]_vars => [Young]_vars /\ [Comments]_vars
  BY <1>1, <1>2 DEF HistoryNext, Step
<1>4. QED
  BY Invariance, <1>3, PTL DEF HistorySpec, HistoryKept, RetentionKeepsYoung, CommentKept

-----------------------------------------------------------------------------
(* Pages.                                                                  *)

\* (finishedAt, uid) orders the runs, and a run's cursor has its place in that order.
LEMMA NewerOrders ==
    ASSUME fin \in [Runs -> Nat], NEW a \in Runs, NEW b \in Runs, NEW c \in Runs
    PROVE  /\ ~Newer(a, a)
           /\ Newer(a, b) /\ Newer(b, c) => Newer(a, c)
           /\ a = b \/ Newer(a, b) \/ Newer(b, a)
           /\ Before([at |-> fin[a], uid |-> a], b) <=> Newer(a, b)
<1>1. fin[a] \in Nat /\ fin[b] \in Nat /\ fin[c] \in Nat /\ a \in Nat /\ b \in Nat /\ c \in Nat
  BY HistoryAssumption
<1>2. QED
  BY <1>1 DEF Newer, Before

\* What comes after a run that comes after the cursor comes after the cursor.
LEMMA BeforeOn ==
    ASSUME fin \in [Runs -> Nat], NEW cursor \in Cursor, NEW a \in Runs, NEW b \in Runs,
           Before(cursor, a), Newer(a, b)
    PROVE  Before(cursor, b)
<1>1. /\ fin[a] \in Nat /\ fin[b] \in Nat /\ a \in Nat /\ b \in Nat
      /\ cursor.at \in Nat /\ cursor.uid \in Nat
  BY HistoryAssumption DEF Cursor
<1>2. QED
  BY <1>1 DEF Newer, Before

LEMMA FiniteRuns ==
    ASSUME NEW S \in SUBSET Runs
    PROVE  IsFiniteSet(S) /\ Cardinality(S) \in Nat
BY HistoryAssumption, FS_Subset, FS_CardinalityType

\* A page leaves a run out only when it is full, of newer runs.
LEMMA FullPage ==
    ASSUME NEW S \in SUBSET Runs, NEW page \in SUBSET S, Newest(page, S), NEW r \in S \ page
    PROVE  Cardinality(page) = Limit /\ Cardinality(S) > Limit /\ \A x \in page : Newer(x, r)
<1>1. IsFiniteSet(S) /\ Cardinality(S) \in Nat
  BY FiniteRuns
<1>2. Cardinality(page) # Cardinality(S)
  BY <1>1, FS_Subset
<1>3. QED
  BY <1>2 DEF Newest

\* A page is empty only when there is nothing.
LEMMA EmptyPage ==
    ASSUME NEW S \in SUBSET Runs, Newest({}, S)
    PROVE  S = {}
<1>1. IsFiniteSet(S) /\ Cardinality(S) \in Nat /\ Limit \in Nat \ {0} /\ Cardinality({}) = 0
  BY FiniteRuns, HistoryAssumption, FS_EmptySet
<1>2. Cardinality(S) = 0
  BY <1>1 DEF Newest
<1>3. QED
  BY <1>1, <1>2, FS_EmptySet

\* When the store's rows are cut before a run and none of them is passed over, the page that
\* is made of them and the cluster's runs ends before that run too.
LEMMA PageEndsBefore ==
    ASSUME fin \in [Runs -> Nat], NEW S \in SUBSET Runs, NEW rows \in SUBSET S, NEW page \in SUBSET S,
           Newest(page, S), Cardinality(rows) = Limit, NEW r \in Runs \ S,
           \A x \in rows : Newer(x, r), NEW last \in page, \A x \in page \ {last} : Newer(x, last)
    PROVE  Newer(last, r)
<1> SUFFICES ASSUME ~Newer(last, r) PROVE FALSE
  OBVIOUS
<1>1. last \in Runs /\ last # r /\ Newer(r, last)
  BY NewerOrders
<1>2. ASSUME NEW x \in rows PROVE x \in page /\ x # last
  <2>1. x \in Runs /\ Newer(x, last)
    BY <1>1, <1>2, NewerOrders
  <2>2. x # last
    BY <1>1, <2>1, NewerOrders
  <2>3. CASE x \notin page
    <3>1. Newer(last, x)
      BY <1>2, <2>3 DEF Newest
    <3>2. QED
      BY <1>1, <2>1, <3>1, NewerOrders
  <2>4. QED
    BY <2>2, <2>3
<1>3. rows \subseteq page \ {last} /\ page \in SUBSET Runs /\ rows \in SUBSET Runs
  BY <1>2
<1>4. /\ IsFiniteSet(page) /\ Cardinality(page) \in Nat /\ Cardinality(rows) \in Nat
      /\ Cardinality(S) \in Nat
  BY <1>3, FiniteRuns
<1>5. Cardinality(rows) <= Cardinality(page) /\ rows # page
  BY <1>3, <1>4, FS_Subset
<1>6. Cardinality(rows) # Cardinality(page)
  BY <1>3, <1>4, <1>5, FS_Subset
<1>7. Cardinality(page) <= Limit
  BY <1>4, HistoryAssumption DEF Newest
<1>8. QED
  BY <1>4, <1>5, <1>6, <1>7

\* What a step leaves alone of a run that has ended, and of the cache.
LEMMA ListedStays ==
    ASSUME Inv, Step
    PROVE  /\ \A r \in Listable : r \in Runs /\ cr[r] # "live" /\ shown[r] \notin Unfinished
           /\ \A r \in Runs : cr[r] # "live" => fin'[r] = fin[r] /\ cr'[r] # "live"
           /\ \A r \in Runs : shown[r] = "none" => shown'[r] = "none"
<1>1. \A r \in Listable : r \in Runs /\ cr[r] # "live" /\ shown[r] \notin Unfinished
  BY DEF Inv, ClusterInv, Listable, IsTerminalPhase, Unfinished
<1>2. \A r \in Runs : cr[r] # "live" => fin'[r] = fin[r] /\ cr'[r] # "live"
  BY StepFacts
<1>3. ASSUME NEW r \in Runs, shown[r] = "none" PROVE shown'[r] = "none"
  <2>1. cr[r] = "none" /\ shown \in [Runs -> CrStates]
    BY <1>3 DEF Inv, ClusterInv, TypeInv, ClusterTyped
  <2>2. ASSUME NEW q \in Runs, Watch(q) PROVE shown'[r] = "none"
    BY <1>3, <2>1, <2>2 DEF Watch
  <2>3. ASSUME shown' # shown PROVE \E q \in Runs : Watch(q)
    BY <2>3 DEF cluster, tables, work, Step, ClusterNext, SaveNext, RetentionNext, ApiNext, Tick,
           SaveFails, SaveFinished, ReadCases, SaveTestCases, StartPass, RunsIn, JobFails,
           RemoveObjects, DropCases, DropRuns, PruneAudit, DeleteFails, DeleteObjects, DeleteRun,
           DeleteRow, FirstPage, CollectClusterRuns, MergeStoreRuns, Crash, Finish,
           PersistFinished, ExpireFinished, Finalize, UserDelete, StartDelete, PutComment, DeleteComment
  <2>4. QED
    BY <1>3, <2>2, <2>3
<1>4. QED
  BY <1>1, <1>2, <1>3

\* Steps that leave the client alone.
LEMMA PagerStands ==
    ASSUME Inv, PagerInv, HistoryNext, pager' = pager
    PROVE  PagerInv'
<1>0. Step /\ pager \in Pager /\ there' \subseteq Listable'
  BY DEF Inv, TypeInv, WorkTyped, HistoryNext, Step
<1>1. /\ \A r \in there : r \in Runs /\ cr[r] # "live"
      /\ \A r \in pager.seen \union pager.passed \union pager.finished : r \in Runs /\ cr[r] # "live"
      /\ \A r \in Runs : cr[r] # "live" => fin'[r] = fin[r] /\ cr'[r] # "live"
      /\ \A r \in Runs : shown[r] = "none" => shown'[r] = "none"
  BY <1>0, ListedStays DEF PagerInv, Pager
<1>2. pager.pc # "idle" => there' \subseteq there
  BY DEF HistoryNext
<1>3. \A r \in Runs : cr[r] # "live" => (Before(pager.cursor, r)' <=> Before(pager.cursor, r))
  BY <1>1 DEF Before
<1>4. \A r \in there : Covered(r) => Covered(r)'
  BY <1>1 DEF Covered, Newer
<1>5. \A r \in (pager.seen \union pager.passed \union pager.finished)' : cr'[r] # "live"
  BY <1>1
<1>6. CASE pager.pc = "idle"
  BY <1>0, <1>5, <1>6 DEF PagerInv
<1>7. CASE pager.pc # "idle"
  <2>1. pager.pc \in {"cluster", "store"} =>
          /\ \A r \in there' : (Covered(r) \/ Before(pager.cursor, r))'
          /\ \A r \in pager.seen : ~Before(pager.cursor, r)'
    BY <1>1, <1>2, <1>3, <1>4, <1>7 DEF PagerInv
  <2>2. pager.pc = "store" =>
          /\ \A r \in pager.finished : Before(pager.cursor, r)'
          /\ \A r \in there' : /\ r \notin pager.live
                               /\ Covered(r)' \/ r \in pager.finished \/ shown'[r] = "none"
    BY <1>1, <1>2, <1>3, <1>4, <1>7 DEF PagerInv
  <2>3. pager.pc = "done" => \A r \in there' : Covered(r)'
    BY <1>2, <1>4, <1>7 DEF PagerInv
  <2>4. QED
    BY <1>0, <1>5, <1>7, <2>1, <2>2, <2>3 DEF PagerInv
<1>8. QED
  BY <1>6, <1>7

LEMMA FirstPageStep ==
    ASSUME Inv, PagerInv, HistoryNext, FirstPage
    PROVE  PagerInv'
<1>1. /\ pager' = [IdlePager EXCEPT !.pc = "cluster"] /\ fin' = fin /\ there' \subseteq Listable'
      /\ shown' = shown /\ row' = row
  BY DEF FirstPage, cluster, tables, HistoryNext
<1>2. /\ pager'.pc = "cluster" /\ pager'.cursor = NoCursor /\ pager'.seen = {} /\ pager'.passed = {}
      /\ pager'.finished = {} /\ pager'.twice = {}
  BY <1>1 DEF IdlePager
<1>3. \A r \in Runs : fin[r] \in Nat /\ fin[r] <= now /\ now <= Horizon /\ now \in Nat /\ Horizon \in Nat
  BY HistoryAssumption DEF Inv, TypeInv, ClusterTyped, ClusterInv
<1>4. \A r \in Runs : fin[r] < Horizon + 1
  BY <1>3
<1>5. \A r \in Runs : Before(pager.cursor, r)'
  BY <1>1, <1>2, <1>4 DEF Before, NoCursor
<1>6. QED
  BY <1>1, <1>2, <1>5 DEF PagerInv, Listable

LEMMA CollectStep ==
    ASSUME Inv, PagerInv, HistoryNext, CollectClusterRuns
    PROVE  PagerInv'
<1>0. Step /\ pager \in Pager
  BY DEF Inv, TypeInv, WorkTyped, HistoryNext, Step
<1>1. /\ fin' = fin /\ shown' = shown /\ row' = row /\ cr' = cr /\ pager.pc = "cluster"
      /\ there' \subseteq there /\ there' \subseteq Listable'
  BY DEF CollectClusterRuns, cluster, tables, HistoryNext
<1>2. /\ pager'.pc = "store" /\ pager'.cursor = pager.cursor /\ pager'.seen = pager.seen
      /\ pager'.passed = pager.passed /\ pager'.twice = pager.twice
      /\ pager'.live = {r \in Runs : shown[r] \in Unfinished}
      /\ pager'.finished = {r \in Runs : IsTerminalPhase(shown[r]) /\ Before(pager.cursor, r)}
  BY <1>0 DEF CollectClusterRuns, Pager
<1>3. \A r \in there : r \in Runs /\ shown[r] \notin Unfinished
  BY <1>0, ListedStays DEF PagerInv
<1>4. \A r \in there : shown[r] = "none" \/ IsTerminalPhase(shown[r])
  BY DEF PagerInv, Listable
<1>5. \A r \in Runs : Before(pager.cursor, r)' <=> Before(pager.cursor, r)
  BY <1>1, <1>2 DEF Before
<1>6. \A r \in Runs : Covered(r)' <=> Covered(r)
  BY <1>1, <1>2 DEF Covered, Newer
<1>7. \A r \in pager'.finished : cr[r] # "live"
  BY <1>2 DEF Inv, ClusterInv, IsTerminalPhase, Unfinished
<1>8. \A r \in there' : (Covered(r) \/ Before(pager.cursor, r))'
  BY <1>1, <1>3, <1>5, <1>6 DEF PagerInv
<1>9. \A r \in there' : r \notin pager'.live /\ (Covered(r)' \/ r \in pager'.finished \/ shown'[r] = "none")
  BY <1>1, <1>2, <1>3, <1>4, <1>5, <1>6, <1>8
<1>10. (\A r \in pager.seen : ~Before(pager.cursor, r))' /\ pager'.twice = {}
  BY <1>0, <1>1, <1>2, <1>5 DEF PagerInv, Pager
<1>11. \A r \in pager'.finished : Before(pager.cursor, r)'
  BY <1>2, <1>5
<1>12. \A r \in (pager.seen \union pager.passed \union pager.finished)' : cr'[r] # "live"
  BY <1>1, <1>2, <1>7 DEF PagerInv
<1>13. QED
  BY <1>1, <1>2, <1>8, <1>9, <1>10, <1>11, <1>12 DEF PagerInv

LEMMA MergeStep ==
    ASSUME Inv, PagerInv, HistoryNext, MergeStoreRuns
    PROVE  PagerInv'
<1> DEFINE after == {r \in Runs : HasRow(r) /\ Before(pager.cursor, r)}
<1>0. /\ Step /\ pager \in Pager /\ fin \in [Runs -> Nat] /\ pager.cursor \in Cursor
      /\ pager.pc = "store" /\ after \in SUBSET Runs
  BY DEF Inv, TypeInv, WorkTyped, ClusterTyped, HistoryNext, Step, MergeStoreRuns, Pager
<1>1. /\ fin' = fin /\ shown' = shown /\ row' = row /\ cr' = cr
      /\ there' \subseteq there /\ there' \subseteq Listable'
  BY DEF MergeStoreRuns, cluster, tables, HistoryNext
<1>2. PICK rows \in SUBSET after : \E page \in SUBSET Merged(rows) : \E cursor \in Cursors(page) :
          Newest(rows, after) /\ Newest(page, Merged(rows)) /\ pager' = Turned(rows, page, cursor)
  BY DEF MergeStoreRuns
<1>3. PICK page \in SUBSET Merged(rows) : \E cursor \in Cursors(page) :
          Newest(rows, after) /\ Newest(page, Merged(rows)) /\ pager' = Turned(rows, page, cursor)
  BY <1>2
<1>4. PICK cursor \in Cursors(page) :
          Newest(rows, after) /\ Newest(page, Merged(rows)) /\ pager' = Turned(rows, page, cursor)
  BY <1>3
<1>5. /\ rows \in SUBSET Runs /\ Merged(rows) \in SUBSET Runs /\ page \in SUBSET Runs
      /\ pager.seen \in SUBSET Runs /\ pager.passed \in SUBSET Runs /\ pager.finished \in SUBSET Runs
  BY <1>0 DEF Merged, Pager
<1>6. /\ pager'.pc = IF HasMore(rows) /\ page # {} THEN "cluster" ELSE "done"
      /\ pager'.cursor = cursor /\ pager'.finished = {}
      /\ pager'.passed = pager.passed \union (rows \intersect pager.live)
      /\ pager'.seen = pager.seen \union page
      /\ pager'.twice = pager.twice \union (pager.seen \intersect page)
  BY <1>0, <1>4 DEF Turned, Pager
<1>7. \A r \in rows : HasRow(r) /\ Before(pager.cursor, r) /\ cr[r] # "live"
  BY DEF Inv, ClusterInv, Unfinished
<1>8. \A r \in Merged(rows) : Before(pager.cursor, r) /\ cr[r] # "live"
  BY <1>0, <1>7 DEF PagerInv, Merged
<1> HIDE DEF after
<1>9. pager'.twice = {}
  BY <1>0, <1>6, <1>8 DEF PagerInv
<1>10. \A r \in (pager.seen \union pager.passed \union pager.finished)' : cr'[r] # "live"
  BY <1>1, <1>6, <1>7, <1>8 DEF PagerInv
<1>11. \A r \in Runs : Covered(r)' <=> \/ r \in pager.seen \union page
                                       \/ \E q \in pager.passed \union (rows \intersect pager.live) : Newer(q, r)
  BY <1>1, <1>6 DEF Covered, Newer
\* A run the page does not cover was cut off the page, or off the store's rows.
<1>12. ASSUME NEW r \in there', ~Covered(r)'
       PROVE  /\ r \in Runs /\ HasMore(rows)
              /\ \/ r \in Merged(rows) \ page
                 \/ /\ r \notin Merged(rows) /\ Cardinality(rows) = Limit
                    /\ rows \subseteq Merged(rows) /\ \A x \in rows : Newer(x, r)
              /\ page # {}
  <2>1. r \in Runs /\ r \in there
    BY <1>0, <1>1, <1>12, ListedStays DEF PagerInv
  <2>2. ~Covered(r)
    BY <1>11, <1>12, <2>1 DEF Covered
  <2>3. Before(pager.cursor, r) /\ r \notin pager.live /\ (r \in pager.finished \/ shown[r] = "none")
    BY <1>0, <2>1, <2>2 DEF PagerInv
  <2>4. r \in pager.finished \/ r \in after
    <3>1. r \in Listable
      BY <2>1 DEF PagerInv
    <3>2. shown[r] = "none" => HasRow(r)
      BY <3>1 DEF Listable, IsTerminalPhase
    <3>3. QED
      BY <2>1, <2>3, <3>2 DEF after
  <2>5. r \notin page
    BY <1>11, <1>12, <2>1
  <2>6. CASE r \in Merged(rows)
    <3>1. Cardinality(page) = Limit /\ Cardinality(Merged(rows)) > Limit
      BY <1>4, <1>5, <2>5, <2>6, FullPage
    <3>2. page # {}
      BY <1>4, <1>5, <2>6, EmptyPage
    <3>3. QED
      BY <2>1, <2>5, <2>6, <3>1, <3>2 DEF HasMore
  <2>7. CASE r \notin Merged(rows)
    <3>1. r \in after \ rows
      BY <2>3, <2>4, <2>7 DEF Merged
    <3>2. Cardinality(rows) = Limit /\ \A x \in rows : Newer(x, r)
      BY <1>0, <1>4, <3>1, FullPage
    <3>3. rows \intersect pager.live = {}
      BY <1>11, <1>12, <2>1, <3>2
    <3>4. rows \subseteq Merged(rows)
      BY <3>3 DEF Merged
    <3>5. HasMore(rows)
      BY <3>2, HistoryAssumption DEF HasMore
    <3>6. page # {}
      <4>1. rows # {}
        BY <1>0, <1>4, <3>1, EmptyPage
      <4>2. QED
        BY <1>4, <1>5, <3>4, <4>1, EmptyPage
    <3>7. QED
      BY <2>1, <2>7, <3>2, <3>4, <3>5, <3>6
  <2>8. QED
    BY <2>6, <2>7
<1>13. pager'.pc = "done" => \A r \in there' : Covered(r)'
  BY <1>6, <1>12
<1>14. ASSUME page # {}
       PROVE  /\ \A r \in there' : (Covered(r) \/ Before(pager.cursor, r))'
              /\ \A r \in pager'.seen : ~Before(pager.cursor, r)'
  <2>1. PICK last \in page : cursor = [at |-> fin[last], uid |-> last] /\ \A q \in page \ {last} : Newer(q, last)
    BY <1>14, <1>4 DEF Cursors
  <2>2. last \in Runs /\ last \in Merged(rows) /\ \A r \in Runs : Before(pager.cursor, r)' <=> Newer(last, r)
    BY <1>0, <1>1, <1>5, <1>6, <2>1, NewerOrders DEF Before
  <2>3. ASSUME NEW r \in there', ~Covered(r)' PROVE Newer(last, r)
    <3>1. CASE r \in Merged(rows) \ page
      BY <1>4, <1>5, <3>1, FullPage
    <3>2. CASE /\ r \notin Merged(rows) /\ Cardinality(rows) = Limit
               /\ rows \subseteq Merged(rows) /\ \A x \in rows : Newer(x, r)
      <4>1. r \in Runs
        BY <1>12, <2>3
      <4>2. QED
        BY <1>0, <1>4, <1>5, <2>1, <3>2, <4>1, PageEndsBefore
    <3>3. QED
      BY <1>12, <2>3, <3>1, <3>2
  <2>4. ASSUME NEW r \in pager'.seen PROVE ~Newer(last, r)
    <3>1. CASE r \in page
      BY <1>0, <1>5, <2>1, <2>2, <3>1, NewerOrders
    <3>2. CASE r \in pager.seen
      <4>1. ~Before(pager.cursor, r) /\ Before(pager.cursor, last) /\ r \in Runs
        BY <1>0, <1>5, <1>8, <2>2, <3>2 DEF PagerInv
      <4>2. QED
        BY <1>0, <2>2, <4>1, BeforeOn
    <3>3. QED
      BY <1>6, <2>4, <3>1, <3>2
  <2>5. \A r \in there' : r \in Runs
    BY <1>0, <1>1, ListedStays DEF PagerInv
  <2>6. \A r \in pager'.seen : r \in Runs
    BY <1>5, <1>6
  <2>7. QED
    BY <2>2, <2>3, <2>4, <2>5, <2>6
<1>15. QED
  BY <1>1, <1>6, <1>9, <1>10, <1>13, <1>14 DEF PagerInv

LEMMA PagerStep == Inv /\ PagerInv /\ [HistoryNext]_vars => PagerInv'
<1> SUFFICES ASSUME Inv, PagerInv, [HistoryNext]_vars PROVE PagerInv'
  OBVIOUS
<1>1. CASE HistoryNext
  <2>1. CASE Crash
    <3>1. pager' = [IdlePager EXCEPT !.pc = "gone"] /\ there' \subseteq Listable'
      BY <1>1, <2>1 DEF Crash, HistoryNext
    <3>2. pager'.pc = "gone" /\ pager'.seen = {} /\ pager'.passed = {} /\ pager'.finished = {}
      BY <3>1 DEF IdlePager
    <3>3. QED
      BY <3>1, <3>2 DEF PagerInv
  <2>2. CASE FirstPage \/ CollectClusterRuns \/ MergeStoreRuns
    BY <1>1, <2>2, FirstPageStep, CollectStep, MergeStep
  <2>3. CASE ~Crash /\ ~FirstPage /\ ~CollectClusterRuns /\ ~MergeStoreRuns
    <3>1. pager' = pager
      BY <1>1, <2>3 DEF work, HistoryNext, ClusterNext, SaveNext, RetentionNext, ApiNext, Tick,
             SaveFails, SaveFinished, ReadCases, SaveTestCases, StartPass, RunsIn, JobFails,
             RemoveObjects, DropCases, DropRuns, PruneAudit, DeleteFails, DeleteObjects, DeleteRun,
             DeleteRow, Finish, Watch, PersistFinished, ExpireFinished, Finalize, UserDelete, StartDelete,
             PutComment, DeleteComment
    <3>2. QED
      BY <1>1, <3>1, PagerStands
  <2>4. QED
    BY <2>1, <2>2, <2>3
<1>2. CASE UNCHANGED vars
  BY <1>2 DEF vars, PagerInv, Listable, HasRow, Covered, Newer, Before
<1>3. QED
  BY <1>1, <1>2

\* A client that follows the cursor to the last page is given no run twice and every run that
\* was there all the time, but for runs older than a row that a page passed over, for every
\* page size and however runs end, expire and are deleted meanwhile.
THEOREM PagesCover == HistorySpec => []PagesCoverAll
<1>1. HistoryInit => PagerInv
  <2> SUFFICES ASSUME HistoryInit PROVE PagerInv
    OBVIOUS
  <2>1. pager = IdlePager /\ there \subseteq Listable
    BY DEF HistoryInit, Listable, IsTerminalPhase
  <2>2. /\ pager.pc = "idle" /\ pager.seen = {} /\ pager.passed = {} /\ pager.finished = {}
        /\ pager.twice = {}
    BY <2>1 DEF IdlePager
  <2>3. QED
    BY <2>1, <2>2 DEF PagerInv
<1>2. PagerInv => PagesCoverAll
  BY DEF PagerInv, PagesCoverAll, Covered
<1>3. QED
  BY Invariance, PagerStep, <1>1, <1>2, PTL DEF HistorySpec
=============================================================================
