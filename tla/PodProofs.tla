----------------------------- MODULE PodProofs -----------------------------
(***************************************************************************)
(* Proofs about what a run executes. Wrapper: the pod, for any number of   *)
(* tries, parts and upload attempts, and any budget of faults. MCDecisions *)
(* and Definitions: the pods that the operator makes of a Test, for any    *)
(* definitions, overrides and policy; the composition of Tests, the        *)
(* rendering of texts and the workers of a parallel Test, whatever the     *)
(* bounds on the inputs.                                                   *)
(***************************************************************************)
EXTENDS Wrapper, MCDecisions, WellFoundedInduction, TLAPS

-----------------------------------------------------------------------------
(* Type correctness.                                                       *)

Stages == {"fetch", "load", "tool", "again", "classify", "scrape", "terminate", "write",
           "upload", "exited", "killed"}
Report == [says : {"none", "pass", "fail", "empty", "bad"}, try : Nat]
Attempt == [phase : Phases \union {""}, ran : BOOLEAN]
Result == [phase : Phases \union {""}, ran : BOOLEAN, exit : {0, 1}, attempts : Seq(Attempt),
           artifacts : SUBSET Reports, cut : BOOLEAN, touched : BOOLEAN]
Object == [phase : Phases \union {""}, artifacts : SUBSET Reports]
Bucket == [artifacts : SUBSET Reports, result : Object]
Scrape == [todo : SUBSET Reports, attempts : Nat, grace : BOOLEAN]

TypeInv ==
    /\ from \in {"exit", "junit", "jtl"} /\ stage \in Stages /\ fetched \in Nat
    /\ ctx \in {"alive", "deadline", "cancelled"} /\ try \in Nat
    /\ report \in [Reports -> Report] /\ result \in Result
    /\ scrape \in Scrape
    /\ bucket \in Bucket
    /\ message \in Phases \union {"", "FETCH_ERROR"}

\* Where the pod stands: nothing is judged before the tool has run, the message is written
\* after the judgement and result.json last of all.
Placed ==
    /\ stage \notin {"fetch", "exited", "killed"} => fetched = Len(Parts)
    /\ message \in {"passed", "failed"} => fetched = Len(Parts)
    /\ stage \in {"fetch", "load"} => try = 0
    /\ stage \in {"tool", "again", "classify"} => try > 0
    /\ stage \in {"fetch", "load", "tool", "again", "classify", "scrape", "terminate"} => message = ""
    /\ stage \in {"write", "upload"} => message \in {"", result.phase}
    /\ stage = "exited" => message \in {"", "FETCH_ERROR", result.phase}
    /\ stage = "killed" => message \in {"", result.phase}
    /\ bucket.result # NoObject =>
          stage = "exited" /\ message \in {"", result.phase} /\ bucket.result.phase = result.phase
    /\ result.phase \in {"passed", "failed"} => fetched = Len(Parts)

\* The result is the last try's own, and a pass stays what it was judged from.
Earned ==
    /\ stage \in {"again", "classify"} => result.phase = RunToolVerdict(result.ran, result.exit, report)
    /\ result.phase = "passed" => /\ stage \notin {"fetch", "load", "tool"}
                                  /\ RunToolVerdict(result.ran, result.exit, report) = "passed"
                                  /\ from # "exit" => result.touched
    /\ stage \in {"again", "classify"} /\ result.cut => ctx # "alive"
    /\ result.phase = "passed" /\ result.cut =>
          stage \in {"again", "classify"} \/ (stage = "killed" /\ message = "")
    /\ stage \in {"fetch", "load"} => report = [f \in Reports |-> NoReport]
    /\ stage = "tool" /\ from # "exit" => RunToolVerdict(FALSE, 0, report) # "passed"

\* What the result names has been stored.
StoredInv ==
    /\ result.artifacts \subseteq bucket.artifacts
    /\ bucket.result # NoObject => bucket.result.artifacts \subseteq bucket.artifacts

\* A try that is followed by another.
Unsuccessful(a) == a.phase # "passed" /\ (from = "exit" => a.ran)

\* The attempts so far, one for each try but the one in progress.
Told ==
    /\ stage \in {"fetch", "load"} => result.attempts = <<>>
    /\ stage \in {"tool", "again"} =>
          /\ try <= Retry + 1 /\ Len(result.attempts) = try - 1
          /\ \A i \in 1 .. try - 1 : Unsuccessful(result.attempts[i])
    /\ stage = "classify" =>
          \/ result.attempts = <<>>
          \/ Len(result.attempts) = try /\ \A i \in 1 .. try - 1 : Unsuccessful(result.attempts[i])
    /\ stage = "scrape" /\ Len(result.attempts) > 0 =>
          /\ Len(result.attempts) = try /\ result.attempts[try].phase = result.phase
          /\ \A i \in 1 .. try - 1 : Unsuccessful(result.attempts[i])

Inv == TypeInv /\ Placed /\ Earned /\ StoredInv /\ Told

-----------------------------------------------------------------------------
(* What a verdict says of the reports it is made from.                     *)

LEMMA VerdictRange ==
    ASSUME from \in {"exit", "junit", "jtl"}, NEW ran, NEW exit, NEW reports
    PROVE  RunToolVerdict(ran, exit, reports) \in {"passed", "failed", "error"}
<1>1. BaseVerdict(ran, exit) \in {"passed", "failed", "error"}
  BY DEF BaseVerdict
<1>2. JUnitVerdict(reports) \in {"passed", "failed", "error"}
  BY DEF JUnitVerdict
<1>3. JTLVerdict(reports) \in {"passed", "failed", "error"}
  BY DEF JTLVerdict
<1> QED  BY <1>1, <1>2, <1>3 DEF RunToolVerdict

\* Reports decide alone.
LEMMA VerdictByReports ==
    ASSUME from \in {"junit", "jtl"}, NEW ran, NEW exit, NEW reports
    PROVE  RunToolVerdict(ran, exit, reports) = RunToolVerdict(FALSE, 0, reports)
  BY DEF RunToolVerdict

LEMMA JUnitFacts ==
    ASSUME NEW reports, JUnitVerdict(reports) = "passed"
    PROVE  /\ Failing(reports) = {} /\ Parsed(reports) # {}
           /\ \E f \in Reports : reports[f].says = "pass"
<1>1. Scan(reports) = "pass"
  BY DEF JUnitVerdict
<1> QED  BY <1>1 DEF Scan, Parsed

LEMMA JTLFacts ==
    ASSUME NEW reports, JTLVerdict(reports) = "passed"
    PROVE  /\ Parsed(reports) # {}
           /\ \E f \in FindJTL(reports) : reports[f].says \in {"pass", "empty"}
<1>1. PICK f \in FindJTL(reports) \intersect Parsed(reports) : f \notin Failing(reports)
  BY DEF JTLVerdict
<1> QED  BY <1>1 DEF Parsed, Failing

-----------------------------------------------------------------------------
(* One fact about each kind of step.                                       *)

LEMMA Steps ==
    ASSUME WrapperNext
    PROVE  \/ \E part : FetchPart(part)
           \/ FetchFails \/ ContentReady \/ WriteErrorResult \/ LoadRequest
           \/ ToolExits \/ ToolDoesNotStart \/ ToolIsKilled \/ Again \/ LastTry \/ Classify
           \/ \E f \in Reports : ScrapeFile(f) \/ UploadFails(f)
           \/ ScrapeEnds \/ GraceEnds \/ WriteTermination \/ WriteTerminationFails \/ WriteResultAtomic
           \/ WriteResultFails \/ UploadResult \/ UploadResultFails
           \/ Deadline \/ Sigterm \/ Kill
<1>1. Clone \/ WriteFiles \/ FetchTarballs \/ CheckEmptyMounts => \E part : FetchPart(part)
  BY DEF Clone, WriteFiles, FetchTarballs, CheckEmptyMounts
<1> QED  BY <1>1 DEF WrapperNext, ToolStep, OwnStep, Fault

LEMMA LeftTyped ==
    ASSUME TypeInv, NEW reports \in [Reports -> UNION {Left(f) : f \in Reports}],
           \A f \in Reports : reports[f] \in Left(f)
    PROVE  reports \in [Reports -> Report]
<1>1. ASSUME NEW f \in Reports PROVE reports[f] \in Report
  <2>1. report[f] \in Report /\ NoReport \in Report
    BY DEF TypeInv, Report, NoReport
  <2>2. ASSUME NEW s \in {"pass", "fail", "empty", "bad"} PROVE [says |-> s, try |-> try] \in Report
    BY DEF TypeInv, Report
  <2>3. reports[f] \in Left(f)
    OBVIOUS
  <2> QED  BY <2>1, <2>2, <2>3 DEF Left
<1> QED  BY <1>1

LEMMA ToolEndsTyped ==
    ASSUME TypeInv, NEW ran \in BOOLEAN, NEW exit \in {0, 1}, NEW reports \in [Reports -> Report],
           ToolEnds(ran, exit, reports)
    PROVE  TypeInv'
<1>0. from \in {"exit", "junit", "jtl"}
  BY DEF TypeInv
<1>1. RunToolVerdict(ran, exit, reports) \in Phases
  BY <1>0, VerdictRange DEF Phases
<1>2. result' \in Result
  BY <1>1 DEF ToolEnds, TypeInv, Result
<1> QED  BY <1>2 DEF ToolEnds, TypeInv, Stages

LEMMA ToolEndsJudged ==
    ASSUME Inv, stage = "tool", NEW ran \in BOOLEAN, NEW exit \in {0, 1},
           NEW reports \in [Reports -> Report], ToolEnds(ran, exit, reports)
    PROVE  Earned'
<1>1. /\ result'.phase = RunToolVerdict(ran, exit, reports) /\ result'.ran = ran /\ result'.exit = exit
      /\ result'.cut = (ctx # "alive") /\ result'.touched = (reports # report)
      /\ report' = reports /\ from' = from /\ ctx' = ctx /\ stage' = "again"
  BY DEF ToolEnds, Inv, TypeInv, Result
<1>2. (RunToolVerdict(result.ran, result.exit, report))' = RunToolVerdict(ran, exit, reports)
  BY <1>1 DEF RunToolVerdict
<1>3. from # "exit" /\ RunToolVerdict(ran, exit, reports) = "passed" => reports # report
  <2>1. from \in {"exit", "junit", "jtl"} /\ report \in [Reports -> Report]
    BY DEF Inv, TypeInv
  <2>2. from # "exit" => RunToolVerdict(ran, exit, reports) = RunToolVerdict(FALSE, 0, reports)
    BY <2>1, VerdictByReports
  <2> QED  BY <2>2 DEF Inv, Earned
<1> QED  BY <1>1, <1>2, <1>3 DEF Earned

LEMMA RetriedUnsuccessful ==
    ASSUME Inv, stage = "again", TriesAgain
    PROVE  Unsuccessful(AttemptOf)
<1>1. /\ from \in {"exit", "junit", "jtl"} /\ result.ran \in BOOLEAN /\ result.exit \in {0, 1}
      /\ report \in [Reports -> Report]
  BY DEF Inv, TypeInv, Result
<1>2. result.phase = RunToolVerdict(result.ran, result.exit, report)
  BY DEF Inv, Earned
<1>3. from = "exit" /\ ~result.ran => result.phase = "error"
  BY <1>1, <1>2 DEF RunToolVerdict, BaseVerdict
<1> QED  BY <1>3 DEF TriesAgain, Retryable, AttemptOf, Unsuccessful

LEMMA ToolEndsTold ==
    ASSUME Inv, stage = "tool", NEW ran, NEW exit, NEW reports, ToolEnds(ran, exit, reports)
    PROVE  Told'
  BY DEF ToolEnds, Inv, TypeInv, Result, Told, Unsuccessful

LEMMA AttemptsTyped ==
    ASSUME Inv
    PROVE  /\ [result EXCEPT !.attempts = Append(@, AttemptOf)] \in Result
           /\ [result EXCEPT !.attempts = IF @ = <<>> THEN @ ELSE Append(@, AttemptOf)] \in Result
<1>1. AttemptOf \in Attempt /\ result.attempts \in Seq(Attempt)
  BY DEF Inv, TypeInv, Result, AttemptOf, Attempt
<1>2. Append(result.attempts, AttemptOf) \in Seq(Attempt)
  BY <1>1
<1> QED  BY <1>1, <1>2 DEF Inv, TypeInv, Result

LEMMA ClassifyTyped ==
    ASSUME Inv, Classify
    PROVE  result' \in Result
<1> DEFINE phase == CASE ctx = "deadline" -> "error" [] ctx = "cancelled" -> "aborted" [] OTHER -> result.phase
           n == Len(result.attempts)
           s == IF n = 0 THEN result.attempts ELSE [result.attempts EXCEPT ![n].phase = phase]
<1>1. phase \in Phases \union {""}
  BY DEF Inv, TypeInv, Result, Phases
<1>0. result.attempts \in Seq(Attempt)
  BY DEF Inv, TypeInv, Result
<1>2. result.attempts \in Seq(Attempt) /\ n \in Nat
  BY <1>0
<1> HIDE DEF phase
<1>3. s \in Seq(Attempt)
  <2>1. CASE n = 0  BY <1>2, <2>1
  <2>2. CASE n # 0
    <3>1. n \in 1 .. n /\ result.attempts[n] \in Attempt
      BY <1>2, <2>2
    <3>2. [result.attempts[n] EXCEPT !.phase = phase] \in Attempt
      BY <1>1, <3>1 DEF Attempt
    <3> QED  BY <1>2, <2>2, <3>1, <3>2
  <2> QED  BY <2>1, <2>2
<1>4. result' = [result EXCEPT !.phase = phase, !.attempts = s]
  BY DEF Classify, phase
<1> HIDE DEF s
<1> QED  BY <1>1, <1>3, <1>4 DEF Inv, TypeInv, Result

LEMMA TypeInvStep ==
    ASSUME Inv, WrapperNext
    PROVE  TypeInv'
<1>1. ASSUME NEW part, FetchPart(part) PROVE TypeInv'
  <2>0. fetched \in Nat
    BY DEF Inv, TypeInv
  <2>1. (fetched \in Nat)'
    BY <1>1, <2>0 DEF FetchPart
  <2> QED  BY <1>1, <2>1 DEF FetchPart, Inv, TypeInv
<1>2. ASSUME FetchFails PROVE TypeInv'
  BY <1>2 DEF FetchFails, Inv, TypeInv, Stages, Mishap
<1>3. ASSUME ContentReady PROVE TypeInv'
  BY <1>3 DEF ContentReady, Inv, TypeInv, Stages
<1>4. ASSUME WriteErrorResult PROVE TypeInv'
  BY <1>4 DEF WriteErrorResult, Inv, TypeInv, Stages, Result, Phases
<1>5. ASSUME LoadRequest PROVE TypeInv'
  BY <1>5 DEF LoadRequest, Inv, TypeInv, Stages
<1>6. ASSUME ToolExits PROVE TypeInv'
  <2> PICK exit \in {0, 1}, reports \in [Reports -> UNION {Left(f) : f \in Reports}] :
         (\A f \in Reports : reports[f] \in Left(f)) /\ ToolEnds(TRUE, exit, reports)
    BY <1>6 DEF ToolExits
  <2> QED  BY LeftTyped, ToolEndsTyped DEF Inv
<1>7. ASSUME ToolDoesNotStart PROVE TypeInv'
  <2>1. ToolEnds(FALSE, 0, report) /\ report \in [Reports -> Report]
    BY <1>7 DEF ToolDoesNotStart, Inv, TypeInv
  <2> QED  BY <2>1, ToolEndsTyped DEF Inv
<1>8. ASSUME ToolIsKilled PROVE TypeInv'
  <2> PICK ran \in BOOLEAN, reports \in [Reports -> UNION {Left(f) : f \in Reports}] :
         (\A f \in Reports : reports[f] \in Left(f)) /\ ToolEnds(ran, 1, reports)
    BY <1>8 DEF ToolIsKilled
  <2> QED  BY LeftTyped, ToolEndsTyped DEF Inv
<1>9. ASSUME Again PROVE TypeInv'
  <2>1. result' \in Result
    BY <1>9, AttemptsTyped DEF Again
  <2>0. try \in Nat
    BY DEF Inv, TypeInv
  <2>2. (try \in Nat)'
    BY <1>9, <2>0 DEF Again
  <2> QED  BY <1>9, <2>1, <2>2 DEF Again, Inv, TypeInv, Stages
<1>10. ASSUME LastTry PROVE TypeInv'
  <2>1. result' \in Result
    BY <1>10, AttemptsTyped DEF LastTry
  <2> QED  BY <1>10, <2>1 DEF LastTry, Inv, TypeInv, Stages
<1>11. ASSUME Classify PROVE TypeInv'
  <2>1. result' \in Result
    BY <1>11, ClassifyTyped DEF Classify
  <2>2. scrape' \in Scrape
    BY <1>11 DEF Classify, Present, Scrape
  <2> QED  BY <1>11, <2>1, <2>2 DEF Classify, Inv, TypeInv, Stages
<1>12. ASSUME NEW f \in Reports, ScrapeFile(f) PROVE TypeInv'
  <2>1. result' \in Result
    BY <1>12 DEF ScrapeFile, Inv, TypeInv, Result
  <2>2. bucket' \in Bucket
    BY <1>12 DEF ScrapeFile, Inv, TypeInv, Bucket
  <2>3. scrape' \in Scrape
    BY <1>12 DEF ScrapeFile, Inv, TypeInv, Scrape
  <2> QED  BY <1>12, <2>1, <2>2, <2>3 DEF ScrapeFile, Inv, TypeInv, Stages
<1>13. ASSUME NEW f \in Reports, UploadFails(f) PROVE TypeInv'
  <2>1. scrape \in Scrape
    BY DEF Inv, TypeInv
  <2>2. scrape.attempts + 1 \in Nat /\ scrape.todo \ {f} \in SUBSET Reports
    BY <2>1 DEF Scrape
  <2>3. scrape' \in Scrape
    BY <1>13, <2>1, <2>2 DEF UploadFails, Scrape
  <2> QED  BY <1>13, <2>3 DEF UploadFails, Inv, TypeInv, Stages
<1>14. ASSUME ScrapeEnds PROVE TypeInv'
  BY <1>14 DEF ScrapeEnds, Inv, TypeInv, Stages, NoScrape, Scrape
<1>15. ASSUME GraceEnds PROVE TypeInv'
  BY <1>15 DEF GraceEnds, Inv, TypeInv, Stages, NoScrape, Scrape
<1>16. ASSUME WriteTermination PROVE TypeInv'
  BY <1>16 DEF WriteTermination, WriteTerminationFails, Inv, TypeInv, Stages, Result
<1>17. ASSUME WriteResultAtomic PROVE TypeInv'
  BY <1>17 DEF WriteResultAtomic, Inv, TypeInv, Stages
<1>18. ASSUME WriteResultFails PROVE TypeInv'
  BY <1>18 DEF WriteResultFails, Inv, TypeInv, Stages
<1>19. ASSUME UploadResult PROVE TypeInv'
  <2>1. [phase |-> result.phase, artifacts |-> result.artifacts] \in Object
    BY DEF Inv, TypeInv, Result, Object
  <2>2. bucket' \in Bucket
    BY <1>19, <2>1 DEF UploadResult, Inv, TypeInv, Bucket
  <2> QED  BY <1>19, <2>2 DEF UploadResult, Inv, TypeInv, Stages
<1>20. ASSUME UploadResultFails PROVE TypeInv'
  BY <1>20 DEF UploadResultFails, Inv, TypeInv, Stages
<1>21. ASSUME Deadline PROVE TypeInv'
  BY <1>21 DEF Deadline, Inv, TypeInv, Stages
<1>22. ASSUME Sigterm PROVE TypeInv'
  BY <1>22 DEF Sigterm, Inv, TypeInv, Stages, Mishap
<1>23. ASSUME Kill PROVE TypeInv'
  BY <1>23 DEF Kill, Inv, TypeInv, Stages, Mishap
<1>24. ASSUME WriteTerminationFails PROVE TypeInv'
  BY <1>24 DEF WriteTerminationFails, Inv, TypeInv, Stages
<1> QED  BY <1>1, <1>2, <1>3, <1>4, <1>5, <1>6, <1>7, <1>8, <1>9, <1>10, <1>11, <1>12,
            <1>13, <1>14, <1>15, <1>16, <1>17, <1>18, <1>19, <1>20, <1>21, <1>22, <1>23,
            <1>24, Steps

LEMMA PlacedStep ==
    ASSUME Inv, WrapperNext
    PROVE  Placed'
<1>1. ASSUME NEW part, FetchPart(part) PROVE Placed'
  <2>0. Len(Parts) \in Nat
    BY WrapperAssumption
  <2>1. fetched \in Nat /\ fetched < Len(Parts)
    BY <1>1 DEF FetchPart, Inv, TypeInv
  <2>3. fetched # Len(Parts)
    BY <2>0, <2>1
  <2>2. result.phase \notin {"passed", "failed"} /\ message \notin {"passed", "failed"}
    BY <2>3 DEF Inv, Placed
  <2> QED  BY <1>1, <2>2 DEF FetchPart, Inv, TypeInv, Result, Placed
<1>2. ASSUME FetchFails PROVE Placed'
  BY <1>2 DEF FetchFails, Inv, TypeInv, Result, Placed
<1>3. ASSUME ContentReady PROVE Placed'
  BY <1>3 DEF ContentReady, Inv, TypeInv, Result, Placed
<1>4. ASSUME WriteErrorResult PROVE Placed'
  BY <1>4 DEF WriteErrorResult, Inv, TypeInv, Result, Placed
<1>5. ASSUME LoadRequest PROVE Placed'
  <2>1. try' > 0
    BY <1>5 DEF LoadRequest
  <2> QED  BY <1>5, <2>1 DEF LoadRequest, Inv, TypeInv, Placed, Result
<1>6. ASSUME ToolExits PROVE Placed'
  BY <1>6 DEF ToolExits, Inv, TypeInv, Result, Placed, ToolEnds
<1>7. ASSUME ToolDoesNotStart PROVE Placed'
  BY <1>7 DEF ToolDoesNotStart, Inv, TypeInv, Result, Placed, ToolEnds
<1>8. ASSUME ToolIsKilled PROVE Placed'
  BY <1>8 DEF ToolIsKilled, Inv, TypeInv, Result, Placed, ToolEnds
<1>9. ASSUME Again PROVE Placed'
  <2>1. try \in Nat /\ try > 0
    BY <1>9 DEF Again, Inv, TypeInv, Placed
  <2>2. try' > 0
    BY <1>9, <2>1 DEF Again
  <2> QED  BY <1>9, <2>2 DEF Again, Inv, TypeInv, Placed, Result
<1>10. ASSUME LastTry PROVE Placed'
  BY <1>10 DEF LastTry, Inv, TypeInv, Result, Placed
<1>11. ASSUME Classify PROVE Placed'
  BY <1>11 DEF Classify, Inv, TypeInv, Result, Placed
<1>12. ASSUME NEW f \in Reports, ScrapeFile(f) PROVE Placed'
  BY <1>12 DEF ScrapeFile, Inv, TypeInv, Result, Placed, Bucket
<1>13. ASSUME NEW f \in Reports, UploadFails(f) PROVE Placed'
  BY <1>13 DEF UploadFails, Inv, TypeInv, Result, Placed
<1>14. ASSUME ScrapeEnds PROVE Placed'
  BY <1>14 DEF ScrapeEnds, Inv, TypeInv, Result, Placed
<1>15. ASSUME GraceEnds PROVE Placed'
  BY <1>15 DEF GraceEnds, Inv, TypeInv, Result, Placed
<1>16. ASSUME WriteTermination PROVE Placed'
  BY <1>16 DEF WriteTermination, WriteTerminationFails, Inv, TypeInv, Result, Placed
<1>17. ASSUME WriteResultAtomic PROVE Placed'
  BY <1>17 DEF WriteResultAtomic, Inv, TypeInv, Result, Placed
<1>18. ASSUME WriteResultFails PROVE Placed'
  BY <1>18 DEF WriteResultFails, Inv, TypeInv, Result, Placed
<1>19. ASSUME UploadResult PROVE Placed'
  BY <1>19 DEF UploadResult, Inv, TypeInv, Result, Placed, NoObject, Bucket, Object
<1>20. ASSUME UploadResultFails PROVE Placed'
  BY <1>20 DEF UploadResultFails, Inv, TypeInv, Result, Placed
<1>21. ASSUME Deadline PROVE Placed'
  BY <1>21 DEF Deadline, Inv, TypeInv, Result, Placed, Running, Over
<1>22. ASSUME Sigterm PROVE Placed'
  BY <1>22 DEF Sigterm, Inv, TypeInv, Result, Placed, Running, Over
<1>23. ASSUME Kill PROVE Placed'
  BY <1>23 DEF Kill, Inv, TypeInv, Result, Placed, Over, Stages
<1>24. ASSUME WriteTerminationFails PROVE Placed'
  BY <1>24 DEF WriteTerminationFails, Inv, TypeInv, Result, Placed
<1> QED  BY <1>1, <1>2, <1>3, <1>4, <1>5, <1>6, <1>7, <1>8, <1>9, <1>10, <1>11, <1>12,
            <1>13, <1>14, <1>15, <1>16, <1>17, <1>18, <1>19, <1>20, <1>21, <1>22, <1>23,
            <1>24, Steps

LEMMA EarnedStep ==
    ASSUME Inv, WrapperNext
    PROVE  Earned'
<1>0. /\ from \in {"exit", "junit", "jtl"} /\ result.ran \in BOOLEAN /\ result.exit \in {0, 1}
      /\ report \in [Reports -> Report]
  BY DEF Inv, TypeInv, Result
<1>1. ASSUME WriteErrorResult PROVE Earned'
  BY <1>1 DEF WriteErrorResult, Inv, TypeInv, Result, Earned, Placed
<1>2. ASSUME ToolExits PROVE Earned'
  <2> PICK exit \in {0, 1}, reports \in [Reports -> UNION {Left(f) : f \in Reports}] :
         (\A f \in Reports : reports[f] \in Left(f)) /\ ToolEnds(TRUE, exit, reports)
    BY <1>2 DEF ToolExits
  <2>1. stage = "tool" /\ reports \in [Reports -> Report]
    BY <1>2, LeftTyped DEF ToolExits, Inv
  <2> QED  BY <2>1, ToolEndsJudged
<1>3. ASSUME ToolDoesNotStart PROVE Earned'
  BY <1>0, <1>3, ToolEndsJudged DEF ToolDoesNotStart
<1>4. ASSUME ToolIsKilled PROVE Earned'
  <2> PICK ran \in BOOLEAN, reports \in [Reports -> UNION {Left(f) : f \in Reports}] :
         (\A f \in Reports : reports[f] \in Left(f)) /\ ToolEnds(ran, 1, reports)
    BY <1>4 DEF ToolIsKilled
  <2>1. stage = "tool" /\ reports \in [Reports -> Report]
    BY <1>4, LeftTyped DEF ToolIsKilled, Inv
  <2> QED  BY <2>1, ToolEndsJudged
<1>5. ASSUME Classify PROVE Earned'
  BY <1>5 DEF Classify, Inv, TypeInv, Result, Earned, RunToolVerdict
<1>6. ASSUME LoadRequest PROVE Earned'
  <2>1. /\ stage = "load" /\ stage' = "tool" /\ report = [f \in Reports |-> NoReport]
        /\ from' = from /\ report' = report /\ result' = result /\ result.phase # "passed"
    BY <1>6 DEF LoadRequest, Inv, Earned
  <2>2. Parsed(report) = {}
    BY <2>1 DEF Parsed, NoReport
  <2>3. from # "exit" => RunToolVerdict(FALSE, 0, report) # "passed"
    BY <1>0, <2>2, JUnitFacts, JTLFacts DEF RunToolVerdict
  <2>4. RunToolVerdict(FALSE, 0, report)' = RunToolVerdict(FALSE, 0, report)
    BY <2>1 DEF RunToolVerdict
  <2> QED  BY <2>1, <2>3, <2>4 DEF Earned
<1>7. ASSUME Again PROVE Earned'
  <2>1. /\ result.phase # "passed" /\ result.phase = RunToolVerdict(result.ran, result.exit, report)
        /\ from' = from /\ report' = report /\ result'.phase = result.phase /\ stage' = "tool"
    BY <1>7 DEF Again, TriesAgain, Retryable, Inv, TypeInv, Result, Earned
  <2>2. from # "exit" => RunToolVerdict(FALSE, 0, report) # "passed"
    BY <1>0, <2>1, VerdictByReports
  <2>3. RunToolVerdict(FALSE, 0, report)' = RunToolVerdict(FALSE, 0, report)
    BY <2>1 DEF RunToolVerdict
  <2> QED  BY <2>1, <2>2, <2>3 DEF Earned
<1>8. ASSUME /\ from' = from /\ report' = report /\ result'.phase = result.phase
             /\ result'.ran = result.ran /\ result'.exit = result.exit
             /\ result'.cut = result.cut /\ result'.touched = result.touched
             /\ ctx # "alive" => ctx' # "alive"
             /\ stage # "killed"
             /\ stage' = "killed" => message' = message
             /\ \/ stage' \notin {"fetch", "load", "tool", "again", "classify"}
                   /\ (stage \in {"again", "classify"} => stage' = "killed")
                \/ stage' = "load" /\ stage = "fetch"
                \/ stage' = "classify" /\ stage = "again"
                \/ stage' = stage
      PROVE  Earned'
  <2>1. from' = from /\ report' = report /\ result'.ran = result.ran /\ result'.exit = result.exit
    BY <1>8
  <2>2. /\ (RunToolVerdict(result.ran, result.exit, report))' = RunToolVerdict(result.ran, result.exit, report)
        /\ RunToolVerdict(FALSE, 0, report)' = RunToolVerdict(FALSE, 0, report)
    BY <2>1 DEF RunToolVerdict
  <2>3. stage \in {"again", "classify"} => message = ""
    BY DEF Inv, Placed
  <2> QED  BY <1>8, <2>2, <2>3 DEF Inv, Earned
<1>9. ASSUME ~ToolExits, ~ToolDoesNotStart, ~ToolIsKilled, ~Classify, ~WriteErrorResult, ~LoadRequest,
             ~Again
      PROVE  /\ from' = from /\ report' = report /\ result'.phase = result.phase
             /\ result'.ran = result.ran /\ result'.exit = result.exit
             /\ result'.cut = result.cut /\ result'.touched = result.touched
             /\ ctx # "alive" => ctx' # "alive"
             /\ stage # "killed"
             /\ stage' = "killed" => message' = message
             /\ \/ stage' \notin {"fetch", "load", "tool", "again", "classify"}
                   /\ (stage \in {"again", "classify"} => stage' = "killed")
                \/ stage' = "load" /\ stage = "fetch"
                \/ stage' = "classify" /\ stage = "again"
                \/ stage' = stage
  BY <1>9, Steps DEF Inv, TypeInv, Result, Over, Running, FetchPart,
                     FetchFails, ContentReady, LastTry, ScrapeFile,
                     UploadFails, ScrapeEnds, GraceEnds, WriteTermination, WriteTerminationFails,
                     WriteResultAtomic, WriteResultFails, UploadResult, UploadResultFails,
                     Deadline, Sigterm, Kill
<1> QED  BY <1>1, <1>2, <1>3, <1>4, <1>5, <1>6, <1>7, <1>8, <1>9

LEMMA StoredStep ==
    ASSUME Inv, WrapperNext
    PROVE  StoredInv'
<1>1. ASSUME NEW f \in Reports, ScrapeFile(f) PROVE StoredInv'
  BY <1>1 DEF ScrapeFile, Inv, TypeInv, Result, Bucket, Placed, StoredInv
<1>2. ASSUME UploadResult PROVE StoredInv'
  BY <1>2 DEF UploadResult, Inv, TypeInv, Result, Bucket, Object, StoredInv
<1>3. ASSUME result'.artifacts = result.artifacts, bucket' = bucket
      PROVE  StoredInv'
  BY <1>3 DEF Inv, StoredInv
<1>4. ASSUME ~\E f \in Reports : ScrapeFile(f), ~UploadResult
      PROVE  result'.artifacts = result.artifacts /\ bucket' = bucket
  BY <1>4, Steps DEF Inv, TypeInv, Result, ToolEnds, FetchPart, FetchFails, ContentReady,
                     WriteErrorResult, LoadRequest, ToolExits, ToolDoesNotStart, ToolIsKilled,
                     Again, LastTry, Classify, UploadFails, ScrapeEnds, GraceEnds,
                     WriteTermination, WriteTerminationFails, WriteResultAtomic, WriteResultFails, UploadResultFails,
                     Deadline, Sigterm, Kill
<1> QED  BY <1>1, <1>2, <1>3, <1>4

LEMMA ToldStep ==
    ASSUME Inv, WrapperNext
    PROVE  Told'
<1>1. ASSUME LoadRequest PROVE Told'
  <2>1. try' = 1 /\ stage' = "tool" /\ result'.attempts = <<>> /\ Len(result'.attempts) = 0
    BY <1>1 DEF LoadRequest, Inv, Told
  <2>2. 1 .. try' - 1 = {} /\ 1 <= Retry + 1
    BY <2>1, WrapperAssumption
  <2> QED  BY <2>1, <2>2 DEF Told
<1>2. ASSUME ToolExits PROVE Told'
  <2>1. \E exit, reports : ToolEnds(TRUE, exit, reports) /\ stage = "tool"
    BY <1>2 DEF ToolExits
  <2> QED  BY <2>1, ToolEndsTold
<1>3. ASSUME ToolDoesNotStart PROVE Told'
  BY <1>3, ToolEndsTold DEF ToolDoesNotStart
<1>4. ASSUME ToolIsKilled PROVE Told'
  <2>1. \E ran, reports : ToolEnds(ran, 1, reports) /\ stage = "tool"
    BY <1>4 DEF ToolIsKilled
  <2> QED  BY <2>1, ToolEndsTold
<1>5. ASSUME Again PROVE Told'
  <2>1. /\ try \in Nat /\ try > 0 /\ try < Retry + 1 /\ Len(result.attempts) = try - 1
        /\ result.attempts \in Seq(Attempt) /\ AttemptOf \in Attempt
        /\ \A i \in 1 .. try - 1 : Unsuccessful(result.attempts[i])
    BY <1>5 DEF Again, TriesAgain, Inv, TypeInv, Placed, Told, Result, AttemptOf, Attempt
  <2>2. Unsuccessful(AttemptOf)
    BY <1>5, RetriedUnsuccessful DEF Again
  <2>3. result'.attempts = Append(result.attempts, AttemptOf) /\ try' = try + 1 /\ stage' = "tool"
    BY <1>5 DEF Again, Inv, TypeInv, Result
  <2>4. Len(result'.attempts) = try' - 1 /\ try' <= Retry + 1
    BY <2>1, <2>3, WrapperAssumption
  <2>5. ASSUME NEW i \in 1 .. try PROVE Unsuccessful(result'.attempts[i])
    BY <2>1, <2>2, <2>3
  <2>6. 1 .. try' - 1 = 1 .. try /\ from' = from
    BY <1>5, <2>1, <2>3 DEF Again
  <2> QED  BY <2>3, <2>4, <2>5, <2>6 DEF Told, Unsuccessful
<1>6. ASSUME LastTry PROVE Told'
  <2>1. /\ try \in Nat /\ try > 0 /\ Len(result.attempts) = try - 1
        /\ result.attempts \in Seq(Attempt) /\ AttemptOf \in Attempt
        /\ \A i \in 1 .. try - 1 : Unsuccessful(result.attempts[i])
    BY <1>6 DEF LastTry, Inv, TypeInv, Placed, Told, Result, AttemptOf, Attempt
  <2>2. /\ result'.attempts = IF result.attempts = <<>> THEN <<>> ELSE Append(result.attempts, AttemptOf)
        /\ try' = try /\ stage' = "classify" /\ from' = from
    BY <1>6 DEF LastTry, Inv, TypeInv, Result
  <2>3. CASE result.attempts = <<>>
    BY <2>2, <2>3 DEF Told
  <2>4. CASE result.attempts # <<>>
    <3>1. Len(result'.attempts) = try
      BY <2>1, <2>2, <2>4
    <3>2. ASSUME NEW i \in 1 .. try - 1 PROVE Unsuccessful(result'.attempts[i])
      BY <2>1, <2>2, <2>4
    <3> QED  BY <2>2, <3>1, <3>2 DEF Told, Unsuccessful
  <2> QED  BY <2>3, <2>4
<1>7. ASSUME Classify PROVE Told'
  <2> DEFINE phase == CASE ctx = "deadline" -> "error" [] ctx = "cancelled" -> "aborted"
                        [] OTHER -> result.phase
             n == Len(result.attempts)
  <2>0. try \in Nat /\ try > 0 /\ stage = "classify"
    BY <1>7 DEF Classify, Inv, TypeInv, Placed
  <2>1. /\ result.attempts \in Seq(Attempt) /\ result'.phase = phase
        /\ result'.attempts = IF n = 0 THEN result.attempts
                              ELSE [result.attempts EXCEPT ![n].phase = phase]
        /\ try' = try /\ stage' = "scrape" /\ from' = from
    BY <1>7 DEF Classify, Inv, TypeInv, Result
  <2> HIDE DEF phase
  <2> SUFFICES ASSUME Len(result'.attempts) > 0
               PROVE  /\ Len(result'.attempts) = try
                      /\ \A i \in 1..try - 1 : Unsuccessful(result'.attempts[i])
                      /\ result'.attempts[try].phase = result'.phase
    BY <2>1 DEF Told, Unsuccessful
  <2>2. result.attempts # <<>> /\ n # 0
    BY <2>1
  <2>3. n = try /\ \A i \in 1 .. try - 1 : Unsuccessful(result.attempts[i])
    BY <2>0, <2>2 DEF Inv, Told
  <2>4. result'.attempts = [result.attempts EXCEPT ![try].phase = phase]
    BY <2>1, <2>2, <2>3
  <2>5. Len(result'.attempts) = try
    BY <2>0, <2>1, <2>3, <2>4
  <2>6. result.attempts[try] \in Attempt /\ try \in DOMAIN result.attempts
    BY <2>0, <2>1, <2>3
  <2>7. result'.attempts[try].phase = phase
    <3>1. result'.attempts[try] = [result.attempts[try] EXCEPT !.phase = phase]
      BY <2>4, <2>6
    <3>2. "phase" \in DOMAIN result.attempts[try]
      BY <2>6 DEF Attempt
    <3> QED  BY <3>1, <3>2
  <2>8. ASSUME NEW i \in 1 .. try - 1 PROVE result'.attempts[i] = result.attempts[i]
    BY <2>0, <2>1, <2>3, <2>4
  <2> QED  BY <2>1, <2>3, <2>5, <2>7, <2>8
<1>8. ASSUME /\ from' = from /\ try' = try /\ result'.attempts = result.attempts
             /\ stage' = "scrape" => result'.phase = result.phase
             /\ \/ stage' = stage \/ stage' \notin {"fetch", "load", "tool", "again", "classify", "scrape"}
                \/ stage' = "load" /\ stage = "fetch"
      PROVE  Told'
  BY <1>8 DEF Inv, Told, Unsuccessful
<1>9. ASSUME ~LoadRequest, ~Again, ~LastTry, ~Classify, ~ToolExits, ~ToolDoesNotStart, ~ToolIsKilled
      PROVE  /\ from' = from /\ try' = try /\ result'.attempts = result.attempts
             /\ stage' = "scrape" => result'.phase = result.phase
             /\ \/ stage' = stage \/ stage' \notin {"fetch", "load", "tool", "again", "classify", "scrape"}
                \/ stage' = "load" /\ stage = "fetch"
  BY <1>9, Steps DEF Inv, TypeInv, Result, Over, Running, FetchPart, FetchFails, ContentReady,
                     WriteErrorResult, ScrapeFile, UploadFails, ScrapeEnds, GraceEnds,
                     WriteTermination, WriteTerminationFails, WriteResultAtomic, WriteResultFails, UploadResult,
                     UploadResultFails, Deadline, Sigterm, Kill
<1> QED  BY <1>1, <1>2, <1>3, <1>4, <1>5, <1>6, <1>7, <1>8, <1>9

LEMMA InvInit == WrapperInit => Inv
<1> SUFFICES ASSUME WrapperInit PROVE Inv
  OBVIOUS
<1>1. NoReport \in Report /\ NoResult \in Result /\ NoScrape \in Scrape /\ NoObject \in Object
  BY DEF NoReport, Report, NoResult, Result, NoScrape, Scrape, NoObject, Object, Phases
<1>2. TypeInv
  BY <1>1, WrapperAssumption DEF WrapperInit, TypeInv, Stages, Bucket, Phases
<1>3. Placed /\ Earned /\ StoredInv /\ Told
  BY WrapperAssumption DEF WrapperInit, Placed, Earned, StoredInv, Told, NoResult, NoObject
<1> QED  BY <1>2, <1>3 DEF Inv

LEMMA InvStep == Inv /\ [WrapperNext]_vars => Inv'
<1>1. ASSUME Inv, WrapperNext PROVE Inv'
  BY <1>1, TypeInvStep, PlacedStep, EarnedStep, StoredStep, ToldStep DEF Inv
<1>2. ASSUME Inv, UNCHANGED vars PROVE Inv'
  <2>1. (TypeInv /\ Placed)'
    BY <1>2 DEF vars, Inv, TypeInv, Placed
  <2>2. Earned'
    BY <1>2 DEF vars, Inv, Earned, RunToolVerdict
  <2>3. (StoredInv /\ Told)'
    BY <1>2 DEF vars, Inv, StoredInv, Told, Unsuccessful
  <2> QED  BY <2>1, <2>2, <2>3 DEF Inv
<1> QED  BY <1>1, <1>2

\* The inductive invariant holds: types, the order of the pod's stages, the result and what
\* it was judged from, the artifacts, and the attempts.
THEOREM Invariance == WrapperSpec => []Inv
  BY InvInit, InvStep, PTL DEF WrapperSpec

\* A pass the operator reads was earned, whatever is killed, lost or retried on the way and
\* however many report files there are: the content was complete, the context lived to the
\* end of the last try, and that try's exit code says so, or reports that are not as a try
\* that had not passed left them.
THEOREM PassesAreEarned == WrapperSpec => []PassIsEarned
<1>1. Inv => PassIsEarned
  <2> SUFFICES ASSUME Inv PROVE PassIsEarned
    OBVIOUS
  <2>1. ReadBack \in {"passed", "failed"} =>
          /\ Over /\ result.phase = ReadBack
          /\ bucket.result # NoObject \/ message = ReadBack
    BY DEF ReadBack, ParseTerminationSummary, Phases, Inv, Placed, Over
  <2>2. ReadBack \in {"passed", "failed"} => fetched = Len(Parts) /\ result.phase = ReadBack
    BY <2>1 DEF Inv, Placed
  <2>3. ReadBack = "passed" =>
          /\ RunToolVerdict(result.ran, result.exit, report) = "passed" /\ ~result.cut
          /\ from # "exit" => result.touched
    BY <2>1 DEF Inv, Placed, Earned, Over
  <2>4. /\ from \in {"exit", "junit", "jtl"} /\ result.ran \in BOOLEAN /\ result.exit \in {0, 1}
        /\ report \in [Reports -> Report]
    BY DEF Inv, TypeInv, Result
  <2>5. ReadBack = "passed" =>
          /\ from = "exit" => result.ran /\ result.exit = 0
          /\ from = "junit" => Failing(report) = {} /\ \E f \in Reports : report[f].says = "pass"
          /\ from = "jtl" => \E f \in FindJTL(report) : report[f].says \in {"pass", "empty"}
    BY <2>3, <2>4, JUnitFacts, JTLFacts DEF RunToolVerdict, BaseVerdict
  <2> QED  BY <2>2, <2>3, <2>5 DEF PassIsEarned
<1> QED  BY <1>1, Invariance, PTL

\* What result.json names is in the bucket, and the two copies of the verdict agree.
THEOREM StoredAsReported == WrapperSpec => []ReportedIsStored
<1>1. Inv => ReportedIsStored
  BY DEF Inv, Placed, StoredInv, ReportedIsStored
<1> QED  BY <1>1, Invariance, PTL

\* The attempts tell what happened: one for each try, none before the last passed, the last
\* one the run's verdict; no try begins once the context has ended, nor past the retries.
THEOREM AttemptsAreTold == WrapperSpec => AttemptsTell
<1>1. ASSUME Inv, WrapperNext
      PROVE  /\ try' > try /\ try > 0 => ctx = "alive" /\ try' <= Retry + 1
             /\ stage' = "scrape" => try' = try /\ from' = from
  <2>0. try \in Nat
    BY <1>1 DEF Inv, TypeInv
  <2>1. try \in Nat /\ ~(try > try)
    BY <2>0
  <2>2. ASSUME Again PROVE stage' # "scrape" /\ ctx = "alive" /\ try' <= Retry + 1
    BY <2>1, <2>2, WrapperAssumption DEF Again, TriesAgain
  <2>3. ASSUME LoadRequest PROVE stage' # "scrape" /\ ~(try > 0)
    <3>1. try = 0 /\ stage' = "tool"
      BY <1>1, <2>3 DEF LoadRequest, Inv, Placed
    <3> QED  BY <3>1
  <2>4. ASSUME ~Again, ~LoadRequest PROVE try' = try /\ from' = from
    BY <1>1, <2>4, Steps
       DEF FetchPart, FetchFails, ContentReady, WriteErrorResult, ToolExits, ToolDoesNotStart,
           ToolIsKilled, ToolEnds, LastTry, Classify, ScrapeFile, UploadFails, ScrapeEnds,
           GraceEnds, WriteTermination, WriteTerminationFails, WriteResultAtomic, WriteResultFails, UploadResult,
           UploadResultFails, Deadline, Sigterm, Kill
  <2> QED  BY <2>1, <2>2, <2>3, <2>4
<1>2. Inv /\ Inv' /\ [WrapperNext]_vars =>
        [/\ try' > try /\ try > 0 => ctx = "alive" /\ try' <= Retry + 1
         /\ stage' = "scrape" /\ Len(result'.attempts) > 0 =>
               /\ Len(result'.attempts) = try
               /\ \A i \in 1..try - 1 : /\ result'.attempts[i].phase # "passed"
                                       /\ from = "exit" => result'.attempts[i].ran
               /\ result'.attempts[try].phase = result'.phase]_vars
  BY <1>1 DEF Inv, Told, Unsuccessful
<1> QED  BY <1>2, Invariance, PTL DEF WrapperSpec, AttemptsTell

-----------------------------------------------------------------------------
(* The first element of a kind.                                            *)

\* A set of numbers has a least one.
LEMMA LeastOf ==
    ASSUME NEW S \in SUBSET Nat, S # {}
    PROVE  \E x \in S : \A y \in S : x <= y
<1>1. PICK x \in S : \A y \in S : ~(<<y, x>> \in OpToRel(<, Nat))
  BY NatLessThanWellFounded, WFMin
<1>2. \A y \in Nat : <<y, x>> \in Nat \X Nat /\ (<<y, x>>)[1] = y /\ (<<y, x>>)[2] = x
  OBVIOUS
<1>3. \A y \in Nat : y < x => <<y, x>> \in OpToRel(<, Nat)
  BY <1>2, Zenon DEF OpToRel
<1>4. \A y \in S : ~(y < x)
  BY <1>1, <1>3, Zenon
<1> QED  BY <1>4

\* FirstIn finds an element of S where there is one.
LEMMA FirstInFacts ==
    ASSUME NEW n \in Nat, NEW s, DOMAIN s = 1 .. n, NEW S, NEW d
    PROVE  \/ FirstIn(s, S, d) = d /\ \A i \in 1 .. n : s[i] \notin S
           \/ \E i \in 1 .. n : s[i] \in S /\ FirstIn(s, S, d) = s[i]
<1>1. CASE \A i \in 1 .. n : s[i] \notin S
  BY <1>1 DEF FirstIn
<1>2. CASE \E i \in 1 .. n : s[i] \in S
  <2> DEFINE T == {i \in 1 .. n : s[i] \in S}
  <2>1. T \in SUBSET Nat /\ T # {}
    BY <1>2
  <2>2. PICK x \in T : \A y \in T : x <= y
    BY <2>1, LeastOf
  <2>3. \A j \in 1 .. x - 1 : s[j] \notin S
    BY <2>2
  <2> DEFINE P(i) == s[i] \in S /\ \A j \in 1 .. i - 1 : s[j] \notin S
             first == CHOOSE i \in DOMAIN s : P(i)
  <2>4. first \in DOMAIN s /\ P(first)
    <3>1. \E i \in DOMAIN s : P(i)
      BY <2>3
    <3> HIDE DEF P
    <3> QED  BY <3>1, Zenon
  <2>5. FirstIn(s, S, d) = s[first]
    BY <1>2 DEF FirstIn
  <2> QED  BY <2>4, <2>5
<1> QED  BY <1>1, <1>2

-----------------------------------------------------------------------------
(* Outcomes of children and steps.                                         *)

\* A sequence of at most m members of S.
LEMMA SeqsUpToFacts ==
    ASSUME NEW S, NEW m \in Nat, NEW s \in SeqsUpTo(S, m)
    PROVE  \E n \in Nat : s \in [1 .. n -> S]
BY DEF SeqsUpTo

\* What Aggregate makes of the children, by the verdicts among them.
LEMMA AggregateFacts ==
    ASSUME NEW n \in Nat, NEW c \in [1 .. n -> Verdict], NEW negative \in BOOLEAN
    PROVE  LET v == Aggregate(c, negative)
               good == IF negative THEN "failed" ELSE "passed"
           IN  /\ v \in Verdict
               /\ v = "passed" <=> n # 0 /\ \A i \in 1 .. n : c[i] = good
               /\ v \in {"aborted", "error"} <=> \E i \in 1 .. n : c[i] \in {"aborted", "error"}
<1> DEFINE S == {"aborted", "error"}
           d == IF \E i \in DOMAIN c : Judged(c[i], negative) = "failed" THEN "failed" ELSE "passed"
           good == IF negative THEN "failed" ELSE "passed"
<1>1. DOMAIN c = 1 .. n
  OBVIOUS
<1>2. CASE n = 0
  <2>1. c = <<>>
    BY <1>2
  <2> QED  BY <1>2, <2>1 DEF Aggregate, Verdict
<1>3. CASE n # 0
  <2>1. c # <<>>
    <3>1. 1 \in DOMAIN c
      BY <1>3
    <3> QED  BY <3>1
  <2>2. Aggregate(c, negative) = FirstIn(c, S, d)
    BY <2>1 DEF Aggregate
  <2>3. \A i \in 1 .. n : c[i] \in Verdict
    OBVIOUS
  <2>4. CASE \E i \in 1 .. n : c[i] \in S /\ FirstIn(c, S, d) = c[i]
    BY <1>3, <2>2, <2>3, <2>4 DEF Verdict
  <2>5. CASE FirstIn(c, S, d) = d /\ \A i \in 1 .. n : c[i] \notin S
    <3>1. \A i \in 1 .. n : Judged(c[i], negative) = "failed" <=> c[i] # good
      BY <2>3, <2>5 DEF Judged, Verdict
    <3>2. d = "passed" <=> \A i \in 1 .. n : c[i] = good
      BY <1>1, <3>1
    <3>3. d \in {"passed", "failed"}
      OBVIOUS
    <3> HIDE DEF d, good
    <3>4. Aggregate(c, negative) = d
      BY <2>2, <2>5
    <3>5. Aggregate(c, negative) \in Verdict /\ Aggregate(c, negative) \notin S
      BY <3>3, <3>4 DEF Verdict
    <3> QED  BY <1>3, <2>5, <3>2, <3>4, <3>5 DEF good
  <2> HIDE DEF d, S
  <2> QED  BY <1>1, <2>4, <2>5, FirstInFacts
<1> QED  BY <1>2, <1>3

\* One child decides a step alone.
LEMMA RetryFacts ==
    ASSUME NEW v \in Verdict, NEW negative \in BOOLEAN
    PROVE  ChildNeedsRetry(v, negative) <=> Aggregate(<<v>>, negative) \in {"failed", "error"}
<1> DEFINE c == <<v>>
           d == IF \E i \in DOMAIN c : Judged(c[i], negative) = "failed" THEN "failed" ELSE "passed"
           S == {"aborted", "error"}
<1>1. c # <<>> /\ DOMAIN c = 1 .. 1 /\ c[1] = v
  OBVIOUS
<1>2. Aggregate(c, negative) = FirstIn(c, S, d)
  BY <1>1 DEF Aggregate
<1>3. d = IF Judged(v, negative) = "failed" THEN "failed" ELSE "passed"
  BY <1>1
<1>4. \/ FirstIn(c, S, d) = d /\ \A i \in 1 .. 1 : c[i] \notin S
      \/ \E i \in 1 .. 1 : c[i] \in S /\ FirstIn(c, S, d) = c[i]
  <2> HIDE DEF c, d, S
  <2> QED  BY <1>1, FirstInFacts
<1>5. IF v \in S THEN Aggregate(c, negative) = v ELSE Aggregate(c, negative) = d
  <2> HIDE DEF c, d, S
  <2>1. \A i \in 1 .. 1 : i = 1
    OBVIOUS
  <2> QED  BY <1>1, <1>2, <1>4, <2>1
<1> HIDE DEF c, d
<1>6. ChildNeedsRetry(v, negative) <=> Aggregate(c, negative) \in {"failed", "error"}
  BY <1>3, <1>5 DEF ChildNeedsRetry, Judged, Verdict
<1> QED  BY <1>6 DEF c

\* The verdict of a step that was skipped.
Nil == ""

\* A step without a verdict has none of the verdicts.
LEMMA NilFacts == Nil \notin Verdict
BY Zenon DEF Nil, Verdict

\* shouldSkip and ShouldRunNext say the same of every list of earlier steps.
LEMMA SkipFacts ==
    ASSUME NEW n \in Nat, NEW v \in [1 .. n -> Verdict \cup {Nil}], NEW o \in [1 .. n -> BOOLEAN],
           NEW always \in BOOLEAN
    PROVE  ShouldSkip(v, o, always)
             <=> \E i \in DOMAIN v : v[i] # Nil /\ ~ShouldRunNext(v[i], o[i], always)
<1>1. \A i \in DOMAIN v :
        (v[i] \in {"failed", "aborted", "error"} /\ ~(o[i] /\ v[i] = "failed") /\ ~always)
          <=> (v[i] # Nil /\ ~ShouldRunNext(v[i], o[i], always))
  BY NilFacts DEF ShouldRunNext, Verdict
<1> QED  BY <1>1, Zenon DEF ShouldSkip

\* The verdicts that count, with Nil for those that do not.
Counting(v, o) == [i \in DOMAIN v |-> IF o[i] THEN Nil ELSE v[i]]

\* The run's verdict, from the verdicts that count.
LEMMA ParentPhaseOfCounting ==
    ASSUME NEW v, NEW o
    PROVE  ParentPhase(v, o)
             = FirstIn(Counting(v, o), {"aborted", "error"}, FirstIn(Counting(v, o), {"failed"}, "passed"))
BY Zenon DEF ParentPhase, Counting, Nil

\* The verdict of a run says which verdicts its steps had.
LEMMA ParentFacts ==
    ASSUME NEW n \in Nat, NEW v \in [1 .. n -> Verdict \cup {Nil}], NEW o \in [1 .. n -> BOOLEAN]
    PROVE  LET counted == {v[i] : i \in {j \in DOMAIN v : ~o[j]}}
               phase == ParentPhase(v, o)
           IN  /\ phase = "passed" <=> counted \subseteq {"passed", Nil}
               /\ phase = "failed" <=> "failed" \in counted /\ counted \cap {"aborted", "error"} = {}
<1> DEFINE c == Counting(v, o)
           counted == {v[i] : i \in {j \in DOMAIN v : ~o[j]}}
           d == FirstIn(c, {"failed"}, "passed")
           phase == FirstIn(c, {"aborted", "error"}, d)
<1>1. DOMAIN c = 1 .. n /\ \A i \in 1 .. n : c[i] = IF o[i] THEN Nil ELSE v[i]
  BY DEF Counting
<1>2. \A x : x # Nil => (x \in counted <=> \E i \in 1 .. n : c[i] = x)
  BY <1>1
<1>3. \A i \in 1 .. n : c[i] \in Verdict \cup {Nil}
  BY <1>1
<1>4. counted \subseteq Verdict \cup {Nil}
  OBVIOUS
<1>5. ParentPhase(v, o) = phase
  BY ParentPhaseOfCounting
<1> HIDE DEF c, counted, d, phase
<1>6. \/ d = "passed" /\ \A i \in 1 .. n : c[i] # "failed"
      \/ \E i \in 1 .. n : c[i] = "failed" /\ d = c[i]
  <2>1. \/ d = "passed" /\ \A i \in 1 .. n : c[i] \notin {"failed"}
        \/ \E i \in 1 .. n : c[i] \in {"failed"} /\ d = c[i]
    BY <1>1, FirstInFacts DEF d
  <2> QED  BY <2>1
<1>7. \/ phase = d /\ \A i \in 1 .. n : c[i] \notin {"aborted", "error"}
      \/ \E i \in 1 .. n : c[i] \in {"aborted", "error"} /\ phase = c[i]
  BY <1>1, FirstInFacts DEF phase
<1>8. d = (IF "failed" \in counted THEN "failed" ELSE "passed")
  BY <1>2, <1>6, NilFacts DEF Verdict
<1>9. IF counted \cap {"aborted", "error"} = {} THEN phase = d ELSE phase \in {"aborted", "error"}
  BY <1>2, <1>7, NilFacts DEF Verdict
<1>10. counted \subseteq {"passed", Nil}
         <=> "failed" \notin counted /\ counted \cap {"aborted", "error"} = {}
  BY <1>4, NilFacts DEF Verdict
<1>11. phase = "passed" <=> counted \subseteq {"passed", Nil}
  BY <1>8, <1>9, <1>10
<1>12. phase = "failed" <=> "failed" \in counted /\ counted \cap {"aborted", "error"} = {}
  BY <1>8, <1>9
<1> QED  BY <1>5, <1>11, <1>12 DEF counted

-----------------------------------------------------------------------------
(* The execute graph.                                                      *)

\* A step of Test t names Test u.
Names(refs, t, u) == \E i \in DOMAIN refs[t] : refs[t][i] = u

\* From every Test of S a step leads to one of S.
Endless(refs, S) == S \in SUBSET DOMAIN refs /\ \A t \in S : \E u \in S : Names(refs, t, u)

\* The Tests nest f deep below n.
Path(refs, n, f) ==
    \E p \in [0 .. f -> DOMAIN refs] : p[0] = n /\ \A i \in 0 .. f - 1 : Names(refs, p[i], p[i + 1])

\* A call at the bottom, and a level of calls given the one below it.
Bottom(refs) == [name \in DOMAIN refs |-> [visiting \in SUBSET DOMAIN refs |-> "depth"]]
Level(refs, g, f) == IF f = 0 THEN Bottom(refs) ELSE WalkFrom(refs, g[f - 1])

\* The recursion of walk has a solution to any depth.
LEMMA WalkExists ==
    ASSUME NEW refs, NEW N \in Nat
    PROVE  \E g : g = [f \in 0 .. N |-> Level(refs, g, f)]
<1> DEFINE A(k) == \E g : g = [f \in 0 .. k |-> Level(refs, g, f)]
           B == {k \in Nat : ~A(k)}
<1>1. SUFFICES B = {}
  OBVIOUS
<1>2. SUFFICES ASSUME B # {} PROVE FALSE
  OBVIOUS
<1>3. B \in SUBSET Nat
  OBVIOUS
<1>4. PICK k \in B : \A j \in B : k <= j
  <2> HIDE DEF B
  <2> QED  BY <1>2, <1>3, LeastOf
<1>5. k \in Nat /\ ~A(k)
  OBVIOUS
<1>6. CASE k = 0
  <2> DEFINE g == [f \in 0 .. 0 |-> Bottom(refs)]
  <2>1. \A f \in 0 .. 0 : Level(refs, g, f) = Bottom(refs)
    BY DEF Level
  <2>2. g = [f \in 0 .. 0 |-> Level(refs, g, f)]
    BY <2>1
  <2> QED  BY <1>5, <1>6, <2>2
<1>7. CASE k # 0
  <2>1. k - 1 \in Nat /\ ~(k <= k - 1)
    BY <1>5, <1>7
  <2>2. A(k - 1)
    BY <1>4, <2>1
  <2>3. PICK g : g = [f \in 0 .. k - 1 |-> Level(refs, g, f)]
    BY <2>2
  <2> DEFINE h == [f \in 0 .. k |-> IF f = k THEN Level(refs, g, k) ELSE g[f]]
  <2>4. \A f \in 0 .. k : f # 0 => h[f - 1] = g[f - 1]
    BY <1>5
  <2>5. \A f \in 0 .. k : Level(refs, h, f) = Level(refs, g, f)
    <3> HIDE DEF h
    <3> QED  BY <2>4 DEF Level
  <2>6. \A f \in 0 .. k : h[f] = Level(refs, g, f)
    <3>1. \A f \in 0 .. k : f # k => f \in 0 .. k - 1
      BY <1>5
    <3>2. \A f \in 0 .. k - 1 : g[f] = Level(refs, g, f)
      BY <2>3
    <3> QED  BY <3>1, <3>2
  <2>7. h = [f \in 0 .. k |-> h[f]]
    OBVIOUS
  <2>8. \A f \in 0 .. k : h[f] = Level(refs, h, f)
    <3> HIDE DEF h
    <3> QED  BY <2>5, <2>6
  <2>9. h = [f \in 0 .. k |-> Level(refs, h, f)]
    <3> HIDE DEF h
    <3> QED  BY <2>7, <2>8
  <2> QED  BY <1>5, <2>9
<1> QED  BY <1>6, <1>7

\* walk at each depth, by the calls one level deeper.
LEMMA WalkFacts ==
    ASSUME NEW refs
    PROVE  \A f \in 0 .. MaxDepth + 1 : Walk(refs)[f] = Level(refs, Walk(refs), f)
<1>1. MaxDepth + 1 \in Nat
  BY DepthAssumption
<1> DEFINE Solves(g) == g = [f \in 0 .. MaxDepth + 1 |-> Level(refs, g, f)]
<1>2. Walk(refs) = CHOOSE g : Solves(g)
  BY DEF Walk, Level, Bottom
<1>3. \E g : Solves(g)
  BY <1>1, WalkExists
<1>4. Solves(Walk(refs))
  <2> HIDE DEF Solves
  <2> QED  BY <1>2, <1>3, Zenon
<1> QED  BY <1>4

\* A call of walk: a Test on the path already, or the first bad call for a step's Test, or
\* none.
LEMMA LevelFacts ==
    ASSUME NEW refs, NEW deeper, NEW n \in DOMAIN refs, NEW V \in SUBSET DOMAIN refs,
           NEW k \in Nat, DOMAIN refs[n] = 1 .. k
    PROVE  LET x == WalkFrom(refs, deeper)[n][V]
               bad == {"depth", "cycle"}
               below(i) == deeper[refs[n][i]][V \cup {n}]
           IN  IF n \in V THEN x = "cycle"
               ELSE \/ /\ x = "ok"
                       /\ \A i \in 1 .. k : refs[n][i] \in DOMAIN refs => below(i) \notin bad
                    \/ \E i \in 1 .. k : refs[n][i] \in DOMAIN refs /\ x = below(i) /\ x \in bad
<1> DEFINE x == WalkFrom(refs, deeper)[n][V]
           s == [i \in DOMAIN refs[n] |-> Visit(refs, deeper, refs[n][i], V \cup {n})]
           bad == {"depth", "cycle"}
<1>1. x = IF n \in V THEN "cycle" ELSE FirstIn(s, bad, "ok")
  BY DEF WalkFrom
<1>2. CASE n \in V
  BY <1>1, <1>2
<1>3. CASE n \notin V
  <2>1. x = FirstIn(s, bad, "ok")
    BY <1>1, <1>3
  <2>2. DOMAIN s = 1 .. k
    OBVIOUS
  <2>3. \A i \in 1 .. k :
          s[i] = IF refs[n][i] \in DOMAIN refs THEN deeper[refs[n][i]][V \cup {n}] ELSE "ok"
    BY DEF Visit
  <2> HIDE DEF s, x
  <2>4. \/ x = "ok" /\ \A i \in 1 .. k : s[i] \notin bad
        \/ \E i \in 1 .. k : s[i] \in bad /\ x = s[i]
    <3> HIDE DEF bad
    <3> QED  BY <2>1, <2>2, FirstInFacts
  <2>5. CASE x = "ok" /\ \A i \in 1 .. k : s[i] \notin bad
    BY <1>3, <2>3, <2>5 DEF x
  <2>6. CASE \E i \in 1 .. k : s[i] \in bad /\ x = s[i]
    <3>1. PICK i \in 1 .. k : s[i] \in bad /\ x = s[i]
      BY <2>6
    <3>2. refs[n][i] \in DOMAIN refs
      BY <2>3, <3>1
    <3>3. x = deeper[refs[n][i]][V \cup {n}]
      BY <2>3, <3>1, <3>2
    <3> QED  BY <1>3, <3>1, <3>2, <3>3 DEF x
  <2> QED  BY <2>4, <2>5, <2>6
<1> QED  BY <1>2, <1>3

\* A path is one step and a path from there, either way.
LEMMA PathFacts ==
    ASSUME NEW refs, NEW n \in DOMAIN refs, NEW f \in Nat, f # 0
    PROVE  /\ \A m \in DOMAIN refs : Names(refs, n, m) /\ Path(refs, m, f - 1) => Path(refs, n, f)
           /\ Path(refs, n, f) => \E m \in DOMAIN refs : Names(refs, n, m) /\ Path(refs, m, f - 1)
<1>1. ASSUME NEW m \in DOMAIN refs, Names(refs, n, m), Path(refs, m, f - 1)
      PROVE  Path(refs, n, f)
  <2>1. PICK p \in [0 .. f - 1 -> DOMAIN refs] :
               p[0] = m /\ \A i \in 0 .. f - 2 : Names(refs, p[i], p[i + 1])
    BY <1>1 DEF Path
  <2> DEFINE q == [i \in 0 .. f |-> IF i = 0 THEN n ELSE p[i - 1]]
  <2>2. q \in [0 .. f -> DOMAIN refs] /\ q[0] = n /\ q[1] = m
    BY <2>1
  <2>3. ASSUME NEW i \in 0 .. f - 1 PROVE Names(refs, q[i], q[i + 1])
    <3>1. CASE i = 0
      BY <1>1, <2>2, <3>1
    <3>2. CASE i # 0
      <4>1. i - 1 \in 0 .. f - 2 /\ q[i] = p[i - 1] /\ q[i + 1] = p[(i - 1) + 1]
        BY <3>2
      <4> HIDE DEF q
      <4> QED  BY <2>1, <4>1
    <3> QED  BY <3>1, <3>2
  <2> HIDE DEF q
  <2> QED  BY <2>2, <2>3 DEF Path
<1>2. ASSUME Path(refs, n, f)
      PROVE  \E m \in DOMAIN refs : Names(refs, n, m) /\ Path(refs, m, f - 1)
  <2>1. PICK p \in [0 .. f -> DOMAIN refs] :
               p[0] = n /\ \A i \in 0 .. f - 1 : Names(refs, p[i], p[i + 1])
    BY <1>2 DEF Path
  <2> DEFINE q == [i \in 0 .. f - 1 |-> p[i + 1]]
  <2>2. q \in [0 .. f - 1 -> DOMAIN refs] /\ q[0] = p[1] /\ p[1] \in DOMAIN refs
    BY <2>1
  <2>3. Names(refs, n, p[1])
    <3>1. 0 \in 0 .. f - 1 /\ 0 + 1 = 1
      OBVIOUS
    <3> QED  BY <2>1, <3>1
  <2>4. ASSUME NEW i \in 0 .. f - 2 PROVE Names(refs, q[i], q[i + 1])
    <3>1. i + 1 \in 0 .. f - 1 /\ q[i] = p[i + 1] /\ q[i + 1] = p[(i + 1) + 1]
      OBVIOUS
    <3> HIDE DEF q
    <3> QED  BY <2>1, <3>1
  <2>5. Path(refs, p[1], f - 1)
    <3>1. (f - 1) - 1 = f - 2
      OBVIOUS
    <3> HIDE DEF q
    <3> QED  BY <2>2, <2>4, <3>1 DEF Path
  <2> QED  BY <2>2, <2>3, <2>5
<1> QED  BY <1>1, <1>2

\* The Tests on the path lead back into it, the root among them.
OnPath(refs, n, V) == /\ Root \in V \cup {n}
                      /\ \A v \in V : \E u \in V \cup {n} : Names(refs, v, u)

\* What a call's answer says: a cycle on a path from the root, Tests nested to the bottom, or
\* neither from here on.
Answered(refs, x, n, V, f) ==
    /\ x \in {"ok", "cycle", "depth"}
    /\ x = "cycle" /\ OnPath(refs, n, V) => \E S : Root \in S /\ Endless(refs, S)
    /\ x = "depth" => Path(refs, n, f)
    /\ x = "ok" => ~Path(refs, n, f) /\ ~\E S : n \in S /\ Endless(refs, S)

\* What is so one level deeper is so here.
LEMMA AnsweredStep ==
    ASSUME NEW refs, \A t \in DOMAIN refs : \E k \in Nat : DOMAIN refs[t] = 1 .. k,
           NEW deeper, NEW f \in Nat, f # 0,
           \A n \in DOMAIN refs, V \in SUBSET DOMAIN refs : Answered(refs, deeper[n][V], n, V, f - 1),
           NEW n \in DOMAIN refs, NEW V \in SUBSET DOMAIN refs
    PROVE  Answered(refs, WalkFrom(refs, deeper)[n][V], n, V, f)
<1> DEFINE x == WalkFrom(refs, deeper)[n][V]
           W == V \cup {n}
<1>1. PICK k \in Nat : DOMAIN refs[n] = 1 .. k
  OBVIOUS
<1>2. W \in SUBSET DOMAIN refs
  OBVIOUS
<1>3. \A i \in 1 .. k : Names(refs, n, refs[n][i])
  BY <1>1 DEF Names
<1>4. IF n \in V THEN x = "cycle"
      ELSE \/ /\ x = "ok"
              /\ \A i \in 1 .. k : refs[n][i] \in DOMAIN refs => deeper[refs[n][i]][W] \notin {"depth", "cycle"}
           \/ \E i \in 1 .. k : refs[n][i] \in DOMAIN refs /\ x = deeper[refs[n][i]][W] /\ x \in {"depth", "cycle"}
  BY <1>1, LevelFacts
<1> HIDE DEF x
<1>5. CASE n \in V
  <2>1. x = "cycle"
    BY <1>4, <1>5
  <2>2. OnPath(refs, n, V) => Root \in V /\ Endless(refs, V)
    BY <1>5 DEF OnPath, Endless
  <2> QED  BY <2>1, <2>2 DEF Answered, x
<1>6. CASE n \notin V /\ x = "ok"
  <2>1. \A m \in DOMAIN refs : Names(refs, n, m) => deeper[m][W] = "ok"
    <3> SUFFICES ASSUME NEW m \in DOMAIN refs, Names(refs, n, m) PROVE deeper[m][W] = "ok"
      OBVIOUS
    <3>1. PICK i \in 1 .. k : refs[n][i] = m
      BY <1>1 DEF Names
    <3>2. deeper[m][W] \notin {"depth", "cycle"}
      BY <1>4, <1>6, <3>1
    <3>3. deeper[m][W] \in {"ok", "cycle", "depth"}
      BY <1>2 DEF Answered
    <3> QED  BY <3>2, <3>3
  <2>2. \A m \in DOMAIN refs : Names(refs, n, m) =>
          ~Path(refs, m, f - 1) /\ ~\E S : m \in S /\ Endless(refs, S)
    BY <1>2, <2>1 DEF Answered
  <2>3. ~Path(refs, n, f)
    BY <2>2, PathFacts
  <2>4. ASSUME NEW S, n \in S, Endless(refs, S) PROVE FALSE
    <3>1. PICK u \in S : Names(refs, n, u)
      BY <2>4 DEF Endless
    <3>2. u \in DOMAIN refs
      BY <2>4, <3>1 DEF Endless
    <3> QED  BY <2>2, <2>4, <3>1, <3>2
  <2> QED  BY <1>6, <2>3, <2>4 DEF Answered, x
<1>7. CASE n \notin V /\ x # "ok"
  <2>1. PICK i \in 1 .. k : refs[n][i] \in DOMAIN refs /\ x = deeper[refs[n][i]][W] /\ x \in {"depth", "cycle"}
    BY <1>4, <1>7
  <2> DEFINE m == refs[n][i]
  <2>2. m \in DOMAIN refs /\ Names(refs, n, m) /\ x = deeper[m][W]
    BY <1>3, <2>1
  <2> HIDE DEF m
  <2>3. Answered(refs, x, m, W, f - 1)
    BY <1>2, <2>2
  <2>4. CASE x = "depth"
    <3>1. Path(refs, n, f)
      BY <2>2, <2>3, <2>4, PathFacts DEF Answered
    <3> QED  BY <2>4, <3>1 DEF Answered, x
  <2>5. CASE x = "cycle"
    <3>1. OnPath(refs, n, V) => OnPath(refs, m, W)
      BY <2>2 DEF OnPath
    <3>2. OnPath(refs, n, V) => \E S : Root \in S /\ Endless(refs, S)
      BY <2>3, <2>5, <3>1 DEF Answered
    <3> QED  BY <2>5, <3>2 DEF Answered, x
  <2> QED  BY <2>1, <2>4, <2>5
<1> QED  BY <1>5, <1>6, <1>7

\* And so at every depth.
LEMMA WalkAnswered ==
    ASSUME NEW refs, \A t \in DOMAIN refs : \E k \in Nat : DOMAIN refs[t] = 1 .. k
    PROVE  \A f \in 0 .. MaxDepth + 1 : \A n \in DOMAIN refs, V \in SUBSET DOMAIN refs :
             Answered(refs, Walk(refs)[f][n][V], n, V, f)
<1> DEFINE G(f) == \A n \in DOMAIN refs, V \in SUBSET DOMAIN refs : Answered(refs, Walk(refs)[f][n][V], n, V, f)
           B == {f \in 0 .. MaxDepth + 1 : ~G(f)}
<1>1. SUFFICES ASSUME B # {} PROVE FALSE
  OBVIOUS
<1>2. B \in SUBSET Nat
  BY DepthAssumption
<1>3. PICK f \in B : \A g \in B : f <= g
  <2> HIDE DEF B
  <2> QED  BY <1>1, <1>2, LeastOf
<1>4. f \in 0 .. MaxDepth + 1 /\ f \in Nat /\ ~G(f)
  BY <1>2
<1>5. Walk(refs)[f] = Level(refs, Walk(refs), f)
  BY <1>4, WalkFacts
<1>6. CASE f = 0
  <2>1. \A n \in DOMAIN refs, V \in SUBSET DOMAIN refs : Walk(refs)[f][n][V] = "depth"
    BY <1>5, <1>6 DEF Level, Bottom
  <2>2. ASSUME NEW n \in DOMAIN refs PROVE Path(refs, n, 0)
    <3> DEFINE p == [i \in 0 .. 0 |-> n]
    <3>1. p \in [0 .. 0 -> DOMAIN refs] /\ p[0] = n
      OBVIOUS
    <3>2. \A i \in 0 .. 0 - 1 : FALSE
      OBVIOUS
    <3> HIDE DEF p
    <3> QED  BY <3>1, <3>2 DEF Path
  <2>3. G(f)
    BY <1>6, <2>1, <2>2 DEF Answered
  <2> QED  BY <1>4, <2>3
<1>7. CASE f # 0
  <2>1. f - 1 \in 0 .. MaxDepth + 1 /\ ~(f <= f - 1)
    BY <1>4, <1>7, DepthAssumption
  <2>2. G(f - 1)
    BY <1>3, <2>1
  <2>3. Walk(refs)[f] = WalkFrom(refs, Walk(refs)[f - 1])
    BY <1>5, <1>7 DEF Level
  <2>4. G(f)
    BY <1>4, <1>7, <2>2, <2>3, AnsweredStep
  <2> QED  BY <1>4, <2>4
<1> QED  BY <1>6, <1>7

\* ResolveGraph refuses what would never end or nests too deep, and nothing else.
LEMMA GraphFacts ==
    ASSUME NEW refs, \A t \in DOMAIN refs : \E k \in Nat : DOMAIN refs[t] = 1 .. k, Root \in DOMAIN refs
    PROVE  LET looping == \E S : Root \in S /\ Endless(refs, S)
               deep == Path(refs, Root, MaxDepth + 1)
               verdict == ResolveGraph(Root, refs)
           IN  /\ verdict = "ok" <=> ~looping /\ ~deep
               /\ verdict = "cycle" => looping
               /\ verdict = "depth" => deep
<1>1. MaxDepth + 1 \in 0 .. MaxDepth + 1
  BY DepthAssumption
<1>2. {} \in SUBSET DOMAIN refs
  OBVIOUS
<1>3. Answered(refs, Walk(refs)[MaxDepth + 1][Root][{}], Root, {}, MaxDepth + 1)
  BY <1>1, <1>2, WalkAnswered
<1>4. OnPath(refs, Root, {})
  BY DEF OnPath
<1> QED  BY <1>3, <1>4 DEF Answered, ResolveGraph

-----------------------------------------------------------------------------
(* Every input that is picked.                                             *)

\* What is known of the input, by its kind.
InputInv ==
    /\ input.kind = "step" => /\ \E n \in Nat : input.children \in [1 .. n -> Verdict]
                              /\ input.negative \in BOOLEAN
    /\ input.kind = "plan" => \E n \in Nat : /\ input.verdicts \in [1 .. n -> Verdict \cup {Nil}]
                                             /\ input.optional \in [1 .. n -> BOOLEAN]
    /\ input.kind = "graph" => /\ Root \in DOMAIN input.refs
                               /\ \A t \in DOMAIN input.refs : \E n \in Nat : DOMAIN input.refs[t] = 1 .. n
    /\ input.kind = "text" => /\ \E n \in Nat : input.text \in [1 .. n -> Tokens]
                              /\ input.parallel \in BOOLEAN
                              /\ \E a \in ConfigTexts : \E b \in ConfigTexts : input.config = [a |-> a, b |-> b]
    /\ input.kind = "parallel" => input.spec \in ParallelSpecs

\* What PickPlan picks, with Nil for the empty string.
LEMMA PlanPicked ==
    ASSUME PickPlan
    PROVE  \E k \in 0 .. MaxSteps : \E v \in [1 .. k -> Verdict \cup {Nil}], o \in [1 .. k -> BOOLEAN] :
             input' = [kind |-> "plan", verdicts |-> v, optional |-> o]
BY Zenon DEF PickPlan, Nil

\* InputInv is inductive.
LEMMA InputHolds == MCSpec => []InputInv
<1>1. MCInit => InputInv
  BY DEF MCInit, Init, None, InputInv
<1>2. InputInv /\ [MCNext]_<<input, dvars>> => InputInv'
  <2> SUFFICES ASSUME InputInv, [MCNext]_<<input, dvars>> PROVE InputInv'
    OBVIOUS
  <2>1. CASE input' = input
    BY <2>1 DEF InputInv
  <2>2. CASE PickStep
    <3>1. MaxChildren \in Nat
      BY InputAssumption
    <3>2. PICK c \in SeqsUpTo(Verdict, MaxChildren), n \in BOOLEAN :
                 input' = [kind |-> "step", children |-> c, negative |-> n]
      BY <2>2 DEF PickStep
    <3>3. \E k \in Nat : c \in [1 .. k -> Verdict]
      BY <3>1, <3>2, SeqsUpToFacts
    <3> QED  BY <3>2, <3>3 DEF InputInv
  <2>3. CASE PickPlan
    <3>1. PICK k \in 0 .. MaxSteps : \E v \in [1 .. k -> Verdict \cup {Nil}], o \in [1 .. k -> BOOLEAN] :
                 input' = [kind |-> "plan", verdicts |-> v, optional |-> o]
      BY <2>3, PlanPicked
    <3>2. k \in Nat
      BY InputAssumption
    <3> QED  BY <3>1, <3>2 DEF InputInv
  <2>4. CASE PickGraph
    <3>1. MaxRefs \in Nat
      BY InputAssumption
    <3> PICK exist \in {e \in SUBSET Tests : Root \in e} :
               \E refs \in [exist -> SeqsUpTo(Tests, MaxRefs)] : input' = [kind |-> "graph", refs |-> refs]
      BY <2>4 DEF PickGraph
    <3>2. PICK refs \in [exist -> SeqsUpTo(Tests, MaxRefs)] : input' = [kind |-> "graph", refs |-> refs]
      OBVIOUS
    <3>3. ASSUME NEW t \in DOMAIN refs PROVE \E n \in Nat : DOMAIN refs[t] = 1 .. n
      <4>1. refs[t] \in SeqsUpTo(Tests, MaxRefs)
        BY <3>2
      <4>2. PICK n \in Nat : refs[t] \in [1 .. n -> Tests]
        BY <3>1, <4>1, SeqsUpToFacts
      <4> QED  BY <4>2
    <3>4. Root \in DOMAIN refs
      BY <3>2
    <3> QED  BY <3>2, <3>3, <3>4 DEF InputInv
  <2>5. CASE PickText
    <3>1. MaxTokens \in Nat
      BY BoundAssumption
    <3>2. PICK t \in SeqsUpTo(Tokens, MaxTokens), a \in ConfigTexts, b \in ConfigTexts, p \in BOOLEAN :
                 input' = [kind |-> "text", text |-> t, parallel |-> p, config |-> [a |-> a, b |-> b]]
      BY <2>5 DEF PickText
    <3>3. \E n \in Nat : t \in [1 .. n -> Tokens]
      BY <3>1, <3>2, SeqsUpToFacts
    <3>4. input'.kind = "text" /\ input'.text = t /\ input'.parallel = p /\ input'.config = [a |-> a, b |-> b]
      BY <3>2
    <3> QED  BY <3>3, <3>4 DEF InputInv
  <2>6. CASE PickParallel
    <3>1. input'.kind = "parallel" /\ input'.spec \in ParallelSpecs
      BY <2>6 DEF PickParallel
    <3> QED  BY <3>1 DEF InputInv
  <2> QED  BY <2>1, <2>2, <2>3, <2>4, <2>5, <2>6, Zenon DEF MCNext, Next
<1> QED  BY <1>1, <1>2, PTL DEF MCSpec

\* Whatever the bounds on steps, children, nesting and the graph: a composition is refused
\* exactly when it would never end or nests too deep, a step passes exactly when its children
\* went as it expects, a child is tried again exactly when it keeps the step from passing,
\* the two readings of a condition agree, and a run passes exactly when its steps did.
THEOREM CompositionIsSound == MCSpec => []CompositionSound
<1>1. InputInv => CompositionSound
  <2> SUFFICES ASSUME InputInv PROVE CompositionSound
    OBVIOUS
  <2>1. AggregateSound
    <3> SUFFICES ASSUME input.kind = "step" PROVE AggregateSound
      BY DEF AggregateSound
    <3>1. PICK n \in Nat : input.children \in [1 .. n -> Verdict]
      BY DEF InputInv
    <3>2. input.negative \in BOOLEAN
      BY DEF InputInv
    <3>3. DOMAIN input.children = 1 .. n
      BY <3>1
    <3>4. input.children = <<>> <=> n = 0
      BY <3>1
    <3> QED  BY <3>1, <3>2, <3>3, <3>4, AggregateFacts DEF AggregateSound
  <2>2. RetryWhatFails
    <3> SUFFICES ASSUME input.kind = "step", NEW i \in DOMAIN input.children
                 PROVE  ChildNeedsRetry(input.children[i], input.negative)
                          <=> Aggregate(<<input.children[i]>>, input.negative) \in {"failed", "error"}
      BY Zenon DEF RetryWhatFails
    <3>1. input.children[i] \in Verdict /\ input.negative \in BOOLEAN
      BY DEF InputInv
    <3> QED  BY <3>1, RetryFacts
  <2>3. SkipAgrees
    <3> SUFFICES ASSUME input.kind = "plan", NEW always \in BOOLEAN
                 PROVE  ShouldSkip(input.verdicts, input.optional, always)
                          <=> \E i \in DOMAIN input.verdicts :
                                input.verdicts[i] # Nil /\ ~ShouldRunNext(input.verdicts[i], input.optional[i], always)
      BY Zenon DEF SkipAgrees, Nil
    <3> QED  BY SkipFacts DEF InputInv
  <2>4. ParentSound
    <3> DEFINE counted == {input.verdicts[i] : i \in {j \in DOMAIN input.verdicts : ~input.optional[j]}}
               phase == ParentPhase(input.verdicts, input.optional)
    <3> SUFFICES ASSUME input.kind = "plan"
                 PROVE  /\ phase = "passed" <=> counted \subseteq {"passed", Nil}
                        /\ phase = "failed" <=> "failed" \in counted /\ counted \cap {"aborted", "error"} = {}
      BY Zenon DEF ParentSound, Nil
    <3> QED  BY ParentFacts DEF InputInv
  <2>5. GraphSound
    <3> SUFFICES ASSUME input.kind = "graph" PROVE GraphSound
      BY DEF GraphSound
    <3> DEFINE refs == input.refs
    <3>1. /\ Root \in DOMAIN refs
          /\ \A t \in DOMAIN refs : \E k \in Nat : DOMAIN refs[t] = 1 .. k
      BY DEF InputInv
    <3>2. (\E S : Root \in S /\ Endless(refs, S))
            <=> \E S \in SUBSET DOMAIN refs : Root \in S
                  /\ \A t \in S : \E u \in S : \E i \in DOMAIN refs[t] : refs[t][i] = u
      BY Zenon DEF Endless, Names
    <3>3. Path(refs, Root, MaxDepth + 1)
            <=> \E p \in [0 .. MaxDepth + 1 -> DOMAIN refs] :
                  p[0] = Root /\ \A i \in 0 .. MaxDepth : \E j \in DOMAIN refs[p[i]] : refs[p[i]][j] = p[i + 1]
      <4>1. (MaxDepth + 1) - 1 = MaxDepth
        BY DepthAssumption
      <4> QED  BY <4>1, Zenon DEF Path, Names
    <3>4. LET looping == \E S : Root \in S /\ Endless(refs, S)
              deep == Path(refs, Root, MaxDepth + 1)
              verdict == ResolveGraph(Root, refs)
          IN  /\ verdict = "ok" <=> ~looping /\ ~deep
              /\ verdict = "cycle" => looping
              /\ verdict = "depth" => deep
      <4> HIDE DEF refs
      <4> QED  BY <3>1, GraphFacts
    <3> QED  BY <3>2, <3>3, <3>4, Zenon DEF GraphSound
  <2> QED  BY <2>1, <2>2, <2>3, <2>4, <2>5 DEF CompositionSound
<1> QED  BY <1>1, InputHolds, PTL

-----------------------------------------------------------------------------
\* A function of one key.
LEMMA OnlyFacts ==
    ASSUME NEW a, NEW b
    PROVE  DOMAIN Only(a, b) = {a} /\ Only(a, b)[a] = b
BY DEF Only

-----------------------------------------------------------------------------
(* The specs and the pods of a run.                                        *)

\* What the platform asks of a spec, and that every field is there.
Allowed(spec) ==
    /\ Fields \subseteq DOMAIN spec
    /\ CheckPod(spec.serviceAccountName, spec.volumes) /\ CheckContainer(spec.securityContext)

\* The parts of a pod that say what it may do.
Guarded == {"serviceAccountName", "volumes", "securityContext"}

\* The fields that the policy is about hold no texts: evaluating and filling leave them alone.
LEMMA GuardedFacts ==
    /\ Guarded \subseteq Fields
    /\ Guarded \cap (TextFields \cup {"labels", "annotations", "env", "artifacts"}) = {}
BY DEF Guarded, Fields, FillFields, KeyedFields, JoinedFields, ReplacedFields, TestFields, TextFields

\* Resolve loses no field.
LEMMA ResolveFields ==
    ASSUME NEW s, NEW overrides, NEW store, NEW env
    PROVE  Fields \subseteq DOMAIN Resolve(s, overrides, store, env)
<1>1. ASSUME NEW dst, NEW t PROVE DOMAIN MergeTest(dst, t) = Fields
  BY DEF MergeTest
<1>2. ASSUME NEW spec PROVE DOMAIN BindInlineMainFile(spec) = DOMAIN spec
  BY DEF BindInlineMainFile
<1>3. DOMAIN MergeTemplates(s, store) = Fields
  BY <1>1, <1>2 DEF MergeTemplates
<1>4. ASSUME NEW spec, NEW scope PROVE DOMAIN spec \subseteq DOMAIN EvalStringsInSpec(spec, scope)
  BY DEF EvalStringsInSpec, ++
<1> QED  BY <1>3, <1>4 DEF Resolve

\* The values of a worker's references change nothing that the policy is about.
LEMMA SubstituteFacts ==
    ASSUME NEW spec, Fields \subseteq DOMAIN spec, NEW worker
    PROVE  \A f \in Guarded : SubstituteInSpec(spec, worker)[f] = spec[f]
<1> DEFINE a == [f \in TextFields |-> IF spec[f] = Unset THEN Unset ELSE SubstituteWorker(spec[f], worker)]
           b == [f \in {"labels", "annotations"} |->
                   [k \in DOMAIN spec[f] |-> SubstituteWorker(spec[f][k], worker)]]
           c == [env |-> [i \in DOMAIN spec.env |-> [spec.env[i] EXCEPT !.value = SubstituteWorker(@, worker)]],
                 artifacts |-> IF spec.artifacts = Unset THEN Unset
                               ELSE [spec.artifacts EXCEPT !.paths = SubstituteWorker(@, worker)]]
<1>1. DOMAIN a = TextFields /\ DOMAIN b = {"labels", "annotations"} /\ DOMAIN c = {"env", "artifacts"}
  OBVIOUS
<1>2. SubstituteInSpec(spec, worker) = (((a ++ b) ++ c) ++ spec)
  BY Zenon DEF SubstituteInSpec
<1> HIDE DEF a, b, c
<1>3. DOMAIN ((a ++ b) ++ c) = TextFields \cup {"labels", "annotations"} \cup {"env", "artifacts"}
  BY <1>1 DEF ++
<1>4. \A f \in Guarded : f \in DOMAIN spec \ DOMAIN ((a ++ b) ++ c)
  BY <1>3, GuardedFacts
<1> QED  BY <1>2, <1>4 DEF ++

\* An override that is allowed over a spec that is allowed.
LEMMA MergeFacts ==
    ASSUME NEW spec, CheckPod(spec.serviceAccountName, spec.volumes), NEW pod, Overrides(pod)
    PROVE  LET p == MergePodConfig(spec, pod) IN CheckPod(p.serviceAccountName, p.volumes)
<1> DEFINE p == MergePodConfig(spec, pod)
<1>1. /\ p.serviceAccountName = IF "serviceAccountName" \in DOMAIN pod THEN pod.serviceAccountName
                                ELSE spec.serviceAccountName
      /\ p.volumes = IF "volumes" \in DOMAIN pod THEN pod.volumes ELSE spec.volumes
  BY DEF MergePodConfig, PodFields
<1>2. "volumes" \in DOMAIN pod => Overriding(pod, "volumes") = pod.volumes
  BY DEF Overriding
<1> HIDE DEF p
<1> DEFINE accounts == {Unset, "default"} \cup ServiceAccounts
           bounded(v) == \A i \in DOMAIN v : \/ v[i].kind \in AllowedVolumes
                                             \/ v[i].kind = "hostPath" /\ AllowHostPath
<1>3. \A s, v : CheckPod(s, v) <=> s \in accounts /\ bounded(v)
  BY DEF CheckPod
<1> HIDE DEF accounts, bounded
<1>4. p.serviceAccountName \in accounts
  BY <1>1, <1>3 DEF Overrides
<1>5. bounded(p.volumes)
  BY <1>1, <1>2, <1>3 DEF Overrides
<1> QED  BY <1>3, <1>4, <1>5 DEF p

\* A test's pod always carries the run's own id, whatever its user's labels are.
LEMMA LabelFacts ==
    ASSUME NEW spec, NEW pod
    PROVE  LET m == MergeLabels(spec, pod, "run")
           IN  m["run-id"] = "run" /\ m["managed-by"] = "kubetest-alt"
<1> DEFINE user == Overriding(pod, "labels") ++ spec.labels
           rest == [k \in DOMAIN user \ Reserved |-> user[k]]
           a == Only("run-id", "run")
           b == Only("managed-by", "kubetest-alt")
<1>1. MergeLabels(spec, pod, "run") = ((a ++ b) ++ rest)
  BY Zenon DEF MergeLabels
<1>2. DOMAIN a = {"run-id"} /\ a["run-id"] = "run" /\ DOMAIN b = {"managed-by"} /\ b["managed-by"] = "kubetest-alt"
  BY OnlyFacts, Zenon
<1> HIDE DEF a, b, rest
<1>3. DOMAIN (a ++ b) = {"run-id", "managed-by"} /\ (a ++ b)["run-id"] = "run" /\ (a ++ b)["managed-by"] = "kubetest-alt"
  <2>1. "managed-by" \in DOMAIN b \ DOMAIN a
    BY <1>2
  <2>2. DOMAIN (a ++ b) = {"run-id"} \cup {"managed-by"}
    BY <1>2 DEF ++
  <2>3. (a ++ b)["run-id"] = "run"
    BY <1>2 DEF ++
  <2>4. (a ++ b)["managed-by"] = "kubetest-alt"
    BY <1>2, <2>1 DEF ++
  <2> QED  BY <2>2, <2>3, <2>4
<1> QED  BY <1>1, <1>3 DEF ++

\* What PodsAsPromised says of one Job, and of one replica of a service.
JobAsPromised(p) ==
    /\ CheckPod(p.pod.serviceAccountName, p.pod.volumes) /\ CheckContainer(p.securityContext)
    /\ p.labels["run-id"] = "run" /\ p.labels["managed-by"] = "kubetest-alt"
ReplicaAsPromised(p) ==
    CheckPod(p.pod.serviceAccountName, p.pod.volumes) /\ "run-id" \notin DOMAIN p.labels

\* A Job of an allowed spec, with or without a worker, is as promised.
LEMMA JobFacts ==
    ASSUME NEW spec, Allowed(spec), NEW pod, Overrides(pod), NEW worker
    PROVE  JobAsPromised(CompilePod(spec, pod, "run", worker))
<1> DEFINE s == IF worker = <<>> THEN spec ELSE SubstituteInSpec(spec, worker)
           job == CompilePod(spec, pod, "run", worker)
<1>1. \A f \in Guarded : s[f] = spec[f]
  BY SubstituteFacts DEF Allowed
<1>2. CheckPod(s.serviceAccountName, s.volumes) /\ CheckContainer(s.securityContext)
  <2> HIDE DEF s
  <2>1. s.serviceAccountName = spec.serviceAccountName /\ s.volumes = spec.volumes
          /\ s.securityContext = spec.securityContext
    BY <1>1 DEF Guarded
  <2> QED  BY <2>1 DEF Allowed
<1>3. /\ job.pod = MergePodConfig(s, pod)
      /\ job.labels = MergeLabels(s, pod, "run")
      /\ job.securityContext = s.securityContext
  BY DEF CompilePod
<1> HIDE DEF s, job
<1>4. CheckPod(job.pod.serviceAccountName, job.pod.volumes)
  BY <1>2, <1>3, MergeFacts
<1>5. job.labels["run-id"] = "run" /\ job.labels["managed-by"] = "kubetest-alt"
  BY <1>3, LabelFacts
<1>6. JobAsPromised(job)
  BY <1>2, <1>3, <1>4, <1>5 DEF JobAsPromised
<1> QED  BY <1>6 DEF job

\* So is a replica of a service.
LEMMA ReplicaFacts ==
    ASSUME NEW spec, Allowed(spec), NEW pod, Overrides(pod), NEW p \in ServicePods(spec, pod, "run")
    PROVE  ReplicaAsPromised(p)
<1> DEFINE user == MergeLabels(spec, pod, "run")
           rest == [k \in DOMAIN user \ {"run-id"} |-> user[k]]
           own(s, i) == (Only("service-of", "run") ++ Only("service", s)) ++ Only("service-index", i)
<1>1. \E s \in DOMAIN spec.services : \E i \in 0 .. Replicas(spec.services[s]) - 1 :
             p = [pod |-> MergePodConfig(spec, pod), annotations |-> MergeAnnotations(spec, pod),
                  labels |-> own(s, i) ++ rest]
  BY Zenon DEF ServicePods
<1>  PICK s, i : p = [pod |-> MergePodConfig(spec, pod), annotations |-> MergeAnnotations(spec, pod),
                      labels |-> own(s, i) ++ rest]
  BY <1>1, Zenon
<1>2. p.pod = MergePodConfig(spec, pod) /\ p.labels = (own(s, i) ++ rest)
  <2> HIDE DEF own, rest
  <2> QED  OBVIOUS
<1>3. DOMAIN own(s, i) = ({"service-of"} \cup {"service"}) \cup {"service-index"}
  BY DEF ++, Only
<1>4. "run-id" \notin DOMAIN rest
  OBVIOUS
<1> HIDE DEF own, rest
<1>5. DOMAIN p.labels = DOMAIN own(s, i) \cup DOMAIN rest
  BY <1>2 DEF ++
<1>6. "run-id" \notin DOMAIN p.labels
  BY <1>3, <1>4, <1>5
<1>7. CheckPod(p.pod.serviceAccountName, p.pod.volumes)
  BY <1>2, MergeFacts DEF Allowed
<1> QED  BY <1>6, <1>7 DEF ReplicaAsPromised

-----------------------------------------------------------------------------
(* What holds of the run and its pods in every state.                      *)

\* The override was allowed whenever it was written; a run that was set up has a spec that
\* the policy allows.
RunInv ==
    /\ DOMAIN run = {"phase", "reason", "config", "pod", "spec"} /\ Overrides(run.pod)
    /\ run.phase = "queued" => Allowed(run.spec)

\* The pods there are.
PodsInv ==
    /\ DOMAIN pods = {"jobs", "tried", "services"}
    /\ \E S : pods.jobs \in Seq(S) /\ \A p \in S : JobAsPromised(p)
    /\ \A p \in pods.services : ReplicaAsPromised(p)

\* At first there is no run and no pod.
LEMMA DefInitFacts ==
    ASSUME DefInit
    PROVE  /\ run = [phase |-> "none", reason |-> Nil, config |-> <<>>, pod |-> <<>>, spec |-> Blank]
           /\ pods = [jobs |-> <<>>, tried |-> 0, services |-> {}]
BY Zenon DEF DefInit, Nil

\* No error in setup: the policy was asked and agreed.
LEMMA SetupAgreed ==
    ASSUME NEW spec, NEW pod, SetupError(spec, pod) = Nil
    PROVE  PolicyCheck(spec, pod)
BY Zenon DEF SetupError, Nil

\* A setup refuses the run, or queues it with a spec that has no setup error.
LEMMA SetupCases ==
    ASSUME SetupRun
    PROVE  /\ pods' = pods
           /\ \/ \E reason : Refused(reason)
              \/ LET spec == SpecOf(seen.test, seen.tmpl, run.config)
                 IN  SetupError(spec, run.pod) = Nil /\ run' = [run EXCEPT !.phase = "queued", !.spec = spec]
BY Zenon DEF SetupRun, Nil

\* RunInv and PodsInv are inductive.
LEMMA PodsHold == MCSpec => [](RunInv /\ PodsInv)
<1>1. MCInit => RunInv /\ PodsInv
  <2> SUFFICES ASSUME DefInit PROVE RunInv /\ PodsInv
    BY DEF MCInit
  <2>1. run = [phase |-> "none", reason |-> Nil, config |-> <<>>, pod |-> <<>>, spec |-> Blank]
    BY DefInitFacts
  <2>2. pods = [jobs |-> <<>>, tried |-> 0, services |-> {}]
    BY DefInitFacts
  <2>3. Overrides(<<>>)
    BY DEF Overrides, Overriding, CheckPod
  <2>4. RunInv
    BY <2>1, <2>3 DEF RunInv
  <2>5. <<>> \in Seq({})
    OBVIOUS
  <2>6. PodsInv
    <3>1. DOMAIN pods = {"jobs", "tried", "services"} /\ pods.jobs = <<>> /\ pods.services = {}
      BY <2>2
    <3>2. \E S : pods.jobs \in Seq(S) /\ \A p \in S : JobAsPromised(p)
      BY <2>5, <3>1
    <3> QED  BY <3>1, <3>2 DEF PodsInv
  <2> QED  BY <2>4, <2>6
<1>2. RunInv /\ PodsInv /\ [MCNext]_<<input, dvars>> => (RunInv /\ PodsInv)'
  <2> SUFFICES ASSUME RunInv, PodsInv, [MCNext]_<<input, dvars>> PROVE RunInv' /\ PodsInv'
    OBVIOUS
  <2>1. CASE run' = run /\ pods' = pods
    BY <2>1 DEF RunInv, PodsInv
  <2>2. CASE pods' = pods /\ \E reason : Refused(reason)
    BY <2>2 DEF Refused, RunInv, PodsInv
  <2>3. CASE CreateRun
    <3>1. PICK c \in ConfigPool, p \in PodPool :
                 Overrides(p) /\ run' = [run EXCEPT !.phase = "new", !.config = c, !.pod = p]
      BY <2>3 DEF CreateRun
    <3>2. pods' = pods
      BY <2>3 DEF CreateRun
    <3> QED  BY <3>1, <3>2 DEF RunInv, PodsInv
  <2>4. CASE EditRun
    <3>1. PICK p \in PodPool : Overrides(p) /\ run' = [run EXCEPT !.pod = p]
      BY <2>4 DEF EditRun
    <3>2. pods' = pods
      BY <2>4 DEF EditRun
    <3> QED  BY <3>1, <3>2 DEF RunInv, PodsInv
  <2>5. CASE SetupRun
    <3> DEFINE spec == SpecOf(seen.test, seen.tmpl, run.config)
    <3>1. CASE SetupError(spec, run.pod) = Nil /\ run' = [run EXCEPT !.phase = "queued", !.spec = spec]
      <4>1. PolicyCheck(spec, run.pod)
        BY <3>1, SetupAgreed
      <4>2. Fields \subseteq DOMAIN spec
        BY ResolveFields DEF SpecOf
      <4> HIDE DEF spec
      <4>3. Allowed(spec)
        BY <4>1, <4>2 DEF PolicyCheck, Allowed
      <4>4. run'.spec = spec /\ run'.pod = run.pod /\ DOMAIN run' = DOMAIN run
        BY <3>1 DEF RunInv
      <4>5. RunInv'
        BY <4>3, <4>4 DEF RunInv
      <4>6. pods' = pods
        BY <2>5, SetupCases
      <4> QED  BY <4>5, <4>6 DEF PodsInv
    <3>2. pods' = pods /\ \/ \E reason : Refused(reason)
                          \/ SetupError(spec, run.pod) = Nil /\ run' = [run EXCEPT !.phase = "queued", !.spec = spec]
      BY <2>5, SetupCases
    <3> HIDE DEF spec
    <3> QED  BY <2>2, <3>1, <3>2
  <2>6. CASE StartServices
    <3>1. run.phase = "queued" /\ run' = run
      BY <2>6 DEF StartServices
    <3>2. pods' = [pods EXCEPT !.services = ServicePods(run.spec, run.pod, "run")]
      BY <2>6 DEF StartServices
    <3>3. \A p \in ServicePods(run.spec, run.pod, "run") : ReplicaAsPromised(p)
      BY <3>1, ReplicaFacts DEF RunInv
    <3> QED  BY <3>1, <3>2, <3>3 DEF RunInv, PodsInv
  <2>7. CASE CreateJobOf
    <3>1. run.phase = "queued"
      BY <2>7 DEF CreateJobOf
    <3>2. PICK workers : \E job \in {CompilePod(run.spec, run.pod, "run", workers[pods.tried + 1])} :
                 IF Uncompiled(run.spec, job) /\ run.spec.parallel = Unset
                 THEN Refused("CompileError") /\ UNCHANGED pods
                 ELSE /\ pods' = [pods EXCEPT !.tried = @ + 1,
                                              !.jobs = IF Uncompiled(run.spec, job) THEN @ ELSE Append(@, job)]
                      /\ run' = IF pods.tried + 1 = Len(workers) THEN [run EXCEPT !.phase = "running"] ELSE run
      BY <2>7, Zenon DEF CreateJobOf
    <3> DEFINE worker == workers[pods.tried + 1]
               job == CompilePod(run.spec, run.pod, "run", worker)
    <3>3. \/ Refused("CompileError") /\ pods' = pods
          \/ /\ \/ pods' = [pods EXCEPT !.tried = @ + 1, !.jobs = @]
                \/ pods' = [pods EXCEPT !.tried = @ + 1, !.jobs = Append(@, job)]
             /\ run' = run \/ run' = [run EXCEPT !.phase = "running"]
      BY <3>2, Zenon
    <3>4. JobAsPromised(job)
      <4> HIDE DEF worker
      <4> QED  BY <3>1, JobFacts DEF RunInv
    <3> HIDE DEF job
    <3>5. ASSUME pods' = [pods EXCEPT !.tried = @ + 1, !.jobs = Append(@, job)] PROVE PodsInv'
      <4>1. PICK S : pods.jobs \in Seq(S) /\ \A p \in S : JobAsPromised(p)
        BY DEF PodsInv
      <4> DEFINE T == S \cup {job}
      <4>2. Append(pods.jobs, job) \in Seq(T)
        <5>1. pods.jobs \in Seq(T)
          BY <4>1
        <5> QED  BY <5>1
      <4>3. \A p \in T : JobAsPromised(p)
        BY <3>4, <4>1
      <4>4. pods'.jobs = Append(pods.jobs, job) /\ pods'.services = pods.services /\ DOMAIN pods' = DOMAIN pods
        BY <3>5 DEF PodsInv
      <4> HIDE DEF T
      <4> QED  BY <4>2, <4>3, <4>4 DEF PodsInv
    <3>6. ASSUME run' = run \/ run' = [run EXCEPT !.phase = "running"] PROVE RunInv'
      BY <3>6 DEF RunInv
    <3>7. ASSUME pods' = [pods EXCEPT !.tried = @ + 1, !.jobs = @] PROVE PodsInv'
      <4>1. pods'.jobs = pods.jobs /\ pods'.services = pods.services /\ DOMAIN pods' = DOMAIN pods
        BY <3>7 DEF PodsInv
      <4> QED  BY <4>1 DEF PodsInv
    <3> QED  BY <2>2, <3>3, <3>5, <3>6, <3>7
  <2>8. CASE ApplyTest \/ ApplyTemplate \/ DeleteTemplate \/ SeeTest \/ SeeTemplate \/ ReconcileTest
    BY <2>1, <2>8 DEF ApplyTest, ApplyTemplate, DeleteTemplate, SeeTest, SeeTemplate, ReconcileTest
  <2>9. CASE UNCHANGED dvars
    BY <2>1, <2>9 DEF dvars
  <2> QED  BY <2>3, <2>4, <2>5, <2>6, <2>7, <2>8, <2>9, Zenon DEF MCNext, DefNext, Caches
<1> QED  BY <1>1, <1>2, PTL DEF MCSpec

\* Whatever is edited between admission, setup and each Job, for any Tests, templates,
\* overrides and policy: every pod the operator creates keeps to the policy, the test's pods
\* carry the run-id and no service replica does.
THEOREM PodsArePromised == MCSpec => []PodsAsPromised
<1>1. RunInv /\ PodsInv => PodsAsPromised
  <2> SUFFICES ASSUME PodsInv PROVE PodsAsPromised
    OBVIOUS
  <2>1. PICK S : pods.jobs \in Seq(S) /\ \A p \in S : JobAsPromised(p)
    BY DEF PodsInv
  <2>2. \A i \in DOMAIN pods.jobs : pods.jobs[i] \in S
    BY <2>1
  <2>3. \A i \in DOMAIN pods.jobs : JobAsPromised(pods.jobs[i])
    BY <2>1, <2>2
  <2> QED  BY <2>3, Zenon DEF PodsInv, PodsAsPromised, JobAsPromised, ReplicaAsPromised
<1> QED  BY <1>1, PodsHold, PTL

-----------------------------------------------------------------------------
(* Sequences put end to end.                                               *)

\* F are the beginnings of ss put end to end.
Joins(ss, F) == F[0] = <<>> /\ \A i \in 1 .. Len(ss) : F[i] = F[i - 1] \o ss[i]

\* The beginnings are sequences.
LEMMA JoinsType ==
    ASSUME NEW S, NEW ss \in Seq(Seq(S)), NEW F, Joins(ss, F)
    PROVE  \A i \in 0 .. Len(ss) : F[i] \in Seq(S)
<1> DEFINE B == {i \in 0 .. Len(ss) : F[i] \notin Seq(S)}
<1>1. SUFFICES ASSUME B # {} PROVE FALSE
  OBVIOUS
<1>2. B \in SUBSET Nat
  OBVIOUS
<1>3. PICK i \in B : \A j \in B : i <= j
  <2> HIDE DEF B
  <2> QED  BY <1>1, <1>2, LeastOf
<1>4. i \in 0 .. Len(ss) /\ F[i] \notin Seq(S)
  OBVIOUS
<1>5. i # 0
  <2>1. <<>> \in Seq(S)
    OBVIOUS
  <2> QED  BY <1>4, <2>1 DEF Joins
<1>6. i - 1 \in 0 .. Len(ss) /\ ~(i <= i - 1)
  BY <1>4, <1>5
<1>7. F[i - 1] \in Seq(S)
  BY <1>3, <1>6
<1>8. i \in 1 .. Len(ss) /\ ss[i] \in Seq(S)
  BY <1>4, <1>5
<1>9. F[i] = F[i - 1] \o ss[i]
  BY <1>8 DEF Joins
<1> QED  BY <1>4, <1>7, <1>8, <1>9

\* There are such beginnings.
LEMMA JoinsExist ==
    ASSUME NEW S, NEW ss \in Seq(Seq(S))
    PROVE  \E F : Joins(ss, F)
<1> DEFINE A(k) == \E F : F[0] = <<>> /\ \A i \in 1 .. k : F[i] = F[i - 1] \o ss[i]
           B == {k \in 0 .. Len(ss) : ~A(k)}
<1>1. SUFFICES ASSUME B # {} PROVE FALSE
  <2>1. Len(ss) \in 0 .. Len(ss)
    OBVIOUS
  <2>2. B = {} => A(Len(ss))
    BY <2>1
  <2> QED  BY <2>2 DEF Joins
<1>2. B \in SUBSET Nat
  <2> HIDE DEF A
  <2> QED  OBVIOUS
<1>3. PICK k \in B : \A j \in B : k <= j
  <2> HIDE DEF B
  <2> QED  BY <1>1, <1>2, LeastOf
<1>4. k \in 0 .. Len(ss) /\ ~A(k)
  <2> HIDE DEF A
  <2> QED  OBVIOUS
<1>5. CASE k = 0
  <2> DEFINE F == [i \in {0} |-> <<>>]
  <2>1. F[0] = <<>> /\ \A i \in 1 .. 0 : F[i] = F[i - 1] \o ss[i]
    OBVIOUS
  <2> QED  BY <1>4, <1>5, <2>1
<1>6. CASE k # 0
  <2>1. k - 1 \in 0 .. Len(ss) /\ ~(k <= k - 1)
    BY <1>4, <1>6
  <2>2. A(k - 1)
    BY <1>3, <2>1
  <2>3. PICK F : F[0] = <<>> /\ \A i \in 1 .. k - 1 : F[i] = F[i - 1] \o ss[i]
    BY <2>2
  <2> DEFINE G == [i \in 0 .. k |-> IF i = k THEN F[k - 1] \o ss[k] ELSE F[i]]
  <2>4. G[0] = <<>>
    BY <1>4, <1>6, <2>3
  <2>5. ASSUME NEW i \in 1 .. k PROVE G[i] = G[i - 1] \o ss[i]
    <3>1. i - 1 \in 0 .. k /\ i - 1 # k /\ i \in 0 .. k /\ (i # k => i \in 1 .. k - 1)
      BY <1>4
    <3>2. G[i - 1] = F[i - 1]
      BY <3>1
    <3>3. G[i] = F[i - 1] \o ss[i]
      BY <2>3, <3>1
    <3> QED  BY <3>2, <3>3
  <2> HIDE DEF G
  <2> QED  BY <1>4, <2>4, <2>5
<1> QED  BY <1>5, <1>6

\* Their last is what FlattenSeq makes.
LEMMA FlattenJoins ==
    ASSUME NEW S, NEW ss \in Seq(Seq(S)), NEW F, Joins(ss, F)
    PROVE  FlattenSeq(ss) = F[Len(ss)]
<1>1. CASE Len(ss) = 0
  <2>1. ss = <<>>
    BY <1>1
  <2> QED  BY <1>1, <2>1 DEF FlattenSeq, Joins
<1>2. CASE Len(ss) # 0
  <2> DEFINE n == Len(ss)
             Solves(g) == g = [i \in 1 .. n |-> IF i = 1 THEN ss[i] ELSE g[i - 1] \o ss[i]]
             g == CHOOSE h : Solves(h)
             G == [i \in 1 .. n |-> F[i]]
  <2>1. FlattenSeq(ss) = g[n]
    BY <1>2 DEF FlattenSeq
  <2>2. n \in Nat /\ n # 0
    BY <1>2
  <2>3. F[1] = ss[1]
    <3>1. 1 \in 1 .. n /\ 1 - 1 = 0
      BY <2>2
    <3>2. F[1] = F[1 - 1] \o ss[1]
      BY <3>1, Zenon DEF Joins
    <3>3. F[1 - 1] = <<>> /\ ss[1] \in Seq(S)
      BY <3>1 DEF Joins
    <3> QED  BY <3>2, <3>3
  <2>4. \A i \in 1 .. n : F[i] = IF i = 1 THEN ss[i] ELSE F[i - 1] \o ss[i]
    BY <2>3 DEF Joins
  <2>5. \A i \in 1 .. n : i # 1 => G[i - 1] = F[i - 1]
    BY <2>2
  <2>6. Solves(G)
    <3>1. \A i \in 1 .. n : G[i] = IF i = 1 THEN ss[i] ELSE G[i - 1] \o ss[i]
      BY <2>4, <2>5
    <3>2. G = [i \in 1 .. n |-> G[i]]
      OBVIOUS
    <3> HIDE DEF G
    <3> QED  BY <3>1, <3>2
  <2>7. Solves(g)
    <3> HIDE DEF Solves, G
    <3> QED  BY <2>6, Zenon
  <2> HIDE DEF G, g
  <2>8. \A i \in 1 .. n : g[i] = IF i = 1 THEN ss[i] ELSE g[i - 1] \o ss[i]
    BY <2>7
  <2> DEFINE B == {i \in 1 .. n : g[i] # F[i]}
  <2>9. B = {}
    <3>1. SUFFICES ASSUME B # {} PROVE FALSE
      OBVIOUS
    <3>2. B \in SUBSET Nat
      OBVIOUS
    <3>3. PICK i \in B : \A j \in B : i <= j
      <4> HIDE DEF B
      <4> QED  BY <3>1, <3>2, LeastOf
    <3>4. CASE i = 1
      BY <2>4, <2>8, <3>4
    <3>5. CASE i # 1
      <4>1. i \in 1 .. n /\ i - 1 \in 1 .. n /\ ~(i <= i - 1)
        BY <3>5
      <4>2. g[i - 1] = F[i - 1]
        BY <3>3, <4>1
      <4>3. g[i] = g[i - 1] \o ss[i] /\ F[i] = F[i - 1] \o ss[i]
        BY <2>4, <2>8, <3>5, <4>1
      <4> QED  BY <4>2, <4>3
    <3> QED  BY <3>4, <3>5
  <2> QED  BY <2>1, <2>2, <2>9
<1> QED  BY <1>1, <1>2

-----------------------------------------------------------------------------
(* Texts.                                                                  *)

\* Where the elements of two sequences are, put end to end.
LEMMA ConcatAt ==
    ASSUME NEW S, NEW s \in Seq(S), NEW t \in Seq(S)
    PROVE  /\ s \o t \in Seq(S) /\ Len(s \o t) = Len(s) + Len(t)
           /\ \A i \in 1 .. Len(s) : (s \o t)[i] = s[i]
           /\ \A i \in 1 .. Len(t) : (s \o t)[Len(s) + i] = t[i]
OBVIOUS

\* What a worker's references make of each token of a text.
Filled(text, worker) == [i \in DOMAIN text |-> WorkerRef(text[i], worker)]

\* A worker gives every token of S a text of S.
Fills(worker, S) == \A t \in S : WorkerRef(t, worker) \in Seq(S)

\* Filling a text token by token.
LEMMA FilledType ==
    ASSUME NEW S, NEW worker, Fills(worker, S), NEW text \in Seq(S)
    PROVE  /\ Filled(text, worker) \in Seq(Seq(S)) /\ Len(Filled(text, worker)) = Len(text)
           /\ \A i \in 1 .. Len(text) : Filled(text, worker)[i] = WorkerRef(text[i], worker)
<1>1. DOMAIN text = 1 .. Len(text) /\ Len(text) \in Nat
  OBVIOUS
<1>2. \A i \in 1 .. Len(text) : text[i] \in S
  OBVIOUS
<1>3. Filled(text, worker) \in [1 .. Len(text) -> Seq(S)]
  BY <1>1, <1>2 DEF Filled, Fills
<1>4. \A n \in Nat : \A f \in [1 .. n -> Seq(S)] : f \in Seq(Seq(S)) /\ Len(f) = n
  OBVIOUS
<1>5. Filled(text, worker) \in Seq(Seq(S)) /\ Len(Filled(text, worker)) = Len(text)
  BY <1>1, <1>3, <1>4
<1> QED  BY <1>1, <1>5 DEF Filled

\* Two texts of S, and a worker whose values are texts of S.
TwoTexts(worker, S, u, v) == Fills(worker, S) /\ u \in Seq(S) /\ v \in Seq(S)

\* Two texts end to end are substituted one after the other.
LEMMA SubstituteConcat ==
    ASSUME NEW S, NEW worker, NEW u, NEW v, TwoTexts(worker, S, u, v)
    PROVE  /\ SubstituteWorker(u, worker) \in Seq(S)
           /\ SubstituteWorker(u \o v, worker) = SubstituteWorker(u, worker) \o SubstituteWorker(v, worker)
<1> USE DEF TwoTexts
<1> DEFINE fu == Filled(u, worker)
           fv == Filled(v, worker)
           fw == Filled(u \o v, worker)
           m == Len(u)
           n == Len(v)
<1>1. m \in Nat /\ n \in Nat /\ u \o v \in Seq(S) /\ Len(u \o v) = m + n
  BY ConcatAt
<1>2. fu \in Seq(Seq(S)) /\ Len(fu) = m /\ fv \in Seq(Seq(S)) /\ Len(fv) = n
  BY FilledType
<1>3. fw \in Seq(Seq(S)) /\ Len(fw) = m + n
  BY <1>1, FilledType
<1>4. /\ \A i \in 1 .. m : fu[i] = WorkerRef(u[i], worker)
      /\ \A i \in 1 .. n : fv[i] = WorkerRef(v[i], worker)
      /\ \A i \in 1 .. m + n : fw[i] = WorkerRef((u \o v)[i], worker)
  BY <1>1, FilledType
<1>5. /\ \A i \in 1 .. m : i \in 1 .. m + n /\ (u \o v)[i] = u[i]
      /\ \A i \in 1 .. n : m + i \in 1 .. m + n /\ (u \o v)[m + i] = v[i]
  BY <1>1, ConcatAt
<1> HIDE DEF fu, fv, fw, m, n
<1>a. \A i \in 1 .. m : fw[i] = fu[i]
  BY <1>4, <1>5
<1>b. \A i \in 1 .. n : fw[m + i] = fv[i]
  BY <1>4, <1>5
<1>6. PICK F : Joins(fu, F)
  BY <1>2, JoinsExist
<1>7. PICK G : Joins(fv, G)
  BY <1>2, JoinsExist
<1>8. (\A i \in 0 .. m : F[i] \in Seq(S)) /\ \A i \in 0 .. n : G[i] \in Seq(S)
  BY <1>2, <1>6, <1>7, JoinsType
<1>9. FlattenSeq(fu) = F[m] /\ FlattenSeq(fv) = G[n]
  BY <1>2, <1>6, <1>7, FlattenJoins
<1> DEFINE H == [i \in 0 .. m + n |-> IF i <= m THEN F[i] ELSE F[m] \o G[i - m]]
<1>10. \A i \in 0 .. m : H[i] = F[i]
  BY <1>1
<1>11. F[m] \in Seq(S) /\ G[0] = <<>> /\ F[m] \o <<>> = F[m]
  BY <1>1, <1>7, <1>8 DEF Joins
<1>12. \A i \in 0 .. n : H[m + i] = F[m] \o G[i]
  <2>1. ASSUME NEW i \in 0 .. n, i # 0 PROVE H[m + i] = F[m] \o G[i]
    <3>1. m + i \in 0 .. m + n /\ ~(m + i <= m) /\ (m + i) - m = i
      BY <1>1, <2>1
    <3> QED  BY <3>1
  <2>2. H[m + 0] = F[m] \o G[0]
    <3>1. m + 0 = m /\ m \in 0 .. m
      BY <1>1
    <3> QED  BY <1>10, <1>11, <3>1
  <2> QED  BY <2>1, <2>2
<1> HIDE DEF H
<1>13. Joins(fw, H)
  <2>1. H[0] = <<>>
    BY <1>1, <1>6, <1>10 DEF Joins
  <2>2. ASSUME NEW i \in 1 .. m PROVE H[i] = H[i - 1] \o fw[i]
    <3>1. i \in 0 .. m /\ i - 1 \in 0 .. m
      BY <1>1
    <3>2. F[i] = F[i - 1] \o fu[i]
      BY <1>2, <1>6 DEF Joins
    <3> QED  BY <1>a, <1>10, <3>1, <3>2
  <2>3. ASSUME NEW j \in 1 .. n PROVE H[m + j] = H[m + (j - 1)] \o fw[m + j]
    <3>1. j \in 0 .. n /\ j - 1 \in 0 .. n
      BY <1>1
    <3>2. G[j] = G[j - 1] \o fv[j] /\ fv[j] \in Seq(S)
      BY <1>2, <1>7 DEF Joins
    <3>3. H[m + j] = F[m] \o (G[j - 1] \o fv[j])
      BY <1>12, <3>1, <3>2
    <3>4. H[m + (j - 1)] = F[m] \o G[j - 1]
      BY <1>12, <3>1
    <3>5. G[j - 1] \in Seq(S)
      BY <1>8, <3>1
    <3>6. (F[m] \o G[j - 1]) \o fv[j] = F[m] \o (G[j - 1] \o fv[j])
      <4>1. ASSUME NEW a \in Seq(S), NEW b \in Seq(S), NEW c \in Seq(S)
            PROVE  (a \o b) \o c = a \o (b \o c)
        OBVIOUS
      <4> QED  BY <1>11, <3>2, <3>5, <4>1, Zenon
    <3> QED  BY <1>b, <3>3, <3>4, <3>6
  <2>4. ASSUME NEW i \in 1 .. m + n, i > m PROVE H[i] = H[i - 1] \o fw[i]
    <3>1. i - m \in 1 .. n /\ m + (i - m) = i /\ m + ((i - m) - 1) = i - 1
      BY <1>1, <2>4
    <3> QED  BY <2>3, <3>1
  <2>5. \A i \in 1 .. m + n : i \in 1 .. m \/ i > m
    BY <1>1
  <2> QED  BY <1>3, <2>1, <2>2, <2>4, <2>5 DEF Joins
<1>14. FlattenSeq(fw) = H[m + n]
  BY <1>3, <1>13, FlattenJoins
<1>15. FlattenSeq(fw) = FlattenSeq(fu) \o FlattenSeq(fv)
  <2>1. n \in 0 .. n
    BY <1>1
  <2> QED  BY <1>9, <1>12, <1>14, <2>1
<1>16. \A text : SubstituteWorker(text, worker) = FlattenSeq(Filled(text, worker))
  BY DEF SubstituteWorker, Filled
<1> QED  BY <1>9, <1>11, <1>15, <1>16 DEF fu, fv, fw

-----------------------------------------------------------------------------
(* Blocks of one size.                                                     *)

\* The places of a block among n of them.
LEMMA BlockBounds ==
    ASSUME NEW per \in Nat, NEW n \in Nat, NEW a \in 1 .. n, NEW j \in 1 .. per
    PROVE  /\ n * per \in Nat /\ (a - 1) * per \in Nat /\ (a - 1) * per + per = a * per
           /\ (a - 1) * per + j \in 1 .. n * per
           /\ (a - 1) * per + j <= a * per /\ a * per <= n * per
<1>1. PICK d \in Nat : n = a + d
  <2>1. n - a \in Nat /\ n = a + (n - a)
    OBVIOUS
  <2> QED  BY <2>1
<1>2. d * per \in Nat /\ (a - 1) * per \in Nat
  <2>1. \A x \in Nat : x * per \in Nat
    OBVIOUS
  <2>2. a - 1 \in Nat
    OBVIOUS
  <2> QED  BY <2>1, <2>2
<1>3. n * per = (a - 1) * per + per + d * per /\ a * per = (a - 1) * per + per
  BY <1>1
<1> QED  BY <1>2, <1>3

\* Each place of n blocks is in one of them.
LEMMA BlockOf ==
    ASSUME NEW per \in Nat, NEW n \in Nat, NEW q \in 1 .. n * per
    PROVE  \E a \in 1 .. n, j \in 1 .. per : q = (a - 1) * per + j
<1> DEFINE T == {a \in 1 .. n : q <= a * per}
<1>0. n * per \in Nat
  OBVIOUS
<1>1. n \in T
  <2>1. n # 0
    <3>1. 0 * per = 0
      OBVIOUS
    <3> QED  BY <1>0, <3>1
  <2> QED  BY <1>0, <2>1
<1>2. T \in SUBSET Nat /\ T # {}
  BY <1>1
<1>3. PICK a \in T : \A b \in T : a <= b
  <2> HIDE DEF T
  <2> QED  BY <1>2, LeastOf
<1>4. a \in 1 .. n /\ q <= a * per
  OBVIOUS
<1>5. a * per = (a - 1) * per + per /\ (a - 1) * per \in Nat
  <2>1. a - 1 \in Nat
    BY <1>4
  <2>2. \A x \in Nat : x * per \in Nat /\ (x + 1) * per = x * per + per
    OBVIOUS
  <2>3. (a - 1) + 1 = a
    BY <1>4
  <2> QED  BY <2>1, <2>2, <2>3
<1>6. (a - 1) * per < q
  <2>1. CASE a = 1
    <3>1. (1 - 1) * per = 0
      OBVIOUS
    <3> QED  BY <1>0, <2>1, <3>1
  <2>2. CASE a # 1
    <3>1. a - 1 \in 1 .. n /\ ~(a <= a - 1)
      BY <1>4, <2>2
    <3>2. ~(q <= (a - 1) * per)
      BY <1>3, <3>1
    <3> QED  BY <1>0, <1>5, <3>2
  <2> QED  BY <2>1, <2>2
<1> DEFINE j == q - (a - 1) * per
<1>7. j \in 1 .. per /\ q = (a - 1) * per + j
  BY <1>0, <1>4, <1>5, <1>6
<1> HIDE DEF j
<1> QED  BY <1>4, <1>7

\* n blocks of size per.
Blocks(ss, n, per, S) == n \in Nat /\ per \in Nat /\ ss \in [1 .. n -> [1 .. per -> S]]

\* Blocks put end to end.
LEMMA FlattenBlocks ==
    ASSUME NEW S, NEW n, NEW per, NEW ss, Blocks(ss, n, per, S)
    PROVE  /\ FlattenSeq(ss) \in Seq(S) /\ Len(FlattenSeq(ss)) = n * per
           /\ \A a \in 1 .. n, j \in 1 .. per : FlattenSeq(ss)[(a - 1) * per + j] = ss[a][j]
<1> USE DEF Blocks
<1>1. \A i \in 1 .. n : ss[i] \in [1 .. per -> S]
  OBVIOUS
<1>2. ASSUME NEW f \in [1 .. per -> S] PROVE f \in Seq(S) /\ Len(f) = per
  OBVIOUS
<1>3. ss \in [1 .. n -> Seq(S)]
  BY <1>1, <1>2
<1>4. ss \in Seq(Seq(S)) /\ Len(ss) = n
  BY <1>3
<1>5. PICK F : Joins(ss, F)
  BY <1>4, JoinsExist
<1>6. \A i \in 0 .. n : F[i] \in Seq(S)
  BY <1>4, <1>5, JoinsType
<1>7. F[0] = <<>> /\ \A i \in 1 .. n : F[i] = F[i - 1] \o ss[i]
  BY <1>4, <1>5 DEF Joins
<1> DEFINE G(i) == /\ Len(F[i]) = i * per
                   /\ \A a \in 1 .. i, j \in 1 .. per : F[i][(a - 1) * per + j] = ss[a][j]
           B == {i \in 0 .. n : ~G(i)}
<1>8. B = {}
  <2>1. SUFFICES ASSUME B # {} PROVE FALSE
    OBVIOUS
  <2>2. B \in SUBSET Nat
    <3> HIDE DEF G
    <3> QED  OBVIOUS
  <2>3. PICK i \in B : \A k \in B : i <= k
    <3> HIDE DEF B
    <3> QED  BY <2>1, <2>2, LeastOf
  <2>4. i \in 0 .. n /\ i \in Nat /\ ~G(i)
    <3> HIDE DEF G
    <3> QED  OBVIOUS
  <2>5. CASE i = 0
    <3>1. Len(F[0]) = 0 * per
      BY <1>7
    <3>2. \A a \in 1 .. 0 : FALSE
      OBVIOUS
    <3> QED  BY <2>4, <2>5, <3>1, <3>2
  <2>6. CASE i # 0
    <3>1. i - 1 \in 0 .. n /\ i \in 1 .. n /\ ~(i <= i - 1) /\ i - 1 \in Nat
      BY <2>4, <2>6
    <3>2. G(i - 1)
      <4> HIDE DEF G
      <4> QED  BY <2>3, <3>1
    <3>3. F[i] = F[i - 1] \o ss[i] /\ F[i - 1] \in Seq(S) /\ ss[i] \in Seq(S) /\ Len(ss[i]) = per
      BY <1>1, <1>2, <1>6, <1>7, <3>1
    <3> DEFINE s == F[i - 1]
               t == ss[i]
    <3>4. Len(s) = (i - 1) * per
      BY <3>2
    <3>5. /\ Len(s \o t) = Len(s) + Len(t)
          /\ \A x \in 1 .. Len(s) : (s \o t)[x] = s[x]
          /\ \A x \in 1 .. Len(t) : (s \o t)[Len(s) + x] = t[x]
      <4>1. s \in Seq(S) /\ t \in Seq(S)
        BY <3>3
      <4> HIDE DEF s, t
      <4> QED  BY <4>1, ConcatAt
    <3>6. Len(F[i]) = i * per
      <4>1. (i - 1) * per + per = i * per
        BY <2>4
      <4> QED  BY <3>3, <3>4, <3>5, <4>1
    <3>7. ASSUME NEW a \in 1 .. i, NEW j \in 1 .. per PROVE F[i][(a - 1) * per + j] = ss[a][j]
      <4>1. CASE a = i
        <5>1. (s \o t)[Len(s) + j] = t[j]
          BY <3>3, <3>5
        <5> QED  BY <3>3, <3>4, <4>1, <5>1
      <4>2. CASE a # i
        <5>1. a \in 1 .. i - 1
          BY <2>4, <4>2
        <5>2. (a - 1) * per + j \in 1 .. (i - 1) * per
          BY <3>1, <5>1, BlockBounds
        <5>3. (s \o t)[(a - 1) * per + j] = s[(a - 1) * per + j]
          BY <3>4, <3>5, <5>2
        <5>4. s[(a - 1) * per + j] = ss[a][j]
          BY <3>2, <5>1
        <5> QED  BY <3>3, <5>3, <5>4
      <4> QED  BY <4>1, <4>2
    <3> QED  BY <2>4, <3>6, <3>7
  <2> QED  BY <2>5, <2>6
<1>9. G(n)
  <2> HIDE DEF G
  <2> QED  BY <1>8
<1>10. FlattenSeq(ss) = F[n] /\ F[n] \in Seq(S)
  BY <1>4, <1>5, <1>6, FlattenJoins
<1> QED  BY <1>9, <1>10

-----------------------------------------------------------------------------
(* The combinations of a matrix.                                           *)

\* The combinations of the first n keys given those of n - 1, and how many they are.
ComboLevel(matrix, g, n) ==
    IF n = 0 THEN << <<>> >>
    ELSE IF KeyOrder[n] \in DOMAIN matrix THEN Extended(g[n - 1], KeyOrder[n], matrix[KeyOrder[n]])
    ELSE g[n - 1]
CountLevel(matrix, g, n) ==
    IF n = 0 THEN 1
    ELSE IF KeyOrder[n] \in DOMAIN matrix THEN g[n - 1] * Len(matrix[KeyOrder[n]])
    ELSE g[n - 1]

\* The recursions have solutions.
LEMMA CombosExist ==
    ASSUME NEW matrix, NEW N \in Nat
    PROVE  \E g : g = [f \in 0 .. N |-> ComboLevel(matrix, g, f)]
<1> DEFINE A(k) == \E g : g = [f \in 0 .. k |-> ComboLevel(matrix, g, f)]
           B == {k \in Nat : ~A(k)}
<1>1. SUFFICES B = {}
  OBVIOUS
<1>2. SUFFICES ASSUME B # {} PROVE FALSE
  OBVIOUS
<1>3. B \in SUBSET Nat
  OBVIOUS
<1>4. PICK k \in B : \A j \in B : k <= j
  <2> HIDE DEF B
  <2> QED  BY <1>2, <1>3, LeastOf
<1>5. k \in Nat /\ ~A(k)
  OBVIOUS
<1>6. CASE k = 0
  <2> DEFINE g == [f \in 0 .. 0 |-> << <<>> >>]
  <2>1. \A f \in 0 .. 0 : ComboLevel(matrix, g, f) = << <<>> >>
    BY DEF ComboLevel
  <2>2. g = [f \in 0 .. 0 |-> ComboLevel(matrix, g, f)]
    BY <2>1
  <2> QED  BY <1>5, <1>6, <2>2
<1>7. CASE k # 0
  <2>1. k - 1 \in Nat /\ ~(k <= k - 1)
    BY <1>5, <1>7
  <2>2. A(k - 1)
    BY <1>4, <2>1
  <2>3. PICK g : g = [f \in 0 .. k - 1 |-> ComboLevel(matrix, g, f)]
    BY <2>2
  <2> DEFINE h == [f \in 0 .. k |-> IF f = k THEN ComboLevel(matrix, g, k) ELSE g[f]]
  <2>4. \A f \in 0 .. k : f # 0 => h[f - 1] = g[f - 1]
    BY <1>5
  <2>5. \A f \in 0 .. k : ComboLevel(matrix, h, f) = ComboLevel(matrix, g, f)
    <3> HIDE DEF h
    <3> QED  BY <2>4 DEF ComboLevel
  <2>6. \A f \in 0 .. k : h[f] = ComboLevel(matrix, g, f)
    <3>1. \A f \in 0 .. k : f # k => f \in 0 .. k - 1
      BY <1>5
    <3>2. \A f \in 0 .. k - 1 : g[f] = ComboLevel(matrix, g, f)
      BY <2>3
    <3> QED  BY <3>1, <3>2
  <2>7. h = [f \in 0 .. k |-> h[f]]
    OBVIOUS
  <2>8. \A f \in 0 .. k : h[f] = ComboLevel(matrix, h, f)
    <3> HIDE DEF h
    <3> QED  BY <2>5, <2>6
  <2>9. h = [f \in 0 .. k |-> ComboLevel(matrix, h, f)]
    <3> HIDE DEF h
    <3> QED  BY <2>7, <2>8
  <2> QED  BY <1>5, <2>9
<1> QED  BY <1>6, <1>7

\* There is a function that counts as CombinationCount does.
LEMMA CountsExist ==
    ASSUME NEW matrix, NEW N \in Nat
    PROVE  \E g : g = [f \in 0 .. N |-> CountLevel(matrix, g, f)]
<1> DEFINE A(k) == \E g : g = [f \in 0 .. k |-> CountLevel(matrix, g, f)]
           B == {k \in Nat : ~A(k)}
<1>1. SUFFICES B = {}
  OBVIOUS
<1>2. SUFFICES ASSUME B # {} PROVE FALSE
  OBVIOUS
<1>3. B \in SUBSET Nat
  OBVIOUS
<1>4. PICK k \in B : \A j \in B : k <= j
  <2> HIDE DEF B
  <2> QED  BY <1>2, <1>3, LeastOf
<1>5. k \in Nat /\ ~A(k)
  OBVIOUS
<1>6. CASE k = 0
  <2> DEFINE g == [f \in 0 .. 0 |-> 1]
  <2>1. \A f \in 0 .. 0 : CountLevel(matrix, g, f) = 1
    BY DEF CountLevel
  <2>2. g = [f \in 0 .. 0 |-> CountLevel(matrix, g, f)]
    BY <2>1
  <2> QED  BY <1>5, <1>6, <2>2
<1>7. CASE k # 0
  <2>1. k - 1 \in Nat /\ ~(k <= k - 1)
    BY <1>5, <1>7
  <2>2. A(k - 1)
    BY <1>4, <2>1
  <2>3. PICK g : g = [f \in 0 .. k - 1 |-> CountLevel(matrix, g, f)]
    BY <2>2
  <2> DEFINE h == [f \in 0 .. k |-> IF f = k THEN CountLevel(matrix, g, k) ELSE g[f]]
  <2>4. \A f \in 0 .. k : f # 0 => h[f - 1] = g[f - 1]
    BY <1>5
  <2>5. \A f \in 0 .. k : CountLevel(matrix, h, f) = CountLevel(matrix, g, f)
    <3> HIDE DEF h
    <3> QED  BY <2>4 DEF CountLevel
  <2>6. \A f \in 0 .. k : h[f] = CountLevel(matrix, g, f)
    <3>1. \A f \in 0 .. k : f # k => f \in 0 .. k - 1
      BY <1>5
    <3>2. \A f \in 0 .. k - 1 : g[f] = CountLevel(matrix, g, f)
      BY <2>3
    <3> QED  BY <3>1, <3>2
  <2>7. h = [f \in 0 .. k |-> h[f]]
    OBVIOUS
  <2>8. \A f \in 0 .. k : h[f] = CountLevel(matrix, h, f)
    <3> HIDE DEF h
    <3> QED  BY <2>5, <2>6
  <2>9. h = [f \in 0 .. k |-> CountLevel(matrix, h, f)]
    <3> HIDE DEF h
    <3> QED  BY <2>7, <2>8
  <2> QED  BY <1>5, <2>9
<1> QED  BY <1>6, <1>7

\* What Combos computes, level by level.
LEMMA CombosFacts ==
    ASSUME NEW matrix
    PROVE  \E g : /\ \A n \in 0 .. Len(KeyOrder) : g[n] = ComboLevel(matrix, g, n)
                  /\ Combos(matrix) = g[Len(KeyOrder)]
<1>1. Len(KeyOrder) \in Nat
  BY KeyAssumption
<1> DEFINE N == Len(KeyOrder)
           Solves(g) == g = [n \in 0 .. N |-> ComboLevel(matrix, g, n)]
           g == CHOOSE h : Solves(h)
<1>2. Combos(matrix) = g[N]
  BY DEF Combos, ComboLevel
<1>3. \E h : Solves(h)
  BY <1>1, CombosExist
<1>4. Solves(g)
  <2> HIDE DEF Solves
  <2> QED  BY <1>3, Zenon
<1>5. \A n \in 0 .. N : g[n] = ComboLevel(matrix, g, n)
  <2> HIDE DEF g
  <2> QED  BY <1>4
<1> HIDE DEF g
<1> QED  BY <1>2, <1>5

\* What CombinationCount computes, level by level.
LEMMA CountFacts ==
    ASSUME NEW matrix
    PROVE  \E g : /\ \A n \in 0 .. Len(KeyOrder) : g[n] = CountLevel(matrix, g, n)
                  /\ CombinationCount(matrix) = g[Len(KeyOrder)]
<1>1. Len(KeyOrder) \in Nat
  BY KeyAssumption
<1> DEFINE N == Len(KeyOrder)
           Solves(g) == g = [n \in 0 .. N |-> CountLevel(matrix, g, n)]
           g == CHOOSE h : Solves(h)
<1>2. CombinationCount(matrix) = g[N]
  BY DEF CombinationCount, CountLevel
<1>3. \E h : Solves(h)
  BY <1>1, CountsExist
<1>4. Solves(g)
  <2> HIDE DEF Solves
  <2> QED  BY <1>3, Zenon
<1>5. \A n \in 0 .. N : g[n] = CountLevel(matrix, g, n)
  <2> HIDE DEF g
  <2> QED  BY <1>4
<1> HIDE DEF g
<1> QED  BY <1>2, <1>5

\* Each list of m holds the numbers of its places.
Listed(m) == \A k \in DOMAIN m : \E n \in Nat : m[k] = [i \in 1 .. n |-> i]

\* The keys of a matrix among the first n.
KeysUpTo(matrix, n) == {KeyOrder[i] : i \in 1 .. n} \cap DOMAIN matrix

\* A sequence of n different functions on K.
Distinct(cs, K, n) ==
    /\ n \in Nat /\ DOMAIN cs = 1 .. n
    /\ \A i \in 1 .. n : cs[i] = [x \in K |-> cs[i][x]]
    /\ \A i, j \in 1 .. n : cs[i] = cs[j] => i = j

\* Adding a key that is not there yet.
LEMMA ExtendedFacts ==
    ASSUME NEW cs, NEW K, NEW N, Distinct(cs, K, N), NEW k, k \notin K, NEW L \in Nat
    PROVE  Distinct(Extended(cs, k, [i \in 1 .. L |-> i]), K \cup {k}, N * L)
<1> DEFINE e(a, j) == cs[a] ++ Only(k, j)
           S == {e(a, j) : a \in 1 .. N, j \in 1 .. L}
           ss == [a \in 1 .. N |-> [j \in 1 .. L |-> e(a, j)]]
           out == FlattenSeq(ss)
<1>1. N \in Nat /\ DOMAIN cs = 1 .. N /\ N * L \in Nat
  <2>1. N \in Nat
    BY DEF Distinct
  <2> QED  BY <2>1 DEF Distinct
<1>2. Extended(cs, k, [i \in 1 .. L |-> i]) = out
  <2> DEFINE vs == [i \in 1 .. L |-> i]
  <2>1. DOMAIN vs = 1 .. L /\ \A j \in 1 .. L : vs[j] = j
    OBVIOUS
  <2> HIDE DEF vs
  <2>2. [a \in DOMAIN cs |-> [j \in DOMAIN vs |-> cs[a] ++ Only(k, vs[j])]] = ss
    BY <1>1, <2>1
  <2>3. Extended(cs, k, vs) = out
    BY <2>2, Zenon DEF Extended
  <2> QED  BY <2>3 DEF vs
<1>3. \A a \in 1 .. N, j \in 1 .. L :
        /\ e(a, j) = [x \in K \cup {k} |-> e(a, j)[x]]
        /\ e(a, j)[k] = j /\ \A x \in K : e(a, j)[x] = cs[a][x]
  <2> SUFFICES ASSUME NEW a \in 1 .. N, NEW j \in 1 .. L
               PROVE  /\ e(a, j) = [x \in K \cup {k} |-> e(a, j)[x]]
                      /\ e(a, j)[k] = j /\ \A x \in K : e(a, j)[x] = cs[a][x]
    OBVIOUS
  <2>1. DOMAIN cs[a] = K
    BY DEF Distinct
  <2> QED  BY <2>1 DEF ++, Only
<1>4. Blocks(ss, N, L, S)
  <2>1. \A a \in 1 .. N, j \in 1 .. L : e(a, j) \in S
    OBVIOUS
  <2> HIDE DEF S, e
  <2> QED  BY <1>1, <2>1 DEF Blocks
<1> HIDE DEF S
<1>5. /\ out \in Seq(S) /\ Len(out) = N * L
      /\ \A a \in 1 .. N, j \in 1 .. L : out[(a - 1) * L + j] = ss[a][j]
  <2> HIDE DEF ss
  <2>1. FlattenSeq(ss) \in Seq(S) /\ Len(FlattenSeq(ss)) = N * L
    BY <1>4, FlattenBlocks
  <2>2. \A a \in 1 .. N, j \in 1 .. L : FlattenSeq(ss)[(a - 1) * L + j] = ss[a][j]
    BY <1>4, FlattenBlocks
  <2> QED  BY <2>1, <2>2
<1>6. \A a \in 1 .. N, j \in 1 .. L : out[(a - 1) * L + j] = e(a, j)
  <2> HIDE DEF e, out
  <2> QED  BY <1>5
<1>7. \A q \in 1 .. N * L : \E a \in 1 .. N, j \in 1 .. L : q = (a - 1) * L + j
  BY <1>1, BlockOf
<1> HIDE DEF out, ss, e
<1>8. DOMAIN out = 1 .. N * L
  BY <1>5
<1>9. ASSUME NEW q \in 1 .. N * L PROVE out[q] = [x \in K \cup {k} |-> out[q][x]]
  <2>1. PICK a \in 1 .. N, j \in 1 .. L : q = (a - 1) * L + j
    BY <1>7
  <2>2. out[q] = e(a, j)
    BY <1>6, <2>1
  <2> QED  BY <1>3, <2>2
<1>10. ASSUME NEW q \in 1 .. N * L, NEW r \in 1 .. N * L, out[q] = out[r] PROVE q = r
  <2>1. PICK a \in 1 .. N, j \in 1 .. L : q = (a - 1) * L + j
    BY <1>7
  <2>2. PICK b \in 1 .. N, i \in 1 .. L : r = (b - 1) * L + i
    BY <1>7
  <2>3. e(a, j) = e(b, i)
    BY <1>6, <1>10, <2>1, <2>2
  <2>4. j = i
    BY <1>3, <2>3
  <2>5. \A x \in K : cs[a][x] = cs[b][x]
    BY <1>3, <2>3
  <2>6. cs[a] = [x \in K |-> cs[a][x]] /\ cs[b] = [x \in K |-> cs[b][x]]
    BY DEF Distinct
  <2>7. cs[a] = cs[b]
    BY <2>5, <2>6
  <2>8. a = b
    BY <2>7 DEF Distinct
  <2> QED  BY <2>1, <2>2, <2>4, <2>8
<1>11. Distinct(out, K \cup {k}, N * L)
  BY <1>1, <1>8, <1>9, <1>10 DEF Distinct
<1> QED  BY <1>2, <1>11

\* The combinations differ from one another, and are as many as the webhook counts.
LEMMA CombosDistinct ==
    ASSUME NEW matrix, Listed(matrix)
    PROVE  \E K : Distinct(Combos(matrix), K, CombinationCount(matrix))
<1> DEFINE N == Len(KeyOrder)
<1>1. N \in Nat /\ \A i \in 1 .. N, j \in 1 .. N : KeyOrder[i] = KeyOrder[j] => i = j
  BY KeyAssumption
<1>2. PICK g : (\A n \in 0 .. N : g[n] = ComboLevel(matrix, g, n)) /\ Combos(matrix) = g[N]
  BY CombosFacts
<1>3. PICK t : (\A n \in 0 .. N : t[n] = CountLevel(matrix, t, n)) /\ CombinationCount(matrix) = t[N]
  BY CountFacts
<1> DEFINE G(n) == Distinct(g[n], KeysUpTo(matrix, n), t[n])
           B == {n \in 0 .. N : ~G(n)}
<1> HIDE DEF N
<1>4. B = {}
  <2>1. SUFFICES ASSUME B # {} PROVE FALSE
    OBVIOUS
  <2>2. B \in SUBSET Nat
    <3> HIDE DEF G
    <3> QED  BY <1>1
  <2>3. PICK n \in B : \A k \in B : n <= k
    <3> HIDE DEF B
    <3> QED  BY <2>1, <2>2, LeastOf
  <2>4. n \in 0 .. N /\ n \in Nat /\ ~G(n)
    <3> HIDE DEF G
    <3> QED  BY <1>1
  <2>5. CASE n = 0
    <3>1. g[0] = << <<>> >> /\ t[0] = 1
      BY <1>2, <1>3, <2>4, <2>5 DEF ComboLevel, CountLevel
    <3>2. KeysUpTo(matrix, 0) = {}
      BY DEF KeysUpTo
    <3>3. <<>> = [x \in {} |-> <<>>[x]]
      OBVIOUS
    <3>4. Distinct(<< <<>> >>, {}, 1)
      <4> DEFINE c == << <<>> >>
      <4>1. DOMAIN c = 1 .. 1 /\ \A i \in 1 .. 1 : c[i] = <<>> /\ i = 1
        OBVIOUS
      <4> HIDE DEF c
      <4>2. Distinct(c, {}, 1)
        BY <3>3, <4>1 DEF Distinct
      <4> QED  BY <4>2 DEF c
    <3> QED  BY <2>4, <2>5, <3>1, <3>2, <3>4
  <2>6. CASE n # 0
    <3> DEFINE k == KeyOrder[n]
               K == KeysUpTo(matrix, n - 1)
    <3>1. n - 1 \in 0 .. N /\ n \in 1 .. N /\ ~(n <= n - 1)
      BY <1>1, <2>4, <2>6
    <3>2. G(n - 1)
      <4> HIDE DEF G
      <4> QED  BY <2>3, <3>1
    <3>3. \A i \in 1 .. n - 1 : KeyOrder[i] # k
      BY <1>1, <3>1
    <3>4. k \notin K
      BY <3>3 DEF KeysUpTo
    <3>5. KeysUpTo(matrix, n) = IF k \in DOMAIN matrix THEN K \cup {k} ELSE K
      <4>1. \A i \in 1 .. n : i = n \/ i \in 1 .. n - 1
        BY <2>4
      <4>2. \A i \in 1 .. n - 1 : i \in 1 .. n
        BY <2>4
      <4> QED  BY <3>1, <4>1, <4>2 DEF KeysUpTo
    <3>6. CASE k \notin DOMAIN matrix
      <4>1. g[n] = g[n - 1] /\ t[n] = t[n - 1]
        BY <1>2, <1>3, <2>4, <2>6, <3>6 DEF ComboLevel, CountLevel
      <4> QED  BY <2>4, <3>2, <3>5, <3>6, <4>1
    <3>7. CASE k \in DOMAIN matrix
      <4>1. PICK L \in Nat : matrix[k] = [i \in 1 .. L |-> i]
        BY <3>7 DEF Listed
      <4>2. Len(matrix[k]) = L
        BY <4>1
      <4>3. g[n] = Extended(g[n - 1], k, [i \in 1 .. L |-> i])
        BY <1>2, <2>4, <2>6, <3>7, <4>1 DEF ComboLevel
      <4>4. t[n] = t[n - 1] * L
        BY <1>3, <2>4, <2>6, <3>7, <4>2 DEF CountLevel
      <4> HIDE DEF K, k
      <4>5. Distinct(Extended(g[n - 1], k, [i \in 1 .. L |-> i]), K \cup {k}, t[n - 1] * L)
        BY <3>2, <3>4, ExtendedFacts DEF K
      <4> QED  BY <2>4, <3>5, <3>7, <4>3, <4>4, <4>5
    <3> QED  BY <3>6, <3>7
  <2> QED  BY <2>5, <2>6
<1>5. G(N)
  <2>1. N \in 0 .. N
    BY <1>1
  <2> HIDE DEF G
  <2> QED  BY <1>4, <2>1
<1> QED  BY <1>2, <1>3, <1>5

-----------------------------------------------------------------------------
(* The parts of a list.                                                    *)

\* Division, by multiplication.
LEMMA DivFacts ==
    ASSUME NEW a \in Nat, NEW b \in Nat, b > 0
    PROVE  a \div b \in Nat /\ (a \div b) * b <= a /\ a < (a \div b) * b + b
OBVIOUS

\* Multiplication keeps an order that it shows.
LEMMA TimesFacts ==
    ASSUME NEW x \in Int, NEW y \in Int, NEW b \in Nat, b > 0
    PROVE  /\ x <= y => x * b <= y * b
           /\ x * b < y * b + b => x <= y
<1>1. ASSUME NEW d \in Nat PROVE (x + d) * b = x * b + d * b /\ d * b \in Nat
  OBVIOUS
<1>2. x <= y => x * b <= y * b
  <2>1. ASSUME x <= y PROVE x * b <= y * b
    <3>1. y - x \in Nat /\ x + (y - x) = y
      BY <2>1
    <3>2. y * b = x * b + (y - x) * b /\ (y - x) * b \in Nat
      BY <1>1, <3>1
    <3>3. x * b \in Int
      OBVIOUS
    <3> QED  BY <3>2, <3>3
  <2> QED  BY <2>1
<1>3. ASSUME x > y PROVE ~(x * b < y * b + b)
  <2>1. (x - y) - 1 \in Nat /\ x = y + 1 + ((x - y) - 1)
    BY <1>3
  <2>2. \A d \in Nat : (y + 1 + d) * b = y * b + b + d * b /\ d * b \in Nat
    OBVIOUS
  <2>3. x * b = y * b + b + ((x - y) - 1) * b /\ ((x - y) - 1) * b \in Nat
    BY <2>1, <2>2
  <2>4. x * b \in Int /\ y * b \in Int
    OBVIOUS
  <2> QED  BY <2>3, <2>4
<1> QED  BY <1>2, <1>3

\* Where part j of a list of L values begins.
Start(L, per, j) == (j * L) \div per

\* Parts begin where the last one ended, at 0 and up to L, and are near-equal.
LEMMA StartFacts ==
    ASSUME NEW L \in Nat, NEW per \in Nat, per > 0
    PROVE  /\ \A j \in 0 .. per : Start(L, per, j) \in Nat
           /\ Start(L, per, 0) = 0 /\ Start(L, per, per) = L
           /\ \A i, j \in 0 .. per : i <= j => Start(L, per, i) <= Start(L, per, j)
           /\ \A i, j \in 0 .. per - 1 :
                Start(L, per, i + 1) - Start(L, per, i) <= Start(L, per, j + 1) - Start(L, per, j) + 1
<1> DEFINE s(j) == Start(L, per, j)
<1>1. \A j \in 0 .. per : j * L \in Nat
  OBVIOUS
<1>2. \A j \in 0 .. per : s(j) \in Nat /\ s(j) * per <= j * L /\ j * L < s(j) * per + per
  BY <1>1, DivFacts DEF Start
<1>3. \A j \in 0 .. per - 1 : j \in 0 .. per /\ j + 1 \in 0 .. per /\ (j + 1) * L = j * L + L
  OBVIOUS
<1>4. s(0) = 0
  BY DEF Start
<1> HIDE DEF s
<1>5. s(per) = L
  <2>1. per \in 0 .. per
    OBVIOUS
  <2>2. per * L = L * per /\ L * per \in Nat
    OBVIOUS
  <2>3. s(per) \in Nat /\ s(per) * per <= L * per /\ L * per < s(per) * per + per
    BY <1>2, <2>1, <2>2
  <2>4. s(per) * per < L * per + per
    <3>1. s(per) * per \in Int
      BY <2>3
    <3> QED  BY <2>2, <2>3, <3>1
  <2>5. L <= s(per)
    BY <2>3, TimesFacts
  <2>6. s(per) <= L
    BY <2>3, <2>4, TimesFacts
  <2> QED  BY <2>3, <2>5, <2>6
<1>6. ASSUME NEW i \in 0 .. per, NEW j \in 0 .. per, i <= j PROVE s(i) <= s(j)
  <2>1. s(i) \in Nat /\ s(i) * per <= i * L /\ i * L \in Nat
    BY <1>1, <1>2
  <2>2. s(j) \in Nat /\ j * L < s(j) * per + per /\ j * L \in Nat
    BY <1>1, <1>2
  <2>3. i * L <= j * L
    <3>1. \A d \in Nat : (i + d) * L = i * L + d * L /\ d * L \in Nat
      OBVIOUS
    <3>2. j - i \in Nat /\ i + (j - i) = j
      BY <1>6
    <3>3. j * L = i * L + (j - i) * L /\ (j - i) * L \in Nat
      BY <3>1, <3>2
    <3> QED  BY <2>1, <3>3
  <2>4. s(i) * per \in Int /\ s(j) * per \in Int
    BY <2>1, <2>2
  <2>5. s(i) * per < s(j) * per + per
    BY <2>1, <2>2, <2>3, <2>4
  <2> QED  BY <2>1, <2>2, <2>5, TimesFacts
<1>7. ASSUME NEW i \in 0 .. per - 1, NEW j \in 0 .. per - 1
      PROVE  s(i + 1) - s(i) <= s(j + 1) - s(j) + 1
  <2>1. s(i) \in Nat /\ s(i + 1) \in Nat /\ s(j) \in Nat /\ s(j + 1) \in Nat
    BY <1>2, <1>3
  <2> DEFINE x == s(i + 1) - s(i)
             y == (s(j + 1) - s(j)) + 1
  <2>2. x \in Int /\ y \in Int
    BY <2>1
  <2>3. x * per = s(i + 1) * per - s(i) * per /\ y * per = s(j + 1) * per - s(j) * per + per
    BY <2>1
  <2>4. /\ s(i) * per \in Int /\ s(i + 1) * per \in Int /\ s(j) * per \in Int /\ s(j + 1) * per \in Int
        /\ i * L \in Int /\ j * L \in Int
    BY <2>1
  <2>5. s(i + 1) * per <= i * L + L /\ i * L < s(i) * per + per
    BY <1>2, <1>3
  <2>6. j * L + L < s(j + 1) * per + per /\ s(j) * per <= j * L
    BY <1>2, <1>3
  <2>7. x * per < y * per + per
    <3> HIDE DEF x, y
    <3> QED  BY <2>3, <2>4, <2>5, <2>6
  <2> HIDE DEF x, y
  <2>8. x <= y
    BY <2>2, <2>7, TimesFacts
  <2> QED  BY <2>8 DEF x, y
<1> QED  BY <1>2, <1>4, <1>5, <1>6, <1>7 DEF s

\* Each value of a list is in a part.
LEMMA StartCovers ==
    ASSUME NEW L \in Nat, NEW per \in Nat, per > 0, NEW v \in 1 .. L
    PROVE  \E j \in 1 .. per : Start(L, per, j - 1) < v /\ v <= Start(L, per, j)
<1> DEFINE s(j) == Start(L, per, j)
           T == {j \in 0 .. per : v <= s(j)}
<1>1. (\A j \in 0 .. per : s(j) \in Nat) /\ s(0) = 0 /\ s(per) = L
  BY StartFacts
<1> HIDE DEF s
<1>2. T \in SUBSET Nat /\ per \in T
  BY <1>1
<1>3. PICK j \in T : \A i \in T : j <= i
  <2>1. T # {}
    BY <1>2
  <2> HIDE DEF T
  <2> QED  BY <1>2, <2>1, LeastOf
<1>4. j \in 0 .. per /\ v <= s(j)
  OBVIOUS
<1>5. j # 0
  BY <1>1, <1>4
<1>6. j \in 1 .. per /\ j - 1 \in 0 .. per /\ ~(j <= j - 1)
  BY <1>4, <1>5
<1>7. ~(v <= s(j - 1))
  BY <1>3, <1>6
<1>8. s(j - 1) < v
  BY <1>1, <1>6, <1>7
<1> QED  BY <1>4, <1>6, <1>8 DEF s

\* What a part holds, of a list whose values are the numbers of their places.
LEMMA PartFacts ==
    ASSUME NEW L \in Nat, NEW per \in Nat, per > 0, NEW j \in 1 .. per
    PROVE  LET part == Part([i \in 1 .. L |-> i], j - 1, per)
               begin == Start(L, per, j - 1)
           IN  /\ begin \in Nat /\ Start(L, per, j) \in Nat /\ begin <= Start(L, per, j) /\ Start(L, per, j) <= L
               /\ DOMAIN part = 1 .. Start(L, per, j) - begin /\ Len(part) = Start(L, per, j) - begin
               /\ \A x \in DOMAIN part : part[x] = begin + x
<1> DEFINE s(i) == Start(L, per, i)
           list == [i \in 1 .. L |-> i]
<1>1. list \in Seq(Int) /\ Len(list) = L /\ \A i \in 1 .. L : list[i] = i
  OBVIOUS
<1>2. j - 1 \in 0 .. per /\ j \in 0 .. per /\ per \in 0 .. per /\ j - 1 <= j /\ j <= per
  OBVIOUS
<1>3. /\ \A i \in 0 .. per : s(i) \in Nat
      /\ s(0) = 0 /\ s(per) = L
      /\ \A i, k \in 0 .. per : i <= k => s(i) <= s(k)
  BY StartFacts
<1>4. Part(list, j - 1, per) = SubSeq(list, s(j - 1) + 1, s(j))
  <2>1. (j - 1) + 1 = j
    OBVIOUS
  <2> HIDE DEF list
  <2> QED  BY <1>1, <2>1 DEF Part, Start
<1> HIDE DEF s, list
<1>5. s(j - 1) \in Nat /\ s(j) \in Nat /\ s(j - 1) <= s(j) /\ s(j) <= L
  BY <1>2, <1>3
<1> DEFINE part == SubSeq(list, s(j - 1) + 1, s(j))
<1>6. ASSUME NEW m \in Nat, NEW n \in Nat, m <= n, n <= L
      PROVE  /\ DOMAIN SubSeq(list, m + 1, n) = 1 .. n - m /\ Len(SubSeq(list, m + 1, n)) = n - m
             /\ \A x \in 1 .. n - m : SubSeq(list, m + 1, n)[x] = m + x
  <2>1. SubSeq(list, m + 1, n) \in Seq(Int)
    BY <1>1, <1>6
  <2>2. Len(SubSeq(list, m + 1, n)) = n - m
    BY <1>1, <1>6
  <2>3. \A x \in 1 .. n - m : SubSeq(list, m + 1, n)[x] = list[m + x]
    BY <1>1, <1>6
  <2>4. \A x \in 1 .. n - m : m + x \in 1 .. L
    BY <1>6
  <2>5. DOMAIN SubSeq(list, m + 1, n) = 1 .. n - m
    <3>1. ASSUME NEW v \in Seq(Int) PROVE DOMAIN v = 1 .. Len(v)
      OBVIOUS
    <3> QED  BY <2>1, <2>2, <3>1
  <2>6. \A x \in 1 .. n - m : SubSeq(list, m + 1, n)[x] = m + x
    BY <1>1, <2>3, <2>4
  <2> QED  BY <2>2, <2>5, <2>6
<1>7. /\ DOMAIN part = 1 .. s(j) - s(j - 1) /\ Len(part) = s(j) - s(j - 1)
      /\ \A x \in DOMAIN part : part[x] = s(j - 1) + x
  BY <1>5, <1>6
<1> QED  BY <1>4, <1>5, <1>7 DEF s, list

-----------------------------------------------------------------------------
(* The workers of a combination.                                           *)

\* A bounded set of numbers has a greatest one.
LEMMA GreatestOf ==
    ASSUME NEW N \in Nat, NEW S \in SUBSET (0 .. N), S # {}
    PROVE  \E x \in S : \A y \in S : y <= x
<1> DEFINE T == {N - x : x \in S}
<1>1. T \in SUBSET Nat /\ T # {}
  <2>1. \A x \in S : N - x \in Nat
    OBVIOUS
  <2> QED  BY <2>1
<1>2. PICK t \in T : \A u \in T : t <= u
  BY <1>1, LeastOf
<1>3. PICK x \in S : t = N - x
  OBVIOUS
<1>4. \A y \in S : N - y \in T /\ y \in Int /\ x \in Int
  OBVIOUS
<1>5. \A y \in S : N - x <= N - y
  BY <1>2, <1>3, <1>4
<1>6. \A y \in S : y <= x
  BY <1>4, <1>5
<1> QED  BY <1>6

\* The maximum is one of them.
LEMMA MaxFacts ==
    ASSUME NEW N \in Nat, NEW S \in SUBSET (0 .. N), S # {}
    PROVE  Max(S) \in S
<1>1. PICK x \in S : \A y \in S : y <= x
  BY GreatestOf
<1>2. \A y \in S : x >= y
  BY <1>1
<1> QED  BY <1>2, Zenon DEF Max

\* So is the minimum of two.
LEMMA MinFacts ==
    ASSUME NEW a \in Nat, NEW b \in Nat
    PROVE  Min({a, b}) \in {a, b}
<1>1. \E x \in {a, b} : \A y \in {a, b} : x <= y
  OBVIOUS
<1> QED  BY <1>1, Zenon DEF Min

\* A parallel spec's lists.
LEMMA ListFacts ==
    ASSUME NEW p \in ParallelSpecs
    PROVE  /\ p # Unset /\ Listed(p.matrix) /\ Listed(p.shards)
           /\ \A k \in DOMAIN p.shards : p.shards[k] \in {[i \in 1 .. n |-> i] : n \in 0 .. MaxValues}
           /\ p.shards # <<>> => DOMAIN p.shards # {}
           /\ p.count \in Counts /\ p.maxCount \in Counts
<1>1. p.matrix \in Lists(MatrixKeys) /\ p.shards \in Lists(ShardKeys) /\ p.count \in Counts /\ p.maxCount \in Counts
  BY DEF ParallelSpecs
<1>2. p # Unset
  BY SpecAssumption
<1> DEFINE V == {[i \in 1 .. n |-> i] : n \in 0 .. MaxValues}
<1>3. ASSUME NEW keys, NEW m \in Lists(keys)
      PROVE  /\ \A k \in DOMAIN m : m[k] \in V
             /\ m # <<>> => DOMAIN m # {}
  <2>1. PICK K \in SUBSET keys : m \in [K -> V]
    BY DEF Lists
  <2> HIDE DEF V
  <2>2. \A k \in DOMAIN m : m[k] \in V
    BY <2>1
  <2>3. ASSUME K = {} PROVE m = <<>>
    BY <2>1, <2>3
  <2> QED  BY <2>1, <2>2, <2>3
<1>4. \A v \in V : \E n \in Nat : v = [i \in 1 .. n |-> i]
  BY BoundAssumption
<1> HIDE DEF V
<1>5. Listed(p.matrix) /\ Listed(p.shards)
  BY <1>1, <1>3, <1>4 DEF Listed
<1> QED  BY <1>1, <1>2, <1>3, <1>5 DEF V

\* The number of workers of a combination, which the webhook counts as ParallelWorkers does.
LEMMA PerFacts ==
    ASSUME NEW p \in ParallelSpecs, ValidParallel(p)
    PROVE  /\ PerCombination(p) \in Nat /\ PerCombination(p) > 0
           /\ RequestedWorkers(p) = CombinationCount(p.matrix) * PerCombination(p)
<1> DEFINE V == {[i \in 1 .. n |-> i] : n \in 0 .. MaxValues}
           lens == {Len(p.shards[k]) : k \in DOMAIN p.shards}
           longest == Longest(p.shards)
           asked == IF p.maxCount = Unset THEN longest ELSE Min({longest, p.maxCount})
<1>1. /\ p # Unset /\ MaxValues \in Nat
      /\ \A k \in DOMAIN p.shards : p.shards[k] \in V
      /\ p.shards # <<>> => DOMAIN p.shards # {}
      /\ p.count \in Counts /\ p.maxCount \in Counts
  BY ListFacts, BoundAssumption
<1>2. \A v \in V : v # <<>> => Len(v) \in 1 .. MaxValues
  <2>1. ASSUME NEW n \in 0 .. MaxValues, [i \in 1 .. n |-> i] # <<>>
        PROVE  Len([i \in 1 .. n |-> i]) \in 1 .. MaxValues
    <3>1. n \in Nat
      BY <1>1
    <3>2. Len([i \in 1 .. n |-> i]) = n
      BY <3>1
    <3>3. n # 0
      BY <2>1
    <3> QED  BY <1>1, <3>1, <3>2, <3>3
  <2> QED  BY <2>1
<1>3. \A k \in DOMAIN p.shards : p.shards[k] # <<>>
  BY <1>1 DEF ValidParallel
<1> HIDE DEF V
<1>4. \A k \in DOMAIN p.shards : Len(p.shards[k]) \in 1 .. MaxValues
  BY <1>1, <1>2, <1>3
<1>5. ASSUME p.shards # <<>> PROVE longest \in 1 .. MaxValues
  <2>1. lens \in SUBSET (1 .. MaxValues) /\ lens # {}
    BY <1>1, <1>4, <1>5
  <2>2. Max(lens) \in lens
    <3> HIDE DEF lens
    <3>1. lens \in SUBSET (0 .. MaxValues)
      BY <2>1
    <3> QED  BY <1>1, <2>1, <3>1, MaxFacts
  <2>3. Max(lens) \in 1 .. MaxValues
    <3> HIDE DEF lens
    <3> QED  BY <2>1, <2>2
  <2> QED  BY <2>3, Zenon DEF Longest
<1> HIDE DEF longest
<1>6. ASSUME p.shards # <<>> PROVE asked \in 1 .. MaxValues
  <2>1. longest \in 1 .. MaxValues /\ longest \in Nat
    BY <1>5, <1>6
  <2>2. ASSUME p.maxCount # Unset PROVE Min({longest, p.maxCount}) \in 1 .. MaxValues
    <3>1. p.maxCount \in 1 .. MaxValues
      BY <1>1, <2>2 DEF Counts
    <3>2. p.maxCount \in Nat
      BY <3>1
    <3>3. Min({longest, p.maxCount}) \in {longest, p.maxCount}
      BY <2>1, <3>2, MinFacts
    <3> QED  BY <2>1, <3>1, <3>3
  <2> QED  BY <2>1, <2>2
<1>7. ASSUME p.shards # <<>> PROVE Max({1, asked}) = asked
  <2>1. asked \in 1 .. MaxValues
    BY <1>6, <1>7
  <2> HIDE DEF asked
  <2>2. \A x \in {1, asked} : (\A y \in {1, asked} : x >= y) => x = asked
    BY <2>1
  <2>3. \E x \in {1, asked} : \A y \in {1, asked} : x >= y
    BY <2>1
  <2> QED  BY <2>2, <2>3, Zenon DEF Max
<1>8. CASE p.count # Unset
  <2>1. p.count \in 1 .. MaxValues
    BY <1>1, <1>8 DEF Counts
  <2>2. PerCombination(p) = p.count
    BY <1>8 DEF PerCombination
  <2>3. RequestedWorkers(p) = CombinationCount(p.matrix) * p.count
    BY <1>8 DEF RequestedWorkers
  <2> QED  BY <2>1, <2>2, <2>3
<1>9. CASE p.count = Unset /\ p.shards # <<>>
  <2>1. asked \in 1 .. MaxValues /\ Max({1, asked}) = asked
    BY <1>6, <1>7, <1>9
  <2>2. PerCombination(p) = Max({1, asked})
    BY <1>9 DEF PerCombination, longest
  <2>3. RequestedWorkers(p) = CombinationCount(p.matrix) * asked
    BY <1>9 DEF RequestedWorkers, longest
  <2> HIDE DEF asked
  <2> QED  BY <2>1, <2>2, <2>3
<1>10. CASE p.count = Unset /\ p.shards = <<>>
  <2>1. PerCombination(p) = 1
    BY <1>10 DEF PerCombination
  <2>2. RequestedWorkers(p) = CombinationCount(p.matrix) * 1
    BY <1>10 DEF RequestedWorkers
  <2> QED  BY <2>1, <2>2
<1> QED  BY <1>8, <1>9, <1>10

\* What ParallelWorkers makes of a combination and a part.
WorkerAt(p, cs, n, per, a, j) ==
    [index |-> (a - 1) * per + j - 1, count |-> n * per, matrix |-> cs[a],
     shard |-> [k \in DOMAIN p.shards |-> Part(p.shards[k], j - 1, per)]]

\* Each worker, by its combination and its part.
LEMMA WorkerFacts ==
    ASSUME NEW p, Listed(p.matrix), PerCombination(p) \in Nat
    PROVE  LET cs == Combos(p.matrix)
               n == CombinationCount(p.matrix)
               per == PerCombination(p)
               ws == ParallelWorkers(p)
           IN  /\ n \in Nat /\ DOMAIN cs = 1 .. n /\ \A a, b \in 1 .. n : cs[a] = cs[b] => a = b
               /\ Len(ws) = n * per /\ DOMAIN ws = 1 .. n * per
               /\ \A a \in 1 .. n, j \in 1 .. per : ws[(a - 1) * per + j] = WorkerAt(p, cs, n, per, a, j)
<1> DEFINE cs == Combos(p.matrix)
           n == CombinationCount(p.matrix)
           per == PerCombination(p)
           ws == ParallelWorkers(p)
<1>1. Listed(p.matrix) /\ per \in Nat
  OBVIOUS
<1>2. PICK K : Distinct(cs, K, n)
  BY <1>1, CombosDistinct
<1>3. n \in Nat /\ DOMAIN cs = 1 .. n /\ \A a, b \in 1 .. n : cs[a] = cs[b] => a = b
  <2> HIDE DEF cs, n
  <2> QED  BY <1>2 DEF Distinct
<1> DEFINE W(a, j) == WorkerAt(p, cs, n, per, a, j)
           S == {W(a, j) : a \in 1 .. n, j \in 1 .. per}
           ss == [a \in 1 .. n |-> [j \in 1 .. per |-> W(a, j)]]
<1>4. ws = FlattenSeq(ss)
  <2>1. Len(cs) = n
    <3> HIDE DEF cs, n
    <3> QED  BY <1>3
  <2>2. [i \in DOMAIN cs |-> [j \in 1 .. per |->
          [index |-> (i - 1) * per + j - 1, count |-> Len(cs) * per, matrix |-> cs[i],
           shard |-> [k \in DOMAIN p.shards |-> Part(p.shards[k], j - 1, per)]]]] = ss
    <3> HIDE DEF cs, n, per
    <3> QED  BY <1>3, <2>1, Zenon DEF WorkerAt
  <2> HIDE DEF ss
  <2> QED  BY <2>2, Zenon DEF ParallelWorkers
<1>5. Blocks(ss, n, per, S)
  <2>1. \A a \in 1 .. n, j \in 1 .. per : W(a, j) \in S
    OBVIOUS
  <2> HIDE DEF S, W, n, per
  <2> QED  BY <1>1, <1>3, <2>1 DEF Blocks
<1> HIDE DEF S, W, n, per, cs, ws
<1>6. /\ FlattenSeq(ss) \in Seq(S) /\ Len(FlattenSeq(ss)) = n * per
      /\ \A a \in 1 .. n, j \in 1 .. per : FlattenSeq(ss)[(a - 1) * per + j] = ss[a][j]
  <2> HIDE DEF ss
  <2>1. FlattenSeq(ss) \in Seq(S) /\ Len(FlattenSeq(ss)) = n * per
    BY <1>5, FlattenBlocks
  <2>2. \A a \in 1 .. n, j \in 1 .. per : FlattenSeq(ss)[(a - 1) * per + j] = ss[a][j]
    BY <1>5, FlattenBlocks
  <2> QED  BY <2>1, <2>2
<1>7. \A a \in 1 .. n, j \in 1 .. per : ss[a][j] = W(a, j)
  OBVIOUS
<1> HIDE DEF ss
<1>8. Len(ws) = n * per /\ DOMAIN ws = 1 .. n * per
  <2>1. ASSUME NEW s \in Seq(S) PROVE DOMAIN s = 1 .. Len(s)
    OBVIOUS
  <2> QED  BY <1>4, <1>6, <2>1
<1>9. \A a \in 1 .. n, j \in 1 .. per : ws[(a - 1) * per + j] = W(a, j)
  BY <1>4, <1>6, <1>7
<1> QED  BY <1>3, <1>8, <1>9 DEF n, per, cs, ws, W

\* The workers of one combination, and what they have of one list.
LEMMA CombinationFacts ==
    ASSUME NEW p \in ParallelSpecs, ValidParallel(p),
           NEW c \in DOMAIN Combos(p.matrix), NEW k \in DOMAIN p.shards
    PROVE  LET ws == ParallelWorkers(p)
               mine == {i \in DOMAIN ws : ws[i].matrix = Combos(p.matrix)[c]}
               part(i) == ws[i].shard[k]
           IN  /\ UNION {Range(part(i)) : i \in mine} = Range(p.shards[k])
               /\ \A i, j \in mine : \A x \in DOMAIN part(i), y \in DOMAIN part(j) :
                    i < j \/ (i = j /\ x < y) => part(i)[x] < part(j)[y]
               /\ \A i, j \in mine : Len(part(i)) <= Len(part(j)) + 1
<1> DEFINE cs == Combos(p.matrix)
           n == CombinationCount(p.matrix)
           per == PerCombination(p)
           ws == ParallelWorkers(p)
           W(a, j) == WorkerAt(p, cs, n, per, a, j)
           mine == {i \in DOMAIN ws : ws[i].matrix = cs[c]}
           part(i) == ws[i].shard[k]
           slot(j) == (c - 1) * per + j
<1>1. per \in Nat /\ per > 0 /\ Listed(p.matrix)
  BY PerFacts, ListFacts
<1>2. /\ n \in Nat /\ DOMAIN cs = 1 .. n /\ \A a, b \in 1 .. n : cs[a] = cs[b] => a = b
      /\ DOMAIN ws = 1 .. n * per
      /\ \A a \in 1 .. n, j \in 1 .. per : ws[(a - 1) * per + j] = W(a, j)
  BY <1>1, WorkerFacts
<1>3. \A a \in 1 .. n, j \in 1 .. per :
        W(a, j).matrix = cs[a] /\ W(a, j).shard[k] = Part(p.shards[k], j - 1, per)
  <2> HIDE DEF cs, n, per
  <2> QED  BY DEF WorkerAt
<1>4. PICK L \in Nat : p.shards[k] = [i \in 1 .. L |-> i]
  BY ListFacts DEF Listed
<1> HIDE DEF cs, n, per, ws, W
<1>5. c \in 1 .. n
  BY <1>2 DEF cs
<1> DEFINE s(j) == Start(L, per, j)
<1>6. /\ \A j \in 0 .. per : s(j) \in Nat
      /\ s(0) = 0 /\ s(per) = L
      /\ \A i, j \in 0 .. per : i <= j => s(i) <= s(j)
      /\ \A i, j \in 0 .. per - 1 : s(i + 1) - s(i) <= s(j + 1) - s(j) + 1
  BY <1>1, StartFacts
<1> DEFINE P(j) == Part([i \in 1 .. L |-> i], j - 1, per)
<1>7. \A j \in 1 .. per : /\ DOMAIN P(j) = 1 .. s(j) - s(j - 1) /\ Len(P(j)) = s(j) - s(j - 1)
                          /\ \A x \in DOMAIN P(j) : P(j)[x] = s(j - 1) + x
  BY <1>1, PartFacts
<1>8. \A v \in 1 .. L : \E j \in 1 .. per : s(j - 1) < v /\ v <= s(j)
  BY <1>1, StartCovers
<1>9. \A j \in 1 .. per : slot(j) \in DOMAIN ws
  BY <1>1, <1>2, <1>5, BlockBounds
<1>10. \A j \in 1 .. per : ws[slot(j)].matrix = cs[c] /\ part(slot(j)) = P(j)
  <2> HIDE DEF P
  <2>1. \A j \in 1 .. per : ws[slot(j)] = W(c, j)
    BY <1>2, <1>5
  <2>2. \A j \in 1 .. per : W(c, j).matrix = cs[c] /\ W(c, j).shard[k] = P(j)
    BY <1>3, <1>4, <1>5 DEF P
  <2> QED  BY <2>1, <2>2
<1>11. \A j \in 1 .. per : slot(j) \in mine
  <2> HIDE DEF slot
  <2> QED  BY <1>9, <1>10
<1>12. ASSUME NEW i \in mine PROVE \E j \in 1 .. per : i = slot(j)
  <2>1. i \in 1 .. n * per /\ ws[i].matrix = cs[c]
    BY <1>2
  <2>2. PICK a \in 1 .. n, j \in 1 .. per : i = (a - 1) * per + j
    BY <1>1, <1>2, <2>1, BlockOf
  <2>3. cs[a] = cs[c]
    <3>1. ws[i] = W(a, j)
      BY <1>2, <2>2
    <3> QED  BY <1>3, <2>1, <3>1
  <2>4. a = c
    BY <1>2, <1>5, <2>3
  <2> QED  BY <2>2, <2>4
<1>13. (c - 1) * per \in Nat
  <2>1. 1 \in 1 .. per
    BY <1>1
  <2> QED  BY <1>1, <1>2, <1>5, <2>1, BlockBounds
<1>14. \A i, j \in 1 .. per : (slot(i) < slot(j) => i < j) /\ (slot(i) = slot(j) => i = j)
  BY <1>13
<1>15. \A j \in 1 .. per : /\ j \in 0 .. per /\ j - 1 \in 0 .. per - 1 /\ j - 1 \in 0 .. per /\ (j - 1) + 1 = j
                           /\ s(j) \in Nat /\ s(j - 1) \in Nat /\ s(j - 1) <= s(j) /\ s(j) <= L
  <2>1. \A j \in 1 .. per : /\ j \in 0 .. per /\ j - 1 \in 0 .. per - 1 /\ j - 1 \in 0 .. per /\ (j - 1) + 1 = j
                            /\ j - 1 <= j /\ j <= per
    BY <1>1
  <2>2. per \in 0 .. per
    BY <1>1
  <2> HIDE DEF s
  <2> QED  BY <1>6, <2>1, <2>2
<1> HIDE DEF P, s, slot, mine, part
<1>16. UNION {Range(part(i)) : i \in mine} = 1 .. L
  <2>1. ASSUME NEW v \in 1 .. L PROVE v \in UNION {Range(part(i)) : i \in mine}
    <3>1. PICK j \in 1 .. per : s(j - 1) < v /\ v <= s(j)
      BY <1>8
    <3> DEFINE x == v - s(j - 1)
    <3>2. x \in 1 .. s(j) - s(j - 1) /\ s(j - 1) + x = v
      BY <1>15, <3>1
    <3> HIDE DEF x
    <3>3. x \in DOMAIN P(j) /\ P(j)[x] = v
      BY <1>7, <3>2
    <3>4. v \in Range(part(slot(j)))
      BY <1>10, <3>3 DEF Range
    <3> QED  BY <1>11, <3>4
  <2>2. ASSUME NEW i \in mine, NEW v \in Range(part(i)) PROVE v \in 1 .. L
    <3>1. PICK j \in 1 .. per : i = slot(j)
      BY <1>12
    <3>2. PICK x \in DOMAIN P(j) : v = P(j)[x]
      BY <1>10, <3>1 DEF Range
    <3>3. x \in 1 .. s(j) - s(j - 1) /\ v = s(j - 1) + x
      BY <1>7, <3>2
    <3> QED  BY <1>15, <3>3
  <2> QED  BY <2>1, <2>2
<1>17. Range(p.shards[k]) = 1 .. L
  BY <1>4 DEF Range
<1>18. ASSUME NEW i \in mine, NEW j \in mine, NEW x \in DOMAIN part(i), NEW y \in DOMAIN part(j),
              i < j \/ (i = j /\ x < y)
       PROVE  part(i)[x] < part(j)[y]
  <2>1. PICK a \in 1 .. per : i = slot(a)
    BY <1>12
  <2>2. PICK b \in 1 .. per : j = slot(b)
    BY <1>12
  <2>3. x \in 1 .. s(a) - s(a - 1) /\ part(i)[x] = s(a - 1) + x
    BY <1>7, <1>10, <2>1
  <2>4. y \in 1 .. s(b) - s(b - 1) /\ part(j)[y] = s(b - 1) + y
    BY <1>7, <1>10, <2>2
  <2>5. CASE i < j
    <3>1. a < b
      BY <1>14, <2>1, <2>2, <2>5
    <3>2. a \in 0 .. per /\ b - 1 \in 0 .. per /\ a <= b - 1
      BY <1>1, <3>1
    <3>3. s(a) <= s(b - 1)
      BY <1>6, <3>2
    <3> QED  BY <1>15, <2>3, <2>4, <3>3
  <2>6. CASE i = j /\ x < y
    <3>1. a = b
      BY <1>14, <2>1, <2>2, <2>6
    <3> QED  BY <1>15, <2>3, <2>4, <2>6, <3>1
  <2> QED  BY <1>18, <2>5, <2>6
<1>19. ASSUME NEW i \in mine, NEW j \in mine PROVE Len(part(i)) <= Len(part(j)) + 1
  <2>1. PICK a \in 1 .. per : i = slot(a)
    BY <1>12
  <2>2. PICK b \in 1 .. per : j = slot(b)
    BY <1>12
  <2>3. Len(part(i)) = s(a) - s(a - 1) /\ Len(part(j)) = s(b) - s(b - 1)
    BY <1>7, <1>10, <2>1, <2>2
  <2>4. s((a - 1) + 1) - s(a - 1) <= s((b - 1) + 1) - s(b - 1) + 1
    BY <1>6, <1>15
  <2> QED  BY <1>15, <2>3, <2>4
<1>20. /\ UNION {Range(part(i)) : i \in mine} = Range(p.shards[k])
       /\ \A i, j \in mine : \A x \in DOMAIN part(i), y \in DOMAIN part(j) :
            i < j \/ (i = j /\ x < y) => part(i)[x] < part(j)[y]
       /\ \A i, j \in mine : Len(part(i)) <= Len(part(j)) + 1
  BY <1>16, <1>17, <1>18, <1>19
<1> QED  BY <1>20, Zenon DEF mine, part, ws, cs

\* WorkersCoverLists, of any spec that PickParallel picks.
LEMMA ParallelSound ==
    ASSUME InputInv
    PROVE  WorkersCoverLists
<1> SUFFICES ASSUME input.kind = "parallel", ValidParallel(input.spec)
             PROVE  LET p == input.spec
                        ws == ParallelWorkers(p)
                        cs == Combos(p.matrix)
                    IN  /\ Len(ws) = RequestedWorkers(p)
                        /\ \A i \in DOMAIN ws : ws[i].index = i - 1 /\ ws[i].count = Len(ws)
                        /\ \A c \in DOMAIN cs, k \in DOMAIN p.shards :
                             LET mine == {i \in DOMAIN ws : ws[i].matrix = cs[c]}
                                 part(i) == ws[i].shard[k]
                             IN  /\ UNION {Range(part(i)) : i \in mine} = Range(p.shards[k])
                                 /\ \A i, j \in mine : \A x \in DOMAIN part(i), y \in DOMAIN part(j) :
                                      i < j \/ (i = j /\ x < y) => part(i)[x] < part(j)[y]
                                 /\ \A i, j \in mine : Len(part(i)) <= Len(part(j)) + 1
  BY Zenon DEF WorkersCoverLists
<1> DEFINE p == input.spec
           ws == ParallelWorkers(p)
           cs == Combos(p.matrix)
           n == CombinationCount(p.matrix)
           per == PerCombination(p)
<1>1. p \in ParallelSpecs /\ ValidParallel(p)
  BY DEF InputInv
<1>2. /\ per \in Nat /\ per > 0 /\ n \in Nat /\ DOMAIN ws = 1 .. n * per /\ Len(ws) = n * per
      /\ RequestedWorkers(p) = n * per
      /\ \A a \in 1 .. n, j \in 1 .. per : ws[(a - 1) * per + j] = WorkerAt(p, cs, n, per, a, j)
  <2> HIDE DEF p
  <2>1. per \in Nat /\ Listed(p.matrix)
    BY <1>1, PerFacts, ListFacts
  <2> QED  BY <1>1, <2>1, PerFacts, WorkerFacts
<1>3. ASSUME NEW i \in DOMAIN ws PROVE ws[i].index = i - 1 /\ ws[i].count = Len(ws)
  <2> HIDE DEF ws, n, per, cs, p
  <2>1. PICK a \in 1 .. n, j \in 1 .. per : i = (a - 1) * per + j
    <3>1. i \in 1 .. n * per
      BY <1>2, <1>3
    <3> QED  BY <1>2, <3>1, BlockOf
  <2>2. ws[i] = WorkerAt(p, cs, n, per, a, j)
    BY <1>2, <2>1
  <2>3. ws[i].index = (a - 1) * per + j - 1 /\ ws[i].count = n * per
    BY <2>2 DEF WorkerAt
  <2> QED  BY <1>2, <2>1, <2>3
<1>4. ASSUME NEW c \in DOMAIN cs, NEW k \in DOMAIN p.shards
      PROVE  LET mine == {i \in DOMAIN ws : ws[i].matrix = cs[c]}
                 part(i) == ws[i].shard[k]
             IN  /\ UNION {Range(part(i)) : i \in mine} = Range(p.shards[k])
                 /\ \A i, j \in mine : \A x \in DOMAIN part(i), y \in DOMAIN part(j) :
                      i < j \/ (i = j /\ x < y) => part(i)[x] < part(j)[y]
                 /\ \A i, j \in mine : Len(part(i)) <= Len(part(j)) + 1
  <2> HIDE DEF p
  <2> QED  BY <1>1, <1>4, CombinationFacts, Zenon
<1> QED  BY <1>2, <1>3, <1>4, Zenon

\* Whatever the keys, the number of their values, the workers asked for and the order of the
\* keys: the workers of each combination share out each list whole, in order and evenly, and
\* there are as many as the webhook counted.
THEOREM WorkersCover == MCSpec => []WorkersCoverLists
BY ParallelSound, InputHolds, PTL

\* A text of one token.
LEMMA SubstituteOne ==
    ASSUME NEW S, NEW worker, Fills(worker, S), NEW t \in S
    PROVE  SubstituteWorker(<<t>>, worker) = WorkerRef(t, worker)
<1> DEFINE r == WorkerRef(t, worker)
           F == [i \in 0 .. 1 |-> IF i = 0 THEN <<>> ELSE r]
<1>1. r \in Seq(S)
  BY DEF Fills
<1>2. Filled(<<t>>, worker) = <<r>>
  BY DEF Filled
<1> HIDE DEF r
<1>3. <<r>> \in Seq(Seq(S)) /\ Len(<<r>>) = 1
  BY <1>1
<1>4. F[0] = <<>> /\ F[1] = r
  OBVIOUS
<1>5. <<>> \o r = r
  BY <1>1
<1> HIDE DEF F
<1>6. \A i \in 1 .. 1 : F[i] = F[i - 1] \o <<r>>[i]
  <2>1. F[1] = F[1 - 1] \o <<r>>[1]
    <3>1. 1 - 1 = 0 /\ <<r>>[1] = r
      OBVIOUS
    <3> QED  BY <1>4, <1>5, <3>1
  <2> QED  BY <2>1
<1>7. Joins(<<r>>, F)
  BY <1>3, <1>4, <1>6 DEF Joins
<1>8. FlattenSeq(<<r>>) = F[1]
  BY <1>3, <1>7, FlattenJoins
<1>9. SubstituteWorker(<<t>>, worker) = FlattenSeq(Filled(<<t>>, worker))
  BY DEF SubstituteWorker, Filled
<1> QED  BY <1>2, <1>4, <1>8, <1>9 DEF r

\* A text without a worker's references stays as it is.
LEMMA SubstitutePlain ==
    ASSUME NEW S, NEW worker, \A t \in S : WorkerRef(t, worker) = <<t>>, NEW v \in Seq(S)
    PROVE  SubstituteWorker(v, worker) = v
<1> DEFINE n == Len(v)
           fs == Filled(v, worker)
           F == [i \in 0 .. n |-> SubSeq(v, 1, i)]
<1>1. Fills(worker, S)
  <2>1. \A t \in S : <<t>> \in Seq(S)
    OBVIOUS
  <2> QED  BY <2>1 DEF Fills
<1>2. fs \in Seq(Seq(S)) /\ Len(fs) = n /\ \A i \in 1 .. n : fs[i] = WorkerRef(v[i], worker)
  BY <1>1, FilledType
<1> HIDE DEF fs
<1>3. n \in Nat /\ \A i \in 1 .. n : v[i] \in S
  OBVIOUS
<1>4. \A i \in 1 .. n : fs[i] = <<v[i]>>
  BY <1>2, <1>3
<1>5. ASSUME NEW i \in 1 .. n PROVE SubSeq(v, 1, i) = SubSeq(v, 1, i - 1) \o <<v[i]>>
  OBVIOUS
<1>6. \A i \in 0 .. n : F[i] = SubSeq(v, 1, i)
  OBVIOUS
<1>7. SubSeq(v, 1, 0) = <<>> /\ SubSeq(v, 1, n) = v
  OBVIOUS
<1> HIDE DEF F, n
<1>8. \A i \in 1 .. n : i \in 0 .. n /\ i - 1 \in 0 .. n
  BY <1>3
<1>9. \A i \in 1 .. n : F[i] = F[i - 1] \o fs[i]
  BY <1>4, <1>5, <1>6, <1>8
<1>10. 0 \in 0 .. n /\ n \in 0 .. n
  BY <1>3
<1>11. Joins(fs, F)
  BY <1>2, <1>6, <1>7, <1>9, <1>10 DEF Joins
<1>12. FlattenSeq(fs) = F[n]
  BY <1>2, <1>11, FlattenJoins
<1>13. SubstituteWorker(v, worker) = FlattenSeq(fs)
  BY DEF SubstituteWorker, Filled, fs
<1> QED  BY <1>6, <1>7, <1>10, <1>12, <1>13

\* R is what a worker's references make of the texts A.
Pieces(A, R, worker, S) ==
    /\ A \in Seq(Seq(S)) /\ R \in Seq(Seq(S)) /\ Len(A) = Len(R)
    /\ \A i \in 1 .. Len(A) : SubstituteWorker(A[i], worker) = R[i]

\* Texts put end to end are substituted one by one.
LEMMA SubstituteFlat ==
    ASSUME NEW S, NEW worker, Fills(worker, S), NEW A, NEW R, Pieces(A, R, worker, S)
    PROVE  SubstituteWorker(FlattenSeq(A), worker) = FlattenSeq(R)
<1>0. ASSUME NEW u \in Seq(S), NEW v \in Seq(S)
      PROVE  /\ SubstituteWorker(u, worker) \in Seq(S)
             /\ SubstituteWorker(u \o v, worker) = SubstituteWorker(u, worker) \o SubstituteWorker(v, worker)
  <2>1. TwoTexts(worker, S, u, v)
    BY DEF TwoTexts
  <2> QED  BY <2>1, SubstituteConcat
<1> USE DEF Pieces
<1> DEFINE n == Len(A)
<1>1. PICK F : Joins(A, F)
  BY JoinsExist
<1>2. PICK G : Joins(R, G)
  BY JoinsExist
<1>3. \A i \in 0 .. n : F[i] \in Seq(S)
  BY <1>1, JoinsType
<1>4. FlattenSeq(A) = F[n] /\ FlattenSeq(R) = G[n]
  BY <1>1, <1>2, FlattenJoins
<1>5. n \in Nat /\ \A i \in 1 .. n : A[i] \in Seq(S)
  OBVIOUS
<1>6. /\ F[0] = <<>> /\ \A i \in 1 .. n : F[i] = F[i - 1] \o A[i]
      /\ G[0] = <<>> /\ \A i \in 1 .. n : G[i] = G[i - 1] \o R[i]
  BY <1>1, <1>2 DEF Joins
<1> DEFINE B == {i \in 0 .. n : SubstituteWorker(F[i], worker) # G[i]}
<1>7. B = {}
  <2>1. SUFFICES ASSUME B # {} PROVE FALSE
    OBVIOUS
  <2>2. B \in SUBSET Nat
    OBVIOUS
  <2>3. PICK i \in B : \A j \in B : i <= j
    <3> HIDE DEF B
    <3> QED  BY <2>1, <2>2, LeastOf
  <2>4. i \in 0 .. n /\ SubstituteWorker(F[i], worker) # G[i]
    OBVIOUS
  <2>5. CASE i = 0
    <3>1. <<>> \in Seq({}) /\ \A t \in {} : WorkerRef(t, worker) = <<t>>
      OBVIOUS
    <3>2. SubstituteWorker(<<>>, worker) = <<>>
      BY <3>1, SubstitutePlain
    <3> QED  BY <1>6, <2>4, <2>5, <3>2
  <2>6. CASE i # 0
    <3> HIDE DEF n
    <3>1. i - 1 \in 0 .. n /\ i \in 1 .. n /\ ~(i <= i - 1)
      BY <1>5, <2>4, <2>6
    <3>2. SubstituteWorker(F[i - 1], worker) = G[i - 1]
      BY <2>3, <3>1
    <3>3. SubstituteWorker(F[i - 1] \o A[i], worker)
            = SubstituteWorker(F[i - 1], worker) \o SubstituteWorker(A[i], worker)
      <4>1. F[i - 1] \in Seq(S) /\ A[i] \in Seq(S)
        BY <1>3, <1>5, <3>1
      <4> QED  BY <1>0, <4>1
    <3>4. SubstituteWorker(A[i], worker) = R[i]
      BY <3>1 DEF n
    <3> QED  BY <1>6, <2>4, <3>1, <3>2, <3>3, <3>4
  <2> QED  BY <2>5, <2>6
<1>8. n \in 0 .. n
  OBVIOUS
<1> QED  BY <1>4, <1>7, <1>8

-----------------------------------------------------------------------------
(* References.                                                             *)

\* The spec of a text.
LEMMA BlankFacts ==
    LET spec == [Blank EXCEPT !.parallel = Shards(2)]
    IN  /\ spec.services = Unset /\ spec.parallel = Shards(2)
        /\ Blank.services = Unset /\ Blank.parallel = Unset
<1>1. {"parallel", "services"} \subseteq FillFields
  BY DEF FillFields
<1>2. {"parallel", "services"} \subseteq DOMAIN Blank /\ Blank.services = Unset /\ Blank.parallel = Unset
  BY <1>1 DEF Blank, Fields
<1> QED  BY <1>2

\* What the references of a text name, but for a worker's.
LEMMA ScopeValues ==
    ASSUME NEW spec, spec.services = Unset, NEW a, NEW b
    PROVE  LET values == Scope(spec, [a |-> a, b |-> b], <<>>, "run", "test").values
           IN  /\ {<<"config", "a">>, <<"config", "b">>} \subseteq DOMAIN values
               /\ values[<<"config", "a">>] = a /\ values[<<"config", "b">>] = b
               /\ \A x, y : <<x, y>> \in DOMAIN values => x \in {"config", "run", "test"}
<1> DEFINE config == [a |-> a, b |-> b]
           c == [p \in {<<"config", k>> : k \in DOMAIN config} |-> config[p[2]]]
           e == [p \in {<<"env", k>> : k \in DOMAIN <<>>} |-> <<>>[p[2]]]
           s == [p \in {<<"services", k>> : k \in DOMAIN <<>>} |-> <<>>[p[2]]]
           r == Only(<<"run", "id">>, <<Lit("run")>>)
           n == Only(<<"test", "name">>, <<Lit("test")>>)
           values == Scope(spec, config, <<>>, "run", "test").values
<1>1. values = c ++ e ++ s ++ r ++ n
  BY DEF Scope
<1>2. DOMAIN c = {<<"config", "a">>, <<"config", "b">>} /\ c[<<"config", "a">>] = a /\ c[<<"config", "b">>] = b
  OBVIOUS
<1>3. DOMAIN e = {} /\ DOMAIN s = {}
  OBVIOUS
<1>4. DOMAIN r = {<<"run", "id">>} /\ DOMAIN n = {<<"test", "name">>}
  BY DEF Only
<1> HIDE DEF c, e, s, r, n, values
<1>5. /\ DOMAIN values = DOMAIN c \cup DOMAIN e \cup DOMAIN s \cup DOMAIN r \cup DOMAIN n
      /\ \A x \in DOMAIN c : values[x] = c[x]
  BY <1>1 DEF ++
<1>6. \A x, y : <<x, y>> \in DOMAIN values => x \in {"config", "run", "test"}
  BY <1>2, <1>3, <1>4, <1>5
<1> QED  BY <1>2, <1>5, <1>6 DEF values

\* The worker's references that are left for later.
LEMMA ScopeDeferred ==
    ASSUME NEW spec, NEW config
    PROVE  LET deferred == Scope(spec, config, <<>>, "run", "test").deferred
           IN  /\ spec.parallel = Unset => deferred = {}
               /\ spec.parallel = Shards(2) =>
                    deferred = {<<"worker", "index">>, <<"worker", "count">>, <<"shard", "spec">>}
<1>1. ASSUME spec.parallel = Unset PROVE Scope(spec, config, <<>>, "run", "test").deferred = {}
  BY <1>1 DEF Scope
<1>2. ASSUME spec.parallel = Shards(2)
      PROVE  Scope(spec, config, <<>>, "run", "test").deferred
               = {<<"worker", "index">>, <<"worker", "count">>, <<"shard", "spec">>}
  <2> DEFINE p == Shards(2)
  <2>1. spec.parallel # Unset
    BY <1>2, SpecAssumption
  <2>2. DOMAIN p.matrix = {} /\ DOMAIN p.shards = {"spec"}
    BY DEF Shards
  <2> HIDE DEF p
  <2>3. Scope(spec, config, <<>>, "run", "test").deferred
          = {<<"worker", "index">>, <<"worker", "count">>}
              \cup {<<"matrix", k>> : k \in DOMAIN p.matrix} \cup {<<"shard", k>> : k \in DOMAIN p.shards}
    BY <1>2, <2>1 DEF Scope, p
  <2> QED  BY <2>2, <2>3
<1> QED  BY <1>1, <1>2

\* What a worker's references name: its index, the number of workers and its part of the
\* list at least, and no text that is not a literal.
Named(worker) ==
    /\ {<<"worker", "index">>, <<"worker", "count">>, <<"shard", "spec">>} \subseteq DOMAIN worker
    /\ \A r \in DOMAIN worker : \E x : worker[r] = <<Lit(x)>>

\* The workers of Shards(2).
LEMMA WorkerNames ==
    ASSUME NEW i \in DOMAIN ParallelWorkers(Shards(2))
    PROVE  Named(WorkerValues(ParallelWorkers(Shards(2))[i]))
<1> DEFINE p == Shards(2)
           cs == Combos(p.matrix)
           n == CombinationCount(p.matrix)
           per == PerCombination(p)
           ws == ParallelWorkers(p)
<1>1. p.matrix = <<>> /\ p.shards = [spec |-> [j \in 1 .. 2 |-> j]] /\ p.count = Unset /\ p.maxCount = Unset
  BY DEF Shards
<1> HIDE DEF p
<1>2. Listed(p.matrix)
  BY <1>1 DEF Listed
<1>3. DOMAIN p.shards = {"spec"} /\ p.shards # <<>> /\ Len(p.shards["spec"]) = 2
  <2>1. Len([j \in 1 .. 2 |-> j]) = 2
    OBVIOUS
  <2>2. DOMAIN p.shards = {"spec"} /\ p.shards["spec"] = [j \in 1 .. 2 |-> j]
    BY <1>1
  <2> QED  BY <2>1, <2>2
<1>4. per \in Nat
  <2>1. {Len(p.shards[k]) : k \in DOMAIN p.shards} = {2}
    <3>1. "spec" \in DOMAIN p.shards /\ \A k \in DOMAIN p.shards : Len(p.shards[k]) = 2
      BY <1>3
    <3> QED  BY <3>1
  <2>2. Max({2}) \in {2} /\ Max({1, 2}) \in {1, 2}
    <3>1. 2 \in Nat /\ {2} \in SUBSET (0 .. 2) /\ {1, 2} \in SUBSET (0 .. 2)
      OBVIOUS
    <3> QED  BY <3>1, MaxFacts
  <2>3. Longest(p.shards) = 2
    BY <2>1, <2>2 DEF Longest
  <2>4. per = Max({1, 2})
    BY <1>1, <1>3, <2>3 DEF PerCombination
  <2> QED  BY <2>2, <2>4
<1>5. /\ n \in Nat /\ DOMAIN ws = 1 .. n * per
      /\ \A a \in 1 .. n, j \in 1 .. per : ws[(a - 1) * per + j] = WorkerAt(p, cs, n, per, a, j)
  BY <1>2, <1>4, WorkerFacts
<1> HIDE DEF cs, n, per, ws
<1>6. i \in 1 .. n * per
  BY <1>5 DEF ws, p
<1>7. PICK a \in 1 .. n, j \in 1 .. per : i = (a - 1) * per + j
  BY <1>4, <1>5, <1>6, BlockOf
<1>8. ws[i] = WorkerAt(p, cs, n, per, a, j)
  BY <1>5, <1>7
<1>9. DOMAIN ws[i].shard = {"spec"}
  BY <1>3, <1>8 DEF WorkerAt
<1> DEFINE w == ws[i]
           f == Only(<<"worker", "index">>, <<Lit(w.index)>>)
           g == Only(<<"worker", "count">>, <<Lit(w.count)>>)
           h == [r \in {<<"matrix", k>> : k \in DOMAIN w.matrix} |-> <<Lit(w.matrix[r[2]])>>]
           s == [r \in {<<"shard", k>> : k \in DOMAIN w.shard} |-> <<Lit(w.shard[r[2]])>>]
           values == WorkerValues(w)
<1>10. values = f ++ g ++ h ++ s
  BY DEF WorkerValues
<1>11. DOMAIN f = {<<"worker", "index">>} /\ \A r \in DOMAIN f : \E x : f[r] = <<Lit(x)>>
  BY DEF Only
<1>12. DOMAIN g = {<<"worker", "count">>} /\ \A r \in DOMAIN g : \E x : g[r] = <<Lit(x)>>
  BY DEF Only
<1>13. \A r \in DOMAIN h : \E x : h[r] = <<Lit(x)>>
  OBVIOUS
<1>14. <<"shard", "spec">> \in DOMAIN s /\ \A r \in DOMAIN s : \E x : s[r] = <<Lit(x)>>
  BY <1>9
<1> HIDE DEF f, g, h, s, values, w
<1>15. /\ DOMAIN values = DOMAIN f \cup DOMAIN g \cup DOMAIN h \cup DOMAIN s
       /\ \A r \in DOMAIN values : \E e \in {f, g, h, s} : r \in DOMAIN e /\ values[r] = e[r]
  BY <1>10 DEF ++
<1>16. Named(values)
  <2>1. ASSUME NEW r \in DOMAIN values PROVE \E x : values[r] = <<Lit(x)>>
    <3>1. PICK e \in {f, g, h, s} : r \in DOMAIN e /\ values[r] = e[r]
      BY <1>15
    <3>2. \E x : e[r] = <<Lit(x)>>
      BY <1>11, <1>12, <1>13, <1>14, <3>1
    <3> QED  BY <3>1, <3>2
  <2>2. {<<"worker", "index">>, <<"worker", "count">>, <<"shard", "spec">>} \subseteq DOMAIN values
    BY <1>11, <1>12, <1>14, <1>15
  <2> QED  BY <2>1, <2>2 DEF Named
<1> QED  BY <1>16 DEF values, w, ws, p

\* What Render makes of a token.
Rendered(t, scope, worker) ==
    CASE t.kind = "lit" -> <<t>>
      [] t.kind = "quoted" -> <<Ref(t.ns, t.key)>>
      [] OTHER -> (scope.values ++ worker)[<<t.ns, t.key>>]

\* The configuration of a text, and the worker it is rendered for.
Setting(scope, worker, S, a, b) ==
    /\ a \in Seq(S) /\ b \in Seq(S)
    /\ {<<"config", "a">>, <<"config", "b">>} \subseteq DOMAIN scope.values
    /\ scope.values[<<"config", "a">>] = a /\ scope.values[<<"config", "b">>] = b
    /\ \A u, v : <<u, v>> \in DOMAIN scope.values => u \in {"config", "run", "test"}
    /\ scope.deferred = {<<"worker", "index">>, <<"worker", "count">>, <<"shard", "spec">>}
    /\ Named(worker)

\* The tokens that a text is made of on its way.
Passing(S, worker) ==
    S \cup {Lit("x"), Ref("config", "a"), Ref("worker", "index"), Ref("shard", "spec")}
      \cup {worker[r][1] : r \in DOMAIN worker}

\* What a worker makes of these tokens; its own values it leaves alone.
LEMMA PassingFacts ==
    ASSUME NEW worker, NEW S, Named(worker)
    PROVE  /\ Fills(worker, Passing(S, worker))
           /\ \A r \in DOMAIN worker : \E v \in Passing(S, worker) : worker[r] = <<v>> /\ WorkerRef(v, worker) = <<v>>
<1> DEFINE T == Passing(S, worker)
<1>1. \A z : WorkerRef(Lit(z), worker) = <<Lit(z)>>
  BY DEF WorkerRef, Lit
<1>2. ASSUME NEW r \in DOMAIN worker
      PROVE  \E v \in T : worker[r] = <<v>> /\ WorkerRef(v, worker) = <<v>>
  <2>1. PICK x : worker[r] = <<Lit(x)>>
    BY DEF Named
  <2>2. worker[r][1] = Lit(x)
    BY <2>1
  <2>3. worker[r][1] \in T
    BY DEF Passing
  <2> QED  BY <1>1, <2>1, <2>2, <2>3
<1>3. ASSUME NEW t \in T PROVE WorkerRef(t, worker) \in Seq(T)
  <2>1. \/ WorkerRef(t, worker) \in {<<t>>, <<>>}
        \/ \E r \in DOMAIN worker : WorkerRef(t, worker) = worker[r]
    <3>1. <<"worker", "count">> \in DOMAIN worker
      BY DEF Named
    <3> QED  BY <3>1, Zenon DEF WorkerRef
  <2> HIDE DEF T
  <2>2. <<>> \in Seq(T) /\ \A u \in T : <<u>> \in Seq(T)
    OBVIOUS
  <2> QED  BY <1>2, <2>1, <2>2
<1> QED  BY <1>2, <1>3 DEF Fills

\* A token is resolved and then filled, or rendered at once and then filled: the same.
LEMMA TokenFacts ==
    ASSUME NEW scope, NEW worker, NEW S, NEW a, NEW b, Setting(scope, worker, S, a, b),
           NEW t \in Tokens, Known(t, scope)
    PROVE  /\ ResolveRef(t, scope) \in Seq(Passing(S, worker)) /\ Rendered(t, scope, worker) \in Seq(Passing(S, worker))
           /\ SubstituteWorker(ResolveRef(t, scope), worker) = SubstituteWorker(Rendered(t, scope, worker), worker)
<1> DEFINE T == Passing(S, worker)
           values == scope.values ++ worker
           Same(out, in) == out \in Seq(T) /\ in \in Seq(T) /\ SubstituteWorker(out, worker) = SubstituteWorker(in, worker)
<1>1. /\ Fills(worker, T)
      /\ \A r \in DOMAIN worker : \E v \in T : worker[r] = <<v>> /\ WorkerRef(v, worker) = <<v>>
  BY PassingFacts DEF Setting
<1>2. /\ S \subseteq T /\ Lit("x") \in T /\ Ref("config", "a") \in T /\ Ref("worker", "index") \in T
      /\ Ref("shard", "spec") \in T
  BY DEF Passing
<1> HIDE DEF T
<1>3. ASSUME NEW u \in T PROVE Same(<<u>>, <<u>>)
  OBVIOUS
<1>4. ASSUME NEW v \in Seq(S) PROVE Same(v, v)
  BY <1>2
<1>5. ASSUME NEW u \in T, NEW r \in DOMAIN worker, WorkerRef(u, worker) = worker[r]
      PROVE  Same(<<u>>, worker[r])
  <2>1. PICK v \in T : worker[r] = <<v>> /\ WorkerRef(v, worker) = <<v>>
    BY <1>1
  <2>2. <<u>> \in Seq(T) /\ <<v>> \in Seq(T)
    OBVIOUS
  <2>3. SubstituteWorker(<<u>>, worker) = WorkerRef(u, worker) /\ SubstituteWorker(<<v>>, worker) = WorkerRef(v, worker)
    BY <1>1, SubstituteOne
  <2> QED  BY <1>5, <2>1, <2>2, <2>3
<1>6. /\ values[<<"config", "a">>] = a /\ values[<<"config", "b">>] = b
      /\ \A r \in {<<"worker", "index">>, <<"shard", "spec">>} : r \in DOMAIN worker /\ values[r] = worker[r]
      /\ <<"config", "a">> \notin scope.deferred /\ <<"config", "b">> \notin scope.deferred
      /\ <<"worker", "index">> \in scope.deferred /\ <<"shard", "spec">> \in scope.deferred
      /\ scope.values[<<"config", "a">>] = a /\ scope.values[<<"config", "b">>] = b
      /\ <<"confg", "a">> \notin DOMAIN scope.values \cup scope.deferred
  <2>1. /\ scope.values[<<"config", "a">>] = a /\ scope.values[<<"config", "b">>] = b
        /\ <<"config", "a">> \in DOMAIN scope.values /\ <<"config", "b">> \in DOMAIN scope.values
    BY DEF Setting
  <2>2. \A u, v : <<u, v>> \in DOMAIN scope.values => u \in {"config", "run", "test"}
    BY DEF Setting
  <2>3. /\ <<"worker", "index">> \notin DOMAIN scope.values /\ <<"shard", "spec">> \notin DOMAIN scope.values
        /\ <<"confg", "a">> \notin DOMAIN scope.values
    BY <2>2
  <2>4. /\ <<"config", "a">> \notin scope.deferred /\ <<"config", "b">> \notin scope.deferred
        /\ <<"worker", "index">> \in scope.deferred /\ <<"shard", "spec">> \in scope.deferred
        /\ <<"confg", "a">> \notin scope.deferred
    BY DEF Setting
  <2>5. values[<<"config", "a">>] = a /\ values[<<"config", "b">>] = b
    BY <2>1 DEF ++
  <2>6. <<"worker", "index">> \in DOMAIN worker /\ <<"shard", "spec">> \in DOMAIN worker
    BY DEF Setting, Named
  <2>7. /\ values[<<"worker", "index">>] = worker[<<"worker", "index">>]
        /\ values[<<"shard", "spec">>] = worker[<<"shard", "spec">>]
    BY <2>3, <2>6 DEF ++
  <2> QED  BY <2>1, <2>3, <2>4, <2>5, <2>6, <2>7
<1>7. a \in Seq(S) /\ b \in Seq(S)
  BY DEF Setting
<1> HIDE DEF Same, values
<1>8. CASE t = Lit("x")
  <2>1. ResolveRef(t, scope) = <<Lit("x")>> /\ Rendered(t, scope, worker) = <<Lit("x")>>
    BY <1>8 DEF Lit, ResolveRef, Rendered
  <2> QED  BY <1>2, <1>3, <2>1 DEF Same, T
<1>9. CASE t = Ref("config", "a")
  <2>1. ResolveRef(t, scope) = a /\ Rendered(t, scope, worker) = a
    BY <1>6, <1>9 DEF Ref, ResolveRef, Rendered, values
  <2> QED  BY <1>4, <1>7, <2>1 DEF Same, T
<1>10. CASE t = Ref("config", "b")
  <2>1. ResolveRef(t, scope) = b /\ Rendered(t, scope, worker) = b
    BY <1>6, <1>10 DEF Ref, ResolveRef, Rendered, values
  <2> QED  BY <1>4, <1>7, <2>1 DEF Same, T
<1>11. CASE t = Quoted("config", "a")
  <2>1. ResolveRef(t, scope) = <<Ref("config", "a")>> /\ Rendered(t, scope, worker) = <<Ref("config", "a")>>
    BY <1>11 DEF Quoted, Ref, ResolveRef, Rendered
  <2> QED  BY <1>2, <1>3, <2>1 DEF Same, T
<1>12. CASE t = Ref("worker", "index")
  <2> DEFINE r == <<"worker", "index">>
  <2>1. ResolveRef(t, scope) = <<Ref("worker", "index")>> /\ Rendered(t, scope, worker) = worker[r]
    BY <1>6, <1>12 DEF Ref, ResolveRef, Rendered, values
  <2>2. r \in DOMAIN worker
    BY <1>6
  <2>3. WorkerRef(Ref("worker", "index"), worker) = worker[r]
    BY <2>2 DEF WorkerRef, Ref, WorkerSpaces
  <2> HIDE DEF r
  <2> QED  BY <1>2, <1>5, <2>1, <2>2, <2>3 DEF Same, T
<1>13. CASE t = Ref("shard", "spec")
  <2> DEFINE r == <<"shard", "spec">>
  <2>1. ResolveRef(t, scope) = <<Ref("shard", "spec")>> /\ Rendered(t, scope, worker) = worker[r]
    BY <1>6, <1>13 DEF Ref, ResolveRef, Rendered, values
  <2>2. r \in DOMAIN worker
    BY <1>6
  <2>3. WorkerRef(Ref("shard", "spec"), worker) = worker[r]
    BY <2>2 DEF WorkerRef, Ref, WorkerSpaces
  <2> HIDE DEF r
  <2> QED  BY <1>2, <1>5, <2>1, <2>2, <2>3 DEF Same, T
<1>14. CASE t = Ref("confg", "a")
  BY <1>6, <1>14 DEF Known, Ref
<1> QED  BY <1>8, <1>9, <1>10, <1>11, <1>12, <1>13, <1>14 DEF Tokens

\* Texts with a worker's references: evaluated, or rendered at once, and then filled.
LEMMA TextFacts ==
    ASSUME NEW scope, NEW worker, NEW S, NEW a, NEW b, Setting(scope, worker, S, a, b),
           NEW n \in Nat, NEW text \in [1 .. n -> Tokens], Evaluable(text, scope)
    PROVE  SubstituteWorker(Eval(text, scope), worker) = SubstituteWorker(Render(text, scope, worker), worker)
<1> DEFINE T == Passing(S, worker)
           A == [i \in 1 .. n |-> ResolveRef(text[i], scope)]
           R == [i \in 1 .. n |-> Rendered(text[i], scope, worker)]
           Q == [i \in 1 .. n |-> SubstituteWorker(A[i], worker)]
<1>1. \A i \in 1 .. n : text[i] \in Tokens /\ Known(text[i], scope)
  BY DEF Evaluable
<1>2. Fills(worker, T)
  BY PassingFacts DEF Setting
<1>3. \A i \in 1 .. n : /\ ResolveRef(text[i], scope) \in Seq(T) /\ Rendered(text[i], scope, worker) \in Seq(T)
                        /\ SubstituteWorker(ResolveRef(text[i], scope), worker)
                             = SubstituteWorker(Rendered(text[i], scope, worker), worker)
  BY <1>1, TokenFacts
<1> HIDE DEF T
<1>4. A \in [1 .. n -> Seq(T)] /\ R \in [1 .. n -> Seq(T)]
  BY <1>3
<1>5. \A i \in 1 .. n : SubstituteWorker(A[i], worker) = Q[i] /\ SubstituteWorker(R[i], worker) = Q[i]
  BY <1>3
<1>6. Eval(text, scope) = FlattenSeq(A)
  BY DEF Eval, EvalOnce
<1>7. Render(text, scope, worker) = FlattenSeq(R)
  <2>1. DOMAIN text = 1 .. n
    OBVIOUS
  <2> QED  BY <2>1, Zenon DEF Render, Rendered
<1>8. Q \in [1 .. n -> Seq(T)]
  <2>1. ASSUME NEW u \in Seq(T) PROVE SubstituteWorker(u, worker) \in Seq(T)
    <3>1. TwoTexts(worker, T, u, u)
      BY <1>2 DEF TwoTexts
    <3> QED  BY <3>1, SubstituteConcat
  <2>2. \A i \in 1 .. n : A[i] \in Seq(T)
    BY <1>4
  <2> HIDE DEF A
  <2> QED  BY <2>1, <2>2
<1> HIDE DEF A, R, Q
<1>9. ASSUME NEW s \in [1 .. n -> Seq(T)] PROVE s \in Seq(Seq(T)) /\ Len(s) = n
  OBVIOUS
<1>10. Pieces(A, Q, worker, T) /\ Pieces(R, Q, worker, T)
  BY <1>4, <1>5, <1>8, <1>9 DEF Pieces
<1>11. SubstituteWorker(FlattenSeq(A), worker) = FlattenSeq(Q) /\ SubstituteWorker(FlattenSeq(R), worker) = FlattenSeq(Q)
  BY <1>2, <1>10, SubstituteFlat
<1> QED  BY <1>6, <1>7, <1>11

\* Texts of a Test that has no workers.
LEMMA AloneFacts ==
    ASSUME NEW scope, scope.deferred = {}, NEW n \in Nat, NEW text \in [1 .. n -> Tokens], Evaluable(text, scope)
    PROVE  Eval(text, scope) = Render(text, scope, <<>>)
<1>1. \A t \in Tokens : t.kind \in {"lit", "ref", "quoted"}
  BY DEF Tokens, Lit, Ref, Quoted
<1>2. ASSUME NEW i \in 1 .. n PROVE ResolveRef(text[i], scope) = Rendered(text[i], scope, <<>>)
  <2> DEFINE t == text[i]
  <2>1. t.kind \in {"lit", "ref", "quoted"} /\ Known(t, scope)
    BY <1>1 DEF Evaluable
  <2> HIDE DEF t
  <2>2. CASE t.kind = "lit"
    BY <2>2 DEF ResolveRef, Rendered, t
  <2>3. CASE t.kind = "quoted"
    BY <2>3 DEF ResolveRef, Rendered, t
  <2>4. CASE t.kind = "ref"
    <3>1. <<t.ns, t.key>> \in DOMAIN scope.values
      BY <2>1, <2>4 DEF Known
    <3>2. (scope.values ++ <<>>)[<<t.ns, t.key>>] = scope.values[<<t.ns, t.key>>]
      BY <3>1 DEF ++
    <3>3. ResolveRef(t, scope) = scope.values[<<t.ns, t.key>>]
      BY <2>4 DEF ResolveRef
    <3>4. Rendered(t, scope, <<>>) = (scope.values ++ <<>>)[<<t.ns, t.key>>]
      BY <2>4 DEF Rendered
    <3> QED  BY <3>2, <3>3, <3>4 DEF t
  <2> QED  BY <2>1, <2>2, <2>3, <2>4
<1> DEFINE A == [i \in 1 .. n |-> ResolveRef(text[i], scope)]
           R == [i \in 1 .. n |-> Rendered(text[i], scope, <<>>)]
<1>3. A = R
  BY <1>2
<1>4. DOMAIN text = 1 .. n
  OBVIOUS
<1>5. Eval(text, scope) = FlattenSeq(A)
  BY <1>4, Zenon DEF Eval, EvalOnce
<1>6. Render(text, scope, <<>>) = FlattenSeq(R)
  BY <1>4, Zenon DEF Render, Rendered
<1> QED  BY <1>3, <1>5, <1>6

\* ValuesReadOnce, of any text that PickText picks.
LEMMA ValuesSound ==
    ASSUME InputInv
    PROVE  ValuesReadOnce
<1> DEFINE spec == TextSpec
           scope == TextScope
           workers == WorkersOf(spec)
           Once(w) == Render(input.text, scope, w)
<1> SUFFICES ASSUME input.kind = "text", Evaluable(input.text, scope), NEW i \in DOMAIN workers
             PROVE  Landed(input.text, scope, workers[i])
                      = IF workers[i] = <<>> THEN Once(workers[i]) ELSE SubstituteWorker(Once(workers[i]), workers[i])
  BY Zenon DEF ValuesReadOnce
<1>1. PICK n \in Nat : input.text \in [1 .. n -> Tokens]
  BY DEF InputInv
<1>2. input.parallel \in BOOLEAN
  BY DEF InputInv
<1>3. PICK a \in ConfigTexts : \E b \in ConfigTexts : input.config = [a |-> a, b |-> b]
  BY DEF InputInv
<1>4. PICK b \in ConfigTexts : input.config = [a |-> a, b |-> b]
  BY <1>3
<1>5. scope = Scope(spec, [a |-> a, b |-> b], <<>>, "run", "test")
  BY <1>4 DEF TextScope
<1> HIDE DEF scope, Once
<1>6. CASE input.parallel
  <2> DEFINE S == Range(a) \cup Range(b)
  <2>1. a \in Seq(S) /\ b \in Seq(S)
    <3>1. a \in Seq(Range(a)) /\ b \in Seq(Range(b))
      BY TextAssumption
    <3> HIDE DEF S
    <3>2. Range(a) \subseteq S /\ Range(b) \subseteq S
      BY DEF S
    <3> QED  BY <3>1, <3>2
  <2>2. spec = [Blank EXCEPT !.parallel = Shards(2)]
    BY <1>6 DEF TextSpec
  <2>3. spec.services = Unset /\ spec.parallel = Shards(2) /\ Shards(2) # Unset
    BY <2>2, BlankFacts, SpecAssumption
  <2> HIDE DEF spec, S
  <2>4. /\ {<<"config", "a">>, <<"config", "b">>} \subseteq DOMAIN scope.values
        /\ scope.values[<<"config", "a">>] = a /\ scope.values[<<"config", "b">>] = b
        /\ \A x, y : <<x, y>> \in DOMAIN scope.values => x \in {"config", "run", "test"}
    BY <1>5, <2>3, ScopeValues
  <2>5. scope.deferred = {<<"worker", "index">>, <<"worker", "count">>, <<"shard", "spec">>}
    BY <1>5, <2>3, ScopeDeferred
  <2> DEFINE ws == ParallelWorkers(Shards(2))
  <2>6. workers = [j \in DOMAIN ws |-> WorkerValues(ws[j])]
    BY <2>3 DEF WorkersOf
  <2>7. i \in DOMAIN ws /\ workers[i] = WorkerValues(ws[i])
    <3> HIDE DEF ws, workers
    <3> QED  BY <2>6
  <2> HIDE DEF workers
  <2>8. Named(workers[i])
    BY <2>7, WorkerNames
  <2>9. Setting(scope, workers[i], S, a, b)
    BY <2>1, <2>4, <2>5, <2>8, Zenon DEF Setting
  <2>10. SubstituteWorker(Eval(input.text, scope), workers[i]) = SubstituteWorker(Once(workers[i]), workers[i])
    BY <1>1, <2>9, TextFacts DEF Once
  <2>11. workers[i] # <<>>
    BY <2>8 DEF Named
  <2> QED  BY <2>10, <2>11 DEF Landed
<1>7. CASE ~input.parallel
  <2>1. spec.parallel = Unset
    BY <1>7, BlankFacts DEF TextSpec
  <2> HIDE DEF spec
  <2>2. scope.deferred = {}
    BY <1>5, <2>1, ScopeDeferred
  <2>3. workers = << <<>> >>
    BY <2>1 DEF WorkersOf
  <2> HIDE DEF workers
  <2>4. workers[i] = <<>>
    BY <2>3
  <2>5. Eval(input.text, scope) = Once(<<>>)
    BY <1>1, <2>2, AloneFacts DEF Once
  <2> QED  BY <2>4, <2>5 DEF Landed
<1> QED  BY <1>2, <1>6, <1>7

\* Whatever the texts and the values of parameters, the spelling of references in them
\* included: Eval and SubstituteWorker together read each token of the text once, and of
\* what a value brings in only worker references are looked at again.
THEOREM ValuesAreReadOnce == MCSpec => []ValuesReadOnce
BY ValuesSound, InputHolds, PTL
=============================================================================
