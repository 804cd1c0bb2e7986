------------------------------- MODULE Wrapper -------------------------------
(***************************************************************************)
(* A run's pod: the content fetcher (its init container) and the wrapper   *)
(* that runs the tool, judges it, and leaves the verdict where the         *)
(* operator looks for it: result.json in the bucket, and a summary in the  *)
(* pod's termination message (cmd/entry, pkg/executor,                     *)
(* pkg/executor/fetcher, internal/scraper, pkg/verdict).                   *)
(*                                                                         *)
(* A report the tool leaves in its working directory is what it says       *)
(* ("pass", "fail", "empty": no test ran, "bad": it does not parse) and    *)
(* the try that wrote it.  The wrapper's context ends by the run's timeout *)
(* or by SIGTERM, at any moment, and the pod may be killed at any moment   *)
(* (out of memory, or the grace period is over).                           *)
(***************************************************************************)
EXTENDS Naturals, Sequences, FiniteSets

CONSTANTS
    Froms,              \* spec.verdict.from: a subset of {"exit", "junit", "jtl"}
    Parts,              \* the parts of the content, fetched in this order
    Reports,            \* the report files the tool may write
    OutJTL,             \* the one of them that is out.jtl, if any is
    Retry,              \* spec.retry.count
    MaxUploadAttempts,  \* tries of one artifact's upload
    WrapperBudgets      \* failures of the object store, kills, and bad requests

ASSUME WrapperAssumption ==
    /\ Froms \subseteq {"exit", "junit", "jtl"}
    /\ Parts \in Seq(STRING) /\ IsFiniteSet(Reports)
    /\ Retry \in Nat /\ MaxUploadAttempts \in Nat \ {0}

VARIABLES
    from,       \* where this run's verdict comes from
    stage,      \* what the pod is doing; "exited" and "killed" are its ends
    fetched,    \* parts of the content that are in place
    ctx,        \* the wrapper's context: "alive", "deadline" or "cancelled"
    try,        \* tries begun
    report,     \* the working directory's reports
    result,     \* the wrapper's ExecutionResult, and of its try: had the context ended by then
                \* (cut), were the reports other than it found them (touched)
    scrape,     \* the scrape: files to go, attempts made, and whether it has its own context
    bucket,     \* stored artifacts and result.json
    message,    \* the termination message: "", a phase, or "FETCH_ERROR"
    mishaps     \* what is left of the bounds

vars == <<from, stage, fetched, ctx, try, report, result, scrape, bucket, message, mishaps>>

Phases == {"passed", "failed", "error", "aborted"}
NoReport == [says |-> "none", try |-> 0]
NoResult == [phase |-> "", ran |-> FALSE, exit |-> 0, attempts |-> <<>>, artifacts |-> {},
             cut |-> FALSE, touched |-> FALSE]
NoScrape == [todo |-> {}, attempts |-> 0, grace |-> FALSE]
NoObject == [phase |-> "", artifacts |-> {}]

Mishap(kind) == mishaps[kind] > 0 /\ mishaps' = [mishaps EXCEPT ![kind] = @ - 1]

WrapperInit ==
    /\ from \in Froms /\ stage = "fetch" /\ fetched = 0
    /\ ctx = "alive" /\ try = 0 /\ report = [f \in Reports |-> NoReport]
    /\ result = NoResult /\ scrape = NoScrape
    /\ bucket = [artifacts |-> {}, result |-> NoObject] /\ message = ""
    /\ mishaps \in WrapperBudgets

-----------------------------------------------------------------------------
(***************************************************************************)
(* The content fetcher: git, inline files, tarballs, the mounts' check,    *)
(* then the tree is opened to the tool's user.  The first error ends it.   *)
(***************************************************************************)

FetchPart(part) ==
    /\ stage = "fetch" /\ fetched < Len(Parts) /\ Parts[fetched + 1] = part
    /\ fetched' = fetched + 1
    /\ UNCHANGED <<from, stage, ctx, try, report, result, scrape, bucket, message, mishaps>>

Clone == FetchPart("git")
WriteFiles == FetchPart("files")
FetchTarballs == FetchPart("tarball")
CheckEmptyMounts == FetchPart("mounts")

\* An error, or the fetch's own timeout: FETCH_ERROR and exit code 1.
FetchFails ==
    /\ stage = "fetch" /\ fetched < Len(Parts) /\ Mishap("fail")
    /\ stage' = "exited" /\ message' = "FETCH_ERROR"
    /\ UNCHANGED <<from, fetched, ctx, try, report, result, scrape, bucket>>

\* Kubernetes starts the wrapper's container once the init container has succeeded.
ContentReady ==
    /\ stage = "fetch" /\ fetched = Len(Parts)
    /\ stage' = "load"
    /\ UNCHANGED <<from, fetched, ctx, try, report, result, scrape, bucket, message, mishaps>>

-----------------------------------------------------------------------------
(***************************************************************************)
(* The tool's tries.                                                       *)
(***************************************************************************)

\* request.json cannot be read or names no command: an error result, and nothing is uploaded.
WriteErrorResult ==
    /\ stage = "load" /\ Mishap("request")
    /\ result' = [result EXCEPT !.phase = "error"]
    /\ message' = "error" /\ stage' = "exited"
    /\ UNCHANGED <<from, fetched, ctx, try, report, scrape, bucket>>

LoadRequest ==
    /\ stage = "load"
    /\ stage' = "tool" /\ try' = 1
    /\ UNCHANGED <<from, fetched, ctx, report, result, scrape, bucket, message, mishaps>>

Parsed(reports) == {f \in Reports : reports[f].says \in {"pass", "fail", "empty"}}
Failing(reports) == {f \in Reports : reports[f].says = "fail"}
Present(reports) == {f \in Reports : reports[f].says # "none"}

\* junit.Scan adds up every report that parses, if there is a test in them.
Scan(reports) ==
    IF Failing(reports) # {} THEN "fail"
    ELSE IF \E f \in Parsed(reports) : reports[f].says = "pass" THEN "pass" ELSE "no test"

JUnitVerdict(reports) ==
    CASE Scan(reports) = "fail" -> "failed"
      [] Scan(reports) = "pass" -> "passed"
      [] OTHER -> "error"

\* The file that is read: out.jtl, else the only one there is.
FindJTL(reports) ==
    IF OutJTL \in Present(reports) THEN {OutJTL}
    ELSE IF Cardinality(Present(reports)) = 1 THEN Present(reports) ELSE {}

\* No sample at all means no failure.
JTLVerdict(reports) ==
    CASE FindJTL(reports) \intersect Parsed(reports) = {} -> "error"
      [] FindJTL(reports) \intersect Failing(reports) # {} -> "failed"
      [] OTHER -> "passed"

\* Exit 0 or not; a process that did not start has no exit code.
BaseVerdict(ran, exit) == IF ~ran THEN "error" ELSE IF exit = 0 THEN "passed" ELSE "failed"

\* A processor's verdict counts instead of the exit code's, both ways.
RunToolVerdict(ran, exit, reports) ==
    CASE from = "junit" -> JUnitVerdict(reports)
      [] from = "jtl"   -> JTLVerdict(reports)
      [] OTHER          -> BaseVerdict(ran, exit)

\* What one try may do to a report: leave it, remove it, or write it.
Left(f) == {report[f], NoReport} \union {[says |-> s, try |-> try] : s \in {"pass", "fail", "empty", "bad"}}

ToolEnds(ran, exit, reports) ==
    /\ report' = reports
    /\ result' = [result EXCEPT !.ran = ran, !.exit = exit, !.phase = RunToolVerdict(ran, exit, reports),
                                !.cut = ctx # "alive", !.touched = reports # report]
    /\ stage' = "again"
    /\ UNCHANGED <<from, fetched, ctx, try, scrape, bucket, message, mishaps>>

ToolExits ==
    /\ stage = "tool" /\ ctx = "alive"
    /\ \E exit \in {0, 1} : \E reports \in [Reports -> UNION {Left(f) : f \in Reports}] :
          (\A f \in Reports : reports[f] \in Left(f)) /\ ToolEnds(TRUE, exit, reports)

ToolDoesNotStart ==
    /\ stage = "tool" /\ ctx = "alive"
    /\ ToolEnds(FALSE, 0, report)

\* The tool does not run under the context.
ToolRunsOn ==
    /\ stage = "tool" /\ FALSE /\ UNCHANGED vars

\* The context kills the tool, whatever it has written; one that exits at that moment is an
\* error without an exit code.
ToolIsKilled ==
    /\ stage = "tool" /\ ctx # "alive"
    /\ \E ran \in BOOLEAN : \E reports \in [Reports -> UNION {Left(f) : f \in Reports}] :
          (\A f \in Reports : reports[f] \in Left(f)) /\ ToolEnds(ran, 1, reports)

AttemptOf == [phase |-> result.phase, ran |-> result.ran]
Retryable == result.phase = "failed" \/ (result.phase = "error" /\ result.ran)
TriesAfterStop == try < Retry + 1 /\ result.phase \in {"failed", "error"}
\* The condition of runWithRetry's loop.
TriesAgain == try < Retry + 1 /\ Retryable /\ ctx = "alive"

Again ==
    /\ stage = "again" /\ TriesAgain
    /\ result' = [result EXCEPT !.attempts = Append(@, AttemptOf)]
    /\ try' = try + 1 /\ stage' = "tool"
    /\ UNCHANGED <<from, fetched, ctx, report, scrape, bucket, message, mishaps>>

LastTry ==
    /\ stage = "again" /\ ~TriesAgain
    /\ result' = [result EXCEPT !.attempts = IF @ = <<>> THEN @ ELSE Append(@, AttemptOf)]
    /\ stage' = "classify"
    /\ UNCHANGED <<from, fetched, ctx, try, report, scrape, bucket, message, mishaps>>

\* Only the signal wins over a verdict.
ClassifySignal ==
    LET phase == IF ctx = "cancelled" THEN "aborted" ELSE result.phase
        n     == Len(result.attempts)
    IN /\ stage = "classify"
       /\ result' = [result EXCEPT !.phase = phase,
                                   !.attempts = IF n = 0 THEN @ ELSE [@ EXCEPT ![n].phase = phase]]
       /\ scrape' = [todo |-> Present(report), attempts |-> 0, grace |-> ctx # "alive"]
       /\ stage' = "scrape"
       /\ UNCHANGED <<from, fetched, ctx, try, report, bucket, message, mishaps>>

\* The context's end wins over any verdict, and the last attempt says so too.
Classify ==
    LET phase == CASE ctx = "deadline" -> "error" [] ctx = "cancelled" -> "aborted" [] OTHER -> result.phase
        n     == Len(result.attempts)
    IN /\ stage = "classify"
       /\ result' = [result EXCEPT !.phase = phase,
                                   !.attempts = IF n = 0 THEN @ ELSE [@ EXCEPT ![n].phase = phase]]
       /\ scrape' = [todo |-> Present(report), attempts |-> 0, grace |-> ctx # "alive"]
       /\ stage' = "scrape"
       /\ UNCHANGED <<from, fetched, ctx, try, report, bucket, message, mishaps>>

-----------------------------------------------------------------------------
(***************************************************************************)
(* Collecting: artifacts, the termination message, result.json.            *)
(***************************************************************************)

\* With the context dead, the scrape runs in one of its own.
ScrapeAlive == scrape.grace \/ ctx = "alive"

ScrapeFile(f) ==
    /\ stage = "scrape" /\ f \in scrape.todo /\ ScrapeAlive
    /\ bucket' = [bucket EXCEPT !.artifacts = @ \union {f}]
    /\ result' = [result EXCEPT !.artifacts = @ \union {f}]
    /\ scrape' = [scrape EXCEPT !.todo = @ \ {f}, !.attempts = 0]
    /\ UNCHANGED <<from, stage, fetched, ctx, try, report, message, mishaps>>

\* A file that is given up is listed all the same.
UploadFailsListed(f) ==
    /\ stage = "scrape" /\ f \in scrape.todo /\ ScrapeAlive /\ Mishap("fail")
    /\ scrape' = [scrape EXCEPT !.todo = @ \ {f}, !.attempts = 0]
    /\ result' = [result EXCEPT !.artifacts = @ \union {f}]
    /\ UNCHANGED <<from, stage, fetched, ctx, try, report, bucket, message>>

\* An upload that fails is tried again; after the last attempt the file is given up.
UploadFails(f) ==
    /\ stage = "scrape" /\ f \in scrape.todo /\ ScrapeAlive /\ Mishap("fail")
    /\ scrape' = IF scrape.attempts + 1 < MaxUploadAttempts
                 THEN [scrape EXCEPT !.attempts = @ + 1]
                 ELSE [scrape EXCEPT !.todo = @ \ {f}, !.attempts = 0]
    /\ UNCHANGED <<from, stage, fetched, ctx, try, report, result, bucket, message>>
\* Nothing to go, or the scrape's context has ended meanwhile.
ScrapeEnds ==
    /\ stage = "scrape" /\ (scrape.todo = {} \/ ~ScrapeAlive)
    /\ stage' = "terminate" /\ scrape' = NoScrape
    /\ UNCHANGED <<from, fetched, ctx, try, report, result, bucket, message, mishaps>>

\* The grace period's own end.
GraceEnds ==
    /\ stage = "scrape" /\ scrape.grace /\ scrape.todo # {} /\ Mishap("fail")
    /\ stage' = "terminate" /\ scrape' = NoScrape
    /\ UNCHANGED <<from, fetched, ctx, try, report, result, bucket, message>>

WriteTermination ==
    /\ stage = "terminate"
    /\ message' = result.phase /\ stage' = "write"
    /\ UNCHANGED <<from, fetched, ctx, try, report, result, scrape, bucket, mishaps>>

\* The message cannot be written: the wrapper goes on.
WriteTerminationFails ==
    /\ stage = "terminate" /\ Mishap("fail") /\ stage' = "write"
    /\ UNCHANGED <<from, fetched, ctx, try, report, result, scrape, bucket, message>>

\* result.json on the pod's own volume, renamed into place; a failure is exit code 1.
WriteResultAtomic ==
    /\ stage = "write" /\ stage' = "upload"
    /\ UNCHANGED <<from, fetched, ctx, try, report, result, scrape, bucket, message, mishaps>>

WriteResultFails ==
    /\ stage = "write" /\ Mishap("fail") /\ stage' = "exited"
    /\ UNCHANGED <<from, fetched, ctx, try, report, result, scrape, bucket, message>>

\* The object store's Put under a context: with a context that has ended it fails at once.
UploadResult ==
    /\ stage = "upload" /\ stage' = "exited"
    /\ bucket' = IF ctx = "alive"
                 THEN [bucket EXCEPT !.result = [phase |-> result.phase, artifacts |-> result.artifacts]]
                 ELSE bucket
    /\ UNCHANGED <<from, fetched, ctx, try, report, result, scrape, message, mishaps>>

UploadResultFails ==
    /\ stage = "upload" /\ ctx = "alive" /\ Mishap("fail") /\ stage' = "exited"
    /\ UNCHANGED <<from, fetched, ctx, try, report, result, scrape, bucket, message>>

-----------------------------------------------------------------------------
(***************************************************************************)
(* The pod's surroundings.                                                 *)
(***************************************************************************)

Over == stage \in {"exited", "killed"}
Running == ~Over /\ stage # "fetch"

Deadline ==
    /\ Running /\ stage # "load" /\ ctx = "alive" /\ ctx' = "deadline"
    /\ UNCHANGED <<from, stage, fetched, try, report, result, scrape, bucket, message, mishaps>>

Sigterm ==
    /\ Running /\ ctx = "alive" /\ Mishap("stop") /\ ctx' = "cancelled"
    /\ UNCHANGED <<from, stage, fetched, try, report, result, scrape, bucket, message>>

Kill ==
    /\ ~Over /\ Mishap("stop") /\ stage' = "killed"
    /\ UNCHANGED <<from, fetched, ctx, try, report, result, scrape, bucket, message>>

\* The summary in the termination message; without one the operator records an error.
ParseTerminationSummary == IF message \in Phases THEN message ELSE "error"

\* What the operator reads once the pod has ended: result.json, else the summary.
ReadBack ==
    IF ~Over THEN ""
    ELSE IF bucket.result # NoObject THEN bucket.result.phase ELSE ParseTerminationSummary

ToolStep == ToolExits \/ ToolDoesNotStart
OwnStep ==
    \/ Clone \/ WriteFiles \/ FetchTarballs \/ CheckEmptyMounts
    \/ ContentReady \/ LoadRequest \/ ToolIsKilled \/ Again \/ LastTry \/ Classify
    \/ ScrapeEnds \/ WriteTermination \/ WriteResultAtomic \/ UploadResult
    \/ \E f \in Reports : ScrapeFile(f)
Fault ==
    \/ FetchFails \/ WriteErrorResult \/ GraceEnds \/ WriteTerminationFails \/ WriteResultFails
    \/ UploadResultFails \/ Sigterm \/ Kill
    \/ \E f \in Reports : UploadFails(f)

WrapperNext == ToolStep \/ OwnStep \/ Deadline \/ Fault
\* The wrapper goes on, and the timeout's clock does; the tool may run for ever.
WrapperFairness == WF_vars(OwnStep) /\ WF_vars(Deadline)
WrapperSpec == WrapperInit /\ [][WrapperNext]_vars /\ WrapperFairness

-----------------------------------------------------------------------------
\* A verdict the operator reads was reached over the whole content, and a pass was earned:
\* the context lived to the end of the last try, and that try's exit code says so, or the
\* reports in place then, which are not as an earlier try, that had not passed, left them.
PassIsEarned ==
    /\ ReadBack \in {"passed", "failed"} => fetched = Len(Parts)
    /\ ReadBack = "passed" =>
          /\ result.phase = "passed" /\ ~result.cut
          /\ from = "exit" => result.ran /\ result.exit = 0
          /\ from = "junit" => Failing(report) = {} /\ \E f \in Reports : report[f].says = "pass"
          /\ from = "jtl" => \E f \in FindJTL(report) : report[f].says \in {"pass", "empty"}
          /\ from # "exit" => result.touched

\* "A stale report can only fail the verdict, never pass it" (runWithRetry): a pass that
\* reports decide rests on one that the last try wrote.  It does not hold: a try that takes
\* its failing report away, or leaves one that does not parse in its place, is judged by the
\* passing one that an earlier try left beside it.
StaleNeverPasses ==
    ReadBack = "passed" /\ from # "exit" => \E f \in Parsed(report) : report[f].try = try

\* The attempts tell what happened: as many as there were tries (when there were several),
\* none before the last passed (or, judged by exit code, failed to start), the last is the run's verdict, and no try
\* begins once the context has ended.
AttemptsTell ==
    [][/\ try' > try /\ try > 0 => ctx = "alive" /\ try' <= Retry + 1
       /\ stage' = "scrape" /\ Len(result'.attempts) > 0 =>
             /\ Len(result'.attempts) = try
             /\ \A i \in 1..try - 1 : /\ result'.attempts[i].phase # "passed"
                                     /\ from = "exit" => result'.attempts[i].ran
             /\ result'.attempts[try].phase = result'.phase]_vars

\* Every artifact the stored result names is in the bucket, and the verdict's copy in the
\* termination message, if it could be written, agrees.
ReportedIsStored ==
    bucket.result # NoObject =>
        bucket.result.artifacts \subseteq bucket.artifacts /\ message \in {"", bucket.result.phase}

\* The timeout covers all tries: the pod ends, however long the tool would run.
PodEnds == <>Over

=============================================================================
