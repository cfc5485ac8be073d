------------------------------ MODULE TestRuns ------------------------------
(***************************************************************************)
(* Test runs and what prog makes of their output                           *)
(* (prog-core/src/coding_provider.rs, coding_provider/verification.rs).    *)
(*                                                                         *)
(* A run is what really happened: the outcome of every test, and how the   *)
(* runner was called and ended.  What it prints (Lines, Summary, Exit) is  *)
(* the environment's; what a coding provider concludes from the print is   *)
(* the code's: which tests have a named status (Named), whether everything *)
(* selected has run (Selection), and how much of that the runner's own     *)
(* summary and exit confirm (Completion).  Names of tests, messages and    *)
(* the grammar of the lines are abstracted.                                *)
(***************************************************************************)
EXTENDS Naturals, FiniteSets, Absent

CONSTANTS
    Test,       \* the tests a suite may have
    MaxItems    \* MAX_PROVIDER_ITEMS: records a provider keeps

ASSUME TestRunsAssumption == /\ IsFiniteSet(Test)
                             /\ MaxItems \in Nat

Status == {"passed", "failed", "error", "skipped"}
Failing == {"failed", "error"}

(* What may become of a test: "torn" passes and then fails to tear down,    *)
(* "filtered" is deselected, "unreached" comes after the runner stopped    *)
(* early, "gone" is no longer in the suite.                                 *)
Outcome == Status \union {"torn", "filtered", "unreached", "gone"}
Executed == {"passed", "failed", "error", "torn"}
Failed == {"failed", "error", "torn"}

Pytest == {"pytest_text", "pytest_json"}
Providers == Pytest \union {"cargo"}

(* How a run ends: "truncated" if the capture has not all of the output,    *)
(* "crashed" before its summary, "overruled" if something else than a test  *)
(* makes it exit with a failure (a plugin, a coverage threshold).           *)
Ending == {"normal", "truncated", "crashed", "overruled"}

-----------------------------------------------------------------------------
(* The runner. *)

(* The statuses a test is reported with.  A JSON report has one per test,   *)
(* a text both the pass and the failed tear-down.                           *)
Reported(tool, outcome) ==
    CASE outcome \in Status -> {outcome}
      [] outcome = "torn" -> IF tool = "pytest_text" THEN {"passed", "error"}
                                                     ELSE {"error"}
      [] OTHER -> {}

(* Quiet output names failing tests only; a JSON report names all; of a     *)
(* truncated capture nothing need be left.                                  *)
Lines(run) ==
    IF run.ending = "truncated" THEN {}
    ELSE {line \in [test : Test, status : Status] :
             /\ line.status \in Reported(run.tool, run.outcome[line.test])
             /\ \/ run.verbose \/ run.tool = "pytest_json"
                \/ line.status \in Failing}

Summary(run) ==
    IF run.ending \notin {"normal", "overruled"} THEN None
    ELSE [status \in Status |->
             Cardinality({t \in Test :
                             status \in Reported(run.tool, run.outcome[t])})]

Deselected(run) == Cardinality({t \in Test : run.outcome[t] = "filtered"})

Exit(run) ==
    IF run.ending \notin {"normal", "overruled"} THEN "abnormal"
    ELSE IF run.ending = "overruled" \/ \E t \in Test : run.outcome[t] \in Failed THEN "failure"
    ELSE IF /\ run.tool \in Pytest
            /\ \A t \in Test : run.outcome[t] \notin Executed \union {"skipped"}
         THEN "abnormal"
    ELSE "success"

-----------------------------------------------------------------------------
(* The provider. *)

(* A provider examines so many bytes and lines and keeps so many records,   *)
(* the first ones.                                                          *)
BoundHit(run) == Cardinality(Lines(run)) > MaxItems

Kept(lines) == CHOOSE kept \in SUBSET lines : Cardinality(kept) = MaxItems

Records(run) == IF BoundHit(run) THEN Kept(Lines(run)) ELSE Lines(run)

Observed(run, status) ==
    Cardinality({line \in Records(run) : line.status = status})

Normalized(run) == run.ending # "truncated" /\ ~BoundHit(run)

(* Cargo output is recognised by a diagnostic, a test or a summary.         *)
Recognized(run) ==
    run.tool = "cargo" => Records(run) # {} \/ Summary(run) # None

(* stop: called with an option that stops at the first failure (-x), or,    *)
(* for cargo, neither with --no-fail-fast nor for one exact harness.        *)
StopArgs(run) == run.tool \in Pytest /\ run.stop
FailFast(run) == run.tool = "cargo" /\ run.stop

(* What the three normalizers believe before the cross-check: that all of   *)
(* the selection has run.                                                   *)
PytestTextExhaustive(run) ==
    Normalized(run) /\ Summary(run) # None /\ ~StopArgs(run)

PytestJsonExhaustive(run) ==
    /\ Normalized(run)
    /\ Exit(run) \in {"success", "failure"}
    /\ ~StopArgs(run) /\ Deselected(run) = 0

CargoExhaustive(run) ==
    /\ Normalized(run) /\ Recognized(run)
    /\ Summary(run) # None
    /\ FailFast(run) => Observed(run, "failed") = 0 /\ Summary(run)["failed"] = 0

(* The cross-checks of verification.rs: of the summary, the named tests and *)
(* the exit with each other.  Without a summary nothing is proved.          *)
PytestRan(summary) == summary["passed"] + summary["failed"] + summary["error"] > 0
PytestFailures(summary) == summary["failed"] + summary["error"]

PytestJsonCompletion(run) ==
    LET summary == Summary(run)
    IN  IF \/ \E status \in Status : Observed(run, status) # summary[status]
           \/ /\ Exit(run) \in {"success", "failure"}
              /\ (Exit(run) = "success") # (PytestFailures(summary) = 0)
        THEN "conflicting"
        ELSE IF ~PytestRan(summary) \/ Deselected(run) > 0 \/ Exit(run) = "abnormal"
        THEN "unproven"
        ELSE IF summary["skipped"] > 0 THEN "skipped" ELSE "consistent"

PytestTextCompletion(run) ==
    LET summary == Summary(run)
    IN  IF \/ \E status \in Status : Observed(run, status) > summary[status]
           \/ /\ Exit(run) \in {"success", "failure"}
              /\ (Exit(run) = "success") # (PytestFailures(summary) = 0)
        THEN "conflicting"
        ELSE IF ~PytestRan(summary) \/ Deselected(run) > 0 \/ Exit(run) = "abnormal"
        THEN "unproven"
        ELSE IF summary["skipped"] > 0 THEN "skipped" ELSE "consistent"

CargoCompletion(run) ==
    LET summary == Summary(run)
    IN  IF \/ Exit(run) = "success" /\ summary["failed"] > 0
           \/ Observed(run, "failed") > 0 /\ summary["failed"] = 0
        THEN "conflicting"
        ELSE IF \/ Exit(run) # "success" /\ summary["failed"] = 0
                \/ Exit(run) = "abnormal"
                \/ summary["passed"] + summary["failed"] = 0
                \/ Deselected(run) > 0
        THEN "unproven"
        ELSE IF summary["skipped"] > 0 THEN "skipped" ELSE "consistent"

SeemsExhaustive(run) ==
    CASE run.tool = "pytest_text" -> PytestTextExhaustive(run)
      [] run.tool = "pytest_json" -> PytestJsonExhaustive(run)
      [] run.tool = "cargo" -> CargoExhaustive(run)

Completion(run) ==
    IF Summary(run) = None THEN "unproven"
    ELSE CASE run.tool = "pytest_text" -> PytestTextCompletion(run)
           [] run.tool = "pytest_json" -> PytestJsonCompletion(run)
           [] run.tool = "cargo" -> CargoCompletion(run)

(* constrain_completion: a completion that is not confirmed takes the claim *)
(* back; skips the runner itself reports are marked as the only gap.        *)
ProviderComplete(run) ==
    /\ Normalized(run) /\ Recognized(run)
    /\ Completion(run) # "conflicting"

ProviderSelection(run) ==
    [exhaustive |-> SeemsExhaustive(run) /\ Completion(run) = "consistent",
     onlySkips |-> SeemsExhaustive(run) /\ Completion(run) = "skipped"]

(* run_command_with: declared scopes replace the provider's, but a claim of *)
(* exhaustiveness needs both.                                               *)
Selection(run) ==
    LET provider == ProviderSelection(run)
    IN  IF run.tool \notin Providers
        THEN [scopes |-> run.scopes, exhaustive |-> run.declared,
              onlySkips |-> FALSE]
        ELSE IF run.scopes = {}
        THEN [scopes |-> {"all"}, exhaustive |-> provider.exhaustive,
              onlySkips |-> provider.onlySkips]
        ELSE [scopes |-> run.scopes,
              exhaustive |-> run.declared /\ provider.exhaustive,
              onlySkips |-> run.declared /\ provider.onlySkips]

-----------------------------------------------------------------------------
(* TestPopulation::from_payload: what a later comparison can know.  A test  *)
(* with two records has the status that sorts last.                         *)
Named(run) ==
    [t \in {line.test : line \in Records(run)} |->
        LET statuses == {line.status : line \in {l \in Records(run) : l.test = t}}
        IN  IF "skipped" \in statuses THEN "skipped"
            ELSE IF "passed" \in statuses THEN "passed"
            ELSE IF "failed" \in statuses THEN "failed" ELSE "error"]

Population(run) ==
    LET summary == Summary(run)
    IN  [tests |-> Named(run),
         counted |-> summary # None,
         executed |-> IF summary = None THEN 0
                      ELSE summary["passed"] + summary["failed"] + summary["error"],
         failing |-> IF summary = None THEN 0
                     ELSE summary["failed"] + summary["error"],
         skipped |-> IF summary = None THEN 0 ELSE summary["skipped"],
         skippedTests |-> {line.test : line \in {l \in Records(run) :
                                                    l.status = "skipped"}}]
=============================================================================
