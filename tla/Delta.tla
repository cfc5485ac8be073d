-------------------------------- MODULE Delta --------------------------------
(***************************************************************************)
(* prog delta (prog-core/src/delta.rs, prog-cli/src/commands/delta.rs):    *)
(* what became of the findings of one capture in a later one.              *)
(*                                                                         *)
(* The same suite is run at several times; between two runs anything may   *)
(* happen to a test.  A capture keeps what prog recorded of a run, and its *)
(* payload may be lost before it is compared.  The run itself stays in the *)
(* state, for the properties to compare what a delta claims with what      *)
(* happened.  A finding is a failing test with the status it is shown      *)
(* with, its fingerprint; wording and limits of the report are abstracted. *)
(***************************************************************************)
EXTENDS TestRuns, Sequences

CONSTANTS
    Runs,           \* what may happen and be called, for each of the tools
    ScopeOf,        \* the path of a test: one of the scopes that may be declared
    SourceStates,   \* what a capture may know of its source's state
    MaxRuns         \* bound: captures made


VARIABLES
    captures,       \* the observations made, with the runs they are of
    available,      \* which of them still have their payload
    report          \* the last delta, or None

deltaVars == <<captures, available, report>>

-----------------------------------------------------------------------------
(* What is recorded of a run. *)

(* Exited, untruncated and, with a provider, completely normalised: what    *)
(* record_capture calls able to prove absence.                              *)
CanProve(run) == /\ run.ending # "truncated"
                 /\ run.tool \in Providers => ProviderComplete(run)

(* The state of a source is a change token it sent, if any, and how the     *)
(* capture assessed it; a command is a source that cannot have changed.     *)
Observation(run, source) ==
    [run |-> run,
     selection |-> Selection(run),
     canProve |-> CanProve(run),
     token |-> source.token,
     validity |-> source.validity]

(* delta_findings_for_observation: nothing, if the payload is gone.  What a  *)
(* check that is no test runner shows is what it has looked at and found.   *)
Findings(capture, isAvailable) ==
    IF ~isAvailable THEN {}
    ELSE {line \in Lines(capture.run) : line.status \in Failing}

PopulationOf(capture, isAvailable) ==
    IF isAvailable /\ capture.run.tool \in Providers
    THEN Population(capture.run) ELSE None

(* A check that is called with declared scopes looks at all that is in them  *)
(* and at nothing else.                                                      *)
ASSUME DeltaAssumption ==
    /\ MaxRuns \in Nat
    /\ \A run \in Runs : Population(run) # None
    /\ \A run \in Runs, t \in Test :
          run.tool \notin Providers /\ run.declared =>
              (run.outcome[t] = "filtered" <=> ScopeOf[t] \notin run.scopes)

-----------------------------------------------------------------------------
(* Comparability. *)

(* An author that names no scopes leaves them unknown.                      *)
ScopeRelationship(before, after) ==
    LET b == before.selection.scopes
        s == after.selection.scopes
    IN  IF b = {} \/ s = {} THEN "unknown"
        ELSE IF b = s THEN "equal"
        ELSE IF b \subseteq s THEN "superset"
        ELSE IF s \subseteq b THEN "subset"
        ELSE IF b \intersect s = {} THEN "disjoint" ELSE "overlap"

(* source_validity: what the later capture says against itself wins, then   *)
(* two tokens are compared, and with one of two nothing is known.           *)
SourceValidity(before, after) ==
    IF after.validity = "changed" THEN "changed"
    ELSE CASE before.token # None /\ after.token # None ->
                 IF before.token = after.token THEN "confirmed" ELSE "changed"
           [] before.token = None /\ after.token = None -> after.validity
           [] OTHER -> "unknown"

(* shared_skipped_tests: skips are the only gap of both, and the same named *)
(* tests were skipped.                                                      *)
SharedSkips(before, after, old, new) ==
    /\ before.selection.onlySkips /\ after.selection.onlySkips
    /\ old # None /\ new # None
    /\ old.skipped > 0 /\ new.skipped = old.skipped
    /\ Cardinality(old.skippedTests) = old.skipped
    /\ old.skippedTests = new.skippedTests

Exhaustive(capture, sharedSkips) ==
    \/ capture.selection.exhaustive
    \/ sharedSkips /\ capture.selection.onlySkips

SameInvocation(before, after) ==
    /\ before.run.tool = after.run.tool
    /\ before.run.stop = after.run.stop
    /\ before.run.scopes = after.run.scopes
    /\ before.run.declared = after.run.declared

(* assess.  Source, operation, comparison family and parser are the tool's. *)
Comparable(before, after, isAvailable, sharedSkips) ==
    /\ SameInvocation(before, after)
    /\ ScopeRelationship(before, after) \in {"equal", "superset"}
    /\ before.canProve /\ after.canProve
    /\ Exhaustive(before, sharedSkips) /\ Exhaustive(after, sharedSkips)
    /\ isAvailable
    /\ SourceValidity(before, after) = "confirmed"

(* test_population_reasons: no reason against it, that is, nothing says     *)
(* that less was run, and every test that failed is named again.            *)
FailingNames(population) ==
    {t \in DOMAIN population.tests : population.tests[t] \in Failing}

SamePopulationByCount(old, new) ==                           \* faulty
    old # None => /\ new # None
                  /\ new.executed >= old.executed

SamePopulation(old, new) ==
    old # None =>
        /\ new # None
        /\ old.counted /\ new.counted => new.executed >= old.executed
        /\ old.counted => old.failing <= Cardinality(FailingNames(old))
        /\ \A t \in FailingNames(old) :
              /\ t \in DOMAIN new.tests
              /\ new.tests[t] \in {"passed", "failed", "error"}

(* finding_is_outside_subject_coverage, and the targeted rerun before it.   *)
NotLookedFor(finding, before, after) ==
    \/ ~after.selection.exhaustive /\ after.selection.scopes # {}
    \/ ScopeRelationship(before, after) = "disjoint"
    \/ /\ ScopeRelationship(before, after) \in {"subset", "overlap"}
       /\ after.selection.exhaustive
       /\ ScopeOf[finding.test] \notin after.selection.scopes

(* compare_observations_with_tests: a status for every fingerprint of the   *)
(* two captures.                                                            *)
StatusOf(finding, before, after, old, new, proven) ==
    IF finding \in new THEN IF finding \in old THEN "persisting" ELSE "new"
    ELSE IF proven THEN "resolved"
    ELSE IF NotLookedFor(finding, before, after) THEN "not_observed" ELSE "unknown"

Compare(before, after, hasBefore, hasAfter) ==
    LET old == Findings(before, hasBefore)
        new == Findings(after, hasAfter)
        oldTests == PopulationOf(before, hasBefore)
        newTests == PopulationOf(after, hasAfter)
        proven == /\ Comparable(before, after, hasBefore /\ hasAfter,
                                SharedSkips(before, after, oldTests, newTests))
                  /\ SamePopulation(oldTests, newTests)
    IN  [proven |-> proven,
         status |-> [finding \in old \union new |->
                        StatusOf(finding, before, after, old, new, proven)]]

-----------------------------------------------------------------------------
(* Actions. *)

DeltaInit == captures = <<>> /\ available = {} /\ report = None

(* prog run of the tests, or a call of a source whose answer lists findings. *)
Capture ==
    /\ Len(captures) < MaxRuns
    /\ \E run \in Runs, source \in SourceStates :
          /\ run.tool \in Providers =>
                source = [token |-> None, validity |-> "confirmed"]
          /\ captures' = Append(captures, Observation(run, source))
    /\ available' = available \union {Len(captures) + 1}
    /\ report' = None

(* Retention or a purge takes a payload; the observation stays, downgraded. *)
LoseCapture ==
    /\ Len(captures) = MaxRuns
    /\ \E i \in available : available' = available \ {i}
    /\ report' = None
    /\ UNCHANGED captures

CompareCaptures ==
    \E i, j \in DOMAIN captures :
        /\ i # j
        /\ report' = [before |-> i, after |-> j,
                      delta |-> Compare(captures[i], captures[j],
                                        i \in available, j \in available)]
        /\ UNCHANGED <<captures, available>>

DeltaNext == Capture \/ LoseCapture \/ CompareCaptures
DeltaSpec == DeltaInit /\ [][DeltaNext]_deltaVars

(* What a delta rests on: the captures are of runs, and the report compares  *)
(* two of them as they are.                                                  *)
DeltaInv ==
    /\ captures \in Seq({captures[i] : i \in DOMAIN captures})
    /\ \A i \in DOMAIN captures :
          /\ captures[i].run \in Runs
          /\ captures[i] = Observation(captures[i].run, captures[i])
    /\ report # None =>
          \E i, j \in DOMAIN captures :
              report = [before |-> i, after |-> j,
                        delta |-> Compare(captures[i], captures[j],
                                          i \in available, j \in available)]

-----------------------------------------------------------------------------
(* Properties. *)

WithStatus(status) ==
    {finding \in DOMAIN report.delta.status :
        report.delta.status[finding] = status}

(* What a finding is about ran again: the test, or a check that covers it.  *)
RanAgain(run, test) ==
    IF run.tool \in Providers THEN run.outcome[test] \in Executed
    ELSE run.outcome[test] # "filtered"

(* A delta calls a failure resolved only if the test that failed ran again  *)
(* to its end and did not fail so: not if it was deleted, skipped, filtered *)
(* out or not reached, nor if its failure is in output that was not kept.   *)
(* delta.rs, test_population_reasons: "a disappeared failure only means     *)
(* fixed when the same test ran again and passed".                          *)
ResolvedRanAgain ==
    report # None =>
        \A finding \in WithStatus("resolved") :
            LET run == captures[report.after].run
            IN  /\ RanAgain(run, finding.test)
                /\ finding.status \notin
                     Reported(run.tool, run.outcome[finding.test])
=============================================================================
