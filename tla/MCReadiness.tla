----------------------------- MODULE MCReadiness -----------------------------
(***************************************************************************)
(* An instance of Readiness for TLC: one entity that is old, later new or  *)
(* still old, at this or the next version, and one check that passed.      *)
(***************************************************************************)
EXTENDS Readiness, TLC

CONSTANTS p1, p2, check, entity, old, new, get, test, tree1, tree2,
          passing, failing

OneState == {old, new}
Outcomes == {passing, failing}
CommandOutcomes ==
    [c \in Outcomes |-> IF c = passing THEN "passed" ELSE "failed"]
Shown(v, s) == [id |-> entity, version |-> v, state |-> s]
Seen(c, op, tree) ==
    [payload |-> c, availability |-> "recoverable", conflict |-> FALSE,
     validity |-> "unknown", complete |-> TRUE, workspace |-> tree,
     operation |-> op]
Answered == {<<Seen(Shown(1, new), get, None), FALSE>>,
             <<Seen(Shown(2, old), get, None), FALSE>>,
             <<Seen(Shown(2, new), get, None), FALSE>>,
             <<Seen(failing, get, None), TRUE>>}
Others == {Seen(Shown(1, old), get, None), Seen(passing, test, tree1)}
ACheck == {[required |-> TRUE, state |-> "any", operation |-> test]}
LostEvidence == {o \in ObservationId :
                    Recorded(db, o) /\ db.observations[o].availability \notin Live}
\* Parts that are explored one at a time: a check, with its tree, next to an
\* intent until the first receipt, and two receipts of an intent without a
\* check; one read-back with a mutation response, and two that overlap.  One
\* payload is lost, by all or some of its observations; time passes when there
\* is an intent and no check; the session starts first, and after a purge only
\* what was running continues.
Apart ==
    /\ IF \A s \in Session : ~Declared(db, s, check)
       THEN workspace = tree1 ELSE issued.receipts = 0 /\ now = 1
    /\ \A p \in Process : run[p].mutation # None =>
          /\ \A q \in Process \ {p} : run[q] = Idle
          /\ issued.receipts = 0 \/ run[p].pc = "receipt"
    /\ \A o, x \in LostEvidence :
          db.observations[o].payload = db.observations[x].payload
    /\ issued.intents = 0 => now = 1
    /\ db.current = None =>
          issued.observations = 0 \/ \E p \in Process : run[p] # Idle
Symmetry == Permutations(Process)
=============================================================================
