------------------------------ MODULE MCCapture ------------------------------
(***************************************************************************)
(* Instances of CaptureProcesses for TLC: one call, or two calls of two     *)
(* sources, or a task; a failed refresh of c1 has a key for every second.  *)
(***************************************************************************)
EXTENDS CaptureProcesses, TLC

CONSTANTS p1, p2, c1, c2, e1, e2, e3, i1, s1, s2

Keys == {c1, e1, e2, e3}
Hashes == {1, 2}
OneSource == {s1}
Invocations == {c1, i1}
OneCall == {c1}
NoTask == {}
OneTask == {i1}
SourceOfOne == [c \in OneCall |-> s1]
ErrorKeys == [c \in OneCall |-> [t \in Time |-> <<e1, e2, e3>>[t]]]

TwoKeys == {c1, c2}
TwoSources == {s1, s2}
SourceOfTwo == [c \in TwoKeys |-> IF c = c1 THEN s1 ELSE s2]
NoErrorKeys == [c \in TwoKeys |-> [t \in Time |-> c]]

Sizes == [h \in Hashes |-> h]
NoPolicies == {}
Limit(maxBytes, maxAge) == [maxBytes |-> maxBytes, maxAge |-> maxAge]
OneQuota == {Limit(1, None)}
AgeAndQuota == {Limit(2, 1)}
Symmetry == Permutations(Process)
=============================================================================
