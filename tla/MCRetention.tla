----------------------------- MODULE MCRetention -----------------------------
(***************************************************************************)
(* An instance of CaptureProcesses with a retention policy, for TLC: two   *)
(* calls of two sources, whose answers may be the same payload, or tasks   *)
(* next to a call that may or may not cache, within the first second.      *)
(* Nothing tells the calls and their sources apart, so both are exchanged  *)
(* together.                                                               *)
(***************************************************************************)
EXTENDS MCCapture

TwoCallsOrTask == TwoKeys \cup {i1}

Calling == {p \in Process : run[p].call # None}
Refreshing == {p \in Process : run[p].refresh}

CallsAlone ==
    /\ \A p \in Process : /\ run[p].task = None /\ run[p].answer # "error"
                          /\ run[p].call # None => run[p].mayCache
    /\ \A k \in Key : db.entries[k] # None => ~db.entries[k].failed
    /\ db.invocationLatest[i1] = None /\ Cardinality(Refreshing) <= 1
TasksAtOnce ==
    /\ now = 1 /\ db.tokensIssued = 0
    /\ Cardinality(Calling) <= 1 /\ Refreshing = {}

Apart == CallsAlone \/ TasksAtOnce

Exchange == (c1 :> c2) @@ (c2 :> c1) @@ (s1 :> s2) @@ (s2 :> s1)
Exchanges == Symmetry \cup {Exchange} \cup {p @@ Exchange : p \in Symmetry}
=============================================================================
