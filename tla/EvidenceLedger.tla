--------------------------- MODULE EvidenceLedger ---------------------------
(***************************************************************************)
(* What the evidence store promises its callers, without processes, keys,  *)
(* entries or expiry: an append-only ledger of captures and the tokens     *)
(* that were handed out for them.                                          *)
(*                                                                         *)
(*   - a capture once recorded is never rewritten, only erased by a purge  *)
(*     of everything; identifiers are never issued twice;                  *)
(*   - each capture names the capture of its invocation recorded before it;*)
(*   - a capture's evidence can be lost and never comes back;              *)
(*   - a token bound to a capture reads that capture's payload or nothing, *)
(*     and a revoked token never works again.                              *)
(***************************************************************************)
EXTENDS Naturals

CONSTANTS Hash, Invocation, MaxObservation, MaxToken, None

ObservationId == 1 .. MaxObservation
Token == 1 .. MaxToken
Capture == [hash : Hash, invocation : Invocation,
            supersedes : ObservationId \cup {None},
            revalidates : ObservationId \cup {None}]

VARIABLES
    ledger,    \* ledger[o]: the capture o, None before it and once erased
    live,      \* the captures whose evidence is still claimed recoverable
    promise,   \* promise[t]: the capture t is bound to, None otherwise
    view,      \* view[t]: the payload t reads now, None if it fails
    issued     \* how many captures and tokens were ever issued

vars == <<ledger, live, promise, view, issued>>

Init == /\ ledger = [o \in ObservationId |-> None]
        /\ live = {}
        /\ promise = [t \in Token |-> None]
        /\ view = [t \in Token |-> None]
        /\ issued = [captures |-> 0, tokens |-> 0]

\* The previous capture of an invocation: the newest one since the last purge.
Previous(i) ==
    LET earlier == {o \in ObservationId :
                      ledger[o] # None /\ ledger[o].invocation = i}
    IN  IF earlier = {} THEN None
        ELSE CHOOSE o \in earlier : \A q \in earlier : q <= o

\* A bound token never reads anything but the payload of its capture.
Honest == \A t \in Token :
    promise[t] # None => view[t] \in {ledger[promise[t]].hash, None}

Record ==
    LET o == issued.captures + 1
    IN  /\ o \in ObservationId
        /\ issued' = [issued EXCEPT !.captures = o]
        /\ \E c \in Capture :
              /\ c.supersedes = Previous(c.invocation)
              /\ c.revalidates # None => ledger[c.revalidates] # None
                                         /\ ledger[c.revalidates].hash = c.hash
              /\ ledger' = [ledger EXCEPT ![o] = c]
        /\ live' \in {live, live \cup {o}}
        /\ UNCHANGED promise

\* The evidence of some captures is lost and the tokens T are revoked.
Forget(T) ==
    /\ live' \in SUBSET live
    /\ promise' = [t \in Token |-> IF t \in T THEN None ELSE promise[t]]
    /\ UNCHANGED <<ledger, issued>>

\* A token is issued, bound to a recorded capture or to none.
Issue(o) ==
    LET t == issued.tokens + 1
    IN  /\ t \in Token
        /\ o # None => ledger[o] # None
        /\ live' \in SUBSET live
        /\ promise' = [promise EXCEPT ![t] = o]
        /\ issued' = [issued EXCEPT !.tokens = t]
        /\ UNCHANGED ledger

\* Purging everything keeps nothing but the identifiers' freshness.
Erase ==
    /\ ledger' = [o \in ObservationId |-> None]
    /\ live' = {}
    /\ promise' = [t \in Token |-> None]
    /\ UNCHANGED issued

Next == /\ \/ Record
           \/ \E T \in SUBSET Token : Forget(T)
           \/ \E o \in ObservationId \cup {None} : Issue(o)
           \/ Erase
        /\ view' \in [Token -> Hash \cup {None}]
        /\ Honest'

Spec == Init /\ [][Next]_vars
=============================================================================
