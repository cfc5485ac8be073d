-------------------------- MODULE ReadinessProofs --------------------------
(***************************************************************************)
(* For any number of processes, sessions, intents and receipts, with       *)
(* crashes between any two transactions and whatever becomes of the        *)
(* evidence: the store of obligations, intents and receipts stays          *)
(* consistent, and a session that is ready has the evidence.  The argument *)
(* is RInv.  A transaction keeps StoreHolds if the command that commits it *)
(* still knows what it learnt before; what a command knows survives the    *)
(* steps of the others because between two transactions it holds the       *)
(* database, and because what it knows while it waits for the source can   *)
(* only be purged as a whole (Grows).                                      *)
(***************************************************************************)
EXTENDS Readiness, TLAPS

\* None completes the types.
LEMMA NoneIsNoValue ==
    /\ None \notin Process /\ None \notin Identity /\ None \notin Version
    /\ None \notin State /\ None \notin Workspace /\ None \notin ObservationId
    /\ None \notin Intent /\ None \notin Receipt /\ None \notin Session
    /\ None \notin Observation /\ None \notin ActionIntent
    /\ None \notin ReadbackReceipt /\ None \notin Obligation
    /\ ObservationId \subseteq Nat /\ Intent \subseteq Nat
    /\ Receipt \subseteq Nat /\ Session \subseteq Nat
  BY NoneAssumption, BoundsAssumption
  DEF ObservationId, Intent, Receipt, Session

LEMMA DbFields ==
    ASSUME NEW d \in Db
    PROVE  /\ d.payloads \in SUBSET Payload
           /\ d.observations \in [ObservationId -> Maybe(Observation)]
           /\ d.obligations \in [Session \X Claim -> Maybe(Obligation)]
           /\ d.intents \in [Intent -> Maybe(ActionIntent)]
           /\ d.receipts \in [Receipt -> Maybe(ReadbackReceipt)]
           /\ d.current \in Maybe(Session)
  BY DEF Db

LEMMA IssuedFields ==
    ASSUME NEW n \in Issued
    PROVE  /\ n.observations \in Nat /\ n.intents \in Nat /\ n.receipts \in Nat
           /\ n.sessions \in Nat
  BY BoundsAssumption DEF Issued

LEMMA RunFields ==
    ASSUME NEW r \in Run
    PROVE  /\ r.pc \in Steps /\ r.claim \in Maybe(Intent)
           /\ r.intent \in Maybe(ActionIntent)
           /\ r.mutation \in Maybe(ObservationId)
           /\ r.readback \in Maybe(ObservationId)
           /\ r.failed \in BOOLEAN /\ r.receipt \in Maybe(Receipt)
  BY DEF Run

LEMMA IntentFields ==
    ASSUME NEW i \in ActionIntent
    PROVE  /\ i.session \in Session /\ i.pre \in ObservationId
           /\ i.identity \in Identity /\ i.version \in Version
           /\ i.expected \in State /\ i.until \in Maybe(Time)
  BY DEF ActionIntent

-----------------------------------------------------------------------------
(* Commands that do not move.                                              *)

\* What a step leaves to the commands that wait for the source: intents are
\* not changed unless everything is purged, except the one in `own`, and what
\* was purged is not recorded again.
Grows(d, n, e, m, own) ==
    /\ n.observations <= m.observations /\ n.intents <= m.intents
    /\ \A o \in ObservationId :
          o <= n.observations /\ Recorded(e, o) => Recorded(d, o)
    /\ \A i \in Intent : i # own =>
          \/ e.intents[i] = d.intents[i]
          \/ e.intents[i] = None /\ \A o \in ObservationId : ~Recorded(e, o)

LEMMA WaitingKnows ==
    ASSUME NEW d \in Db, NEW n \in Issued, NEW e \in Db, NEW m \in Issued,
           NEW own, Grows(d, n, e, m, own),
           NEW r \in Run, r.pc \in {"idle", "asked"}, Knows(d, n, r),
           r.pc # "idle" => r.claim # own
    PROVE  Knows(e, m, r)
  <1>1. CASE r.pc = "idle"
    BY <1>1 DEF Knows
  <1>2. CASE r.pc = "asked"
    <2>1. /\ r.claim \in Intent /\ r.claim <= n.intents /\ r.claim # own
          /\ r.intent \in ActionIntent /\ r.intent.pre <= n.observations
          /\ d.intents[r.claim] \in {None, r.intent}
          /\ Recorded(d, r.intent.pre) => d.intents[r.claim] # None
      BY <1>2, RunFields DEF Knows, Maybe
    <2>2. r.intent.pre \in ObservationId
      BY <2>1, IntentFields
    <2>3. /\ r.claim <= m.intents /\ r.intent.pre <= m.observations
      <3>1. /\ r.claim \in Nat /\ n.intents \in Nat /\ m.intents \in Nat
            /\ r.intent.pre \in Nat /\ n.observations \in Nat
            /\ m.observations \in Nat
        BY <2>1, <2>2, NoneIsNoValue, IssuedFields
      <3>2. n.intents <= m.intents /\ n.observations <= m.observations
        BY DEF Grows
      <3> QED  BY <2>1, <3>1, <3>2
    <2>4. /\ e.intents[r.claim] \in {None, r.intent}
          /\ Recorded(e, r.intent.pre) => e.intents[r.claim] # None
      BY <2>1, <2>2 DEF Grows
    <2> QED  BY <1>2, <2>1, <2>3, <2>4, NoneIsNoValue DEF Knows
  <1> QED  BY <1>1, <1>2

LEMMA IdleCommand ==
    /\ Idle \in Run /\ Idle.pc = "idle" /\ Idle.pc \notin Holding
    /\ Idle.claim = None /\ \A d, n : Knows(d, n, Idle)
  BY DEF Idle, Run, Steps, Maybe, Holding, Knows

\* What the invariant says of each process.
LEMMA Parts ==
    ASSUME RInv
    PROVE  /\ db \in Db /\ issued \in Issued /\ workspace \in Workspace
           /\ now \in Time /\ handle \in Maybe(Process)
           /\ run \in [Process -> Run]
           /\ StoreHolds(db, issued)
           /\ \A p \in Process :
                 /\ handle = p <=> run[p].pc \in Holding
                 /\ Knows(db, issued, run[p])
                 /\ run[p].pc = "begun" =>
                       \A q \in Process \ {p} : run[q].claim # run[p].claim
  BY Zenon DEF RInv, TypeOK, Holds

\* A step of the process p that becomes the command r: the others keep what
\* they know, because a step that writes the store is taken by the process that
\* has it or while nobody has it.
LEMMA StepOfCommand ==
    ASSUME RInv, NEW p \in Process, NEW r \in Run, NEW own,
           run' = [run EXCEPT ![p] = r],
           workspace' \in Workspace, now' \in Time,
           StoreHolds(db', issued'), Knows(db', issued', r),
           (handle' = p) <=> (r.pc \in Holding),
           \/ /\ handle' = handle /\ db' = db /\ issued' = issued
              /\ r.claim \in {None, run[p].claim}
           \/ /\ handle \in {None, p} /\ handle' \in {None, p}
              /\ Grows(db, issued, db', issued', own)
              /\ \A q \in Process \ {p} :
                    run[q].pc # "idle" => run[q].claim # own,
           r.pc = "begun" => \A q \in Process \ {p} : run[q].claim # r.claim
    PROVE  RInv'
  <1>1. /\ db \in Db /\ issued \in Issued /\ handle \in Maybe(Process)
        /\ run \in [Process -> Run]
        /\ \A q \in Process :
              /\ handle = q <=> run[q].pc \in Holding
              /\ Knows(db, issued, run[q])
              /\ run[q].pc = "begun" =>
                    \A o \in Process \ {q} : run[o].claim # run[q].claim
    BY Parts, Zenon
  <1>2. /\ run' \in [Process -> Run]
        /\ run'[p] = r
        /\ \A q \in Process \ {p} : run'[q] = run[q]
    BY <1>1
  <1>3. db' \in Db /\ issued' \in Issued /\ handle' \in Maybe(Process)
    BY <1>1 DEF Maybe, StoreHolds
  <1>4. TypeOK'
    BY <1>2, <1>3, Zenon DEF TypeOK
  <1>5. ASSUME NEW q \in Process
        PROVE  /\ handle' = q <=> run'[q].pc \in Holding
               /\ Knows(db', issued', run'[q])
               /\ run'[q].pc = "begun" =>
                     \A o \in Process \ {q} : run'[o].claim # run'[q].claim
    <2>1. CASE q = p
      BY <1>2, <2>1
    <2>2. CASE q # p
      <3>1. run'[q] = run[q] /\ q # None /\ run[q] \in Run
        BY <1>1, <1>2, <2>2, NoneIsNoValue
      <3>2. CASE handle' = handle /\ db' = db /\ issued' = issued
                 /\ r.claim \in {None, run[p].claim}
        <4>1. run[q].pc = "begun" => run[q].claim # None
          BY <1>1 DEF Knows
        <4>2. run[q].pc = "begun" =>
                 \A o \in Process \ {q} : run'[o].claim # run[q].claim
          BY <1>1, <1>2, <2>2, <3>2, <4>1
        <4> QED  BY <1>1, <3>1, <3>2, <4>2
      <3>3. CASE /\ handle \in {None, p} /\ handle' \in {None, p}
                 /\ Grows(db, issued, db', issued', own)
                 /\ \A o \in Process \ {p} :
                       run[o].pc # "idle" => run[o].claim # own
        <4>1. run[q].pc \notin Holding
          BY <1>1, <2>2, <3>1, <3>3
        <4>2. run[q].pc \in {"idle", "asked"}
          BY <3>1, <4>1, RunFields DEF Steps, Holding
        <4>3. Knows(db', issued', run[q])
          BY <1>1, <1>3, <2>2, <3>1, <3>3, <4>2, WaitingKnows
        <4> QED  BY <2>2, <3>1, <3>3, <4>1, <4>3 DEF Holding
      <3> QED  BY <3>2, <3>3
    <2> QED  BY <2>1, <2>2
  <1> QED  BY <1>4, <1>5, Zenon DEF RInv, Holds

\* Steps that move no process and write the store while nobody has it.
LEMMA StepOfNone ==
    ASSUME RInv, run' = run, handle' = handle,
           workspace' \in Workspace, now' \in Time,
           StoreHolds(db', issued'),
           \/ db' = db /\ issued' = issued
           \/ handle = None /\ Grows(db, issued, db', issued', None)
    PROVE  RInv'
  <1>1. /\ db \in Db /\ issued \in Issued /\ handle \in Maybe(Process)
        /\ run \in [Process -> Run]
        /\ \A q \in Process :
              /\ handle = q <=> run[q].pc \in Holding
              /\ Knows(db, issued, run[q])
              /\ run[q].pc = "begun" =>
                    \A o \in Process \ {q} : run[o].claim # run[q].claim
    BY Parts, Zenon
  <1>2. db' \in Db /\ issued' \in Issued
    BY DEF StoreHolds
  <1>3. TypeOK'
    BY <1>1, <1>2, Zenon DEF TypeOK
  <1>4. ASSUME NEW q \in Process
        PROVE  Knows(db', issued', run[q])
    <2>1. CASE db' = db /\ issued' = issued
      BY <1>1, <2>1
    <2>2. CASE handle = None /\ Grows(db, issued, db', issued', None)
      <3>1. run[q].pc \notin Holding /\ run[q] \in Run
        BY <1>1, <2>2, NoneIsNoValue
      <3>2. run[q].pc \in {"idle", "asked"}
        BY <3>1, RunFields DEF Steps, Holding
      <3>3. run[q].pc # "idle" => run[q].claim # None
        BY <1>1 DEF Knows
      <3> QED  BY <1>1, <1>2, <2>2, <3>1, <3>2, <3>3, WaitingKnows
    <2> QED  BY <2>1, <2>2
  <1> QED  BY <1>1, <1>3, <1>4, Zenon DEF RInv, Holds

-----------------------------------------------------------------------------
(* What becomes of evidence.                                               *)

\* Observations are added and downgraded, payloads come and go, and no more:
\* what is still live was left alone.
EvidenceStep(d, n, e, m) ==
    /\ e \in Db /\ m \in Issued
    /\ e.obligations = d.obligations /\ e.intents = d.intents
    /\ e.receipts = d.receipts
    /\ m.intents = n.intents /\ m.receipts = n.receipts
    /\ n.observations <= m.observations
    /\ EvidenceHolds(e)
    /\ \A o \in ObservationId :
          /\ o > m.observations => e.observations[o] = None
          /\ d.observations[o] # None =>
                /\ e.observations[o] # None
                /\ e.observations[o].payload = d.observations[o].payload
                /\ e.observations[o].availability \in Live =>
                      e.observations[o] = d.observations[o]
          /\ o <= n.observations /\ d.observations[o] = None =>
                e.observations[o] = None

LEMMA EvidenceStepKeeps ==
    ASSUME NEW d, NEW n, StoreHolds(d, n), NEW e, NEW m,
           EvidenceStep(d, n, e, m)
    PROVE  StoreHolds(e, m) /\ Grows(d, n, e, m, None)
  <1>1. d \in Db /\ n \in Issued /\ e \in Db /\ m \in Issued
    BY DEF StoreHolds, EvidenceStep
  <1>2. FreshIds(e, m)
    BY DEF FreshIds, StoreHolds, EvidenceStep, Declared
  <1>3. ObligationsHold(e)
    BY DEF ObligationsHold, StoreHolds, EvidenceStep
  <1>4. IntentsHold(e)
    <2>1. ASSUME NEW i \in Intent, e.intents[i] # None
          PROVE  Describes(e, e.intents[i]) /\ Declared(e, e.intents[i].session, i)
      <3>1. e.intents[i] = d.intents[i] /\ e.obligations = d.obligations
        BY DEF EvidenceStep
      <3>2. d.intents[i].pre \in ObservationId
        BY <1>1, <2>1, <3>1, DbFields, IntentFields DEF Maybe
      <3>3. Describes(d, d.intents[i]) /\ Declared(d, d.intents[i].session, i)
        BY <2>1, <3>1 DEF StoreHolds, IntentsHold
      <3> QED  BY <3>1, <3>2, <3>3 DEF Describes, Declared, EvidenceStep
    <2> QED  BY <2>1 DEF IntentsHold
  <1>5. VerdictsHold(e)
    <2>1. ASSUME NEW r \in Receipt, e.receipts[r] # None,
                 e.receipts[r].status = "verified"
          PROVE  Proves(e, e.receipts[r])
      <3> DEFINE receipt == d.receipts[r]
      <3>1. e.receipts[r] = receipt /\ e.intents = d.intents
        BY DEF EvidenceStep
      <3>2. receipt.readback \in Maybe(ObservationId)
        BY <1>1, <2>1, <3>1, DbFields DEF Maybe, ReadbackReceipt
      <3>3. Proves(d, receipt)
        BY <2>1, <3>1 DEF StoreHolds, VerdictsHold
      <3>4. receipt.readback \in ObservationId
        BY <3>2, <3>3 DEF Maybe, Proves
      <3> QED  BY <3>1, <3>3, <3>4 DEF Proves, EvidenceStep
    <2> QED  BY <2>1 DEF VerdictsHold
  <1>6. EvidenceHolds(e)
    BY DEF EvidenceStep
  <1>7. Grows(d, n, e, m, None)
    <2>1. n.intents <= m.intents
      BY <1>1, IssuedFields DEF EvidenceStep
    <2> QED  BY <2>1 DEF Grows, EvidenceStep, Recorded
  <1> QED  BY <1>1, <1>2, <1>3, <1>4, <1>5, <1>6, <1>7 DEF StoreHolds

LEMMA EvidenceStepsCompose ==
    ASSUME NEW d, NEW n \in Issued, NEW e, NEW m, NEW f,
           EvidenceStep(d, n, e, m), EvidenceStep(e, m, f, m)
    PROVE  EvidenceStep(d, n, f, m)
  <1>1. ASSUME NEW o \in ObservationId, o <= n.observations
        PROVE  o <= m.observations
    BY <1>1, IssuedFields, NoneIsNoValue DEF EvidenceStep
  <1> QED  BY <1>1 DEF EvidenceStep

LEMMA RecordFacts ==
    ASSUME NEW d \in Db, NEW o \in ObservationId, NEW c \in Observation
    PROVE  /\ Record(d, o, c) \in Db
           /\ Record(d, o, c).payloads = d.payloads \cup {c.payload}
           /\ Record(d, o, c).observations = [d.observations EXCEPT ![o] = c]
           /\ Record(d, o, c).obligations = d.obligations
           /\ Record(d, o, c).intents = d.intents
           /\ Record(d, o, c).receipts = d.receipts
           /\ Record(d, o, c).current = d.current
  <1>1. c.payload \in Payload
    BY DEF Observation
  <1>2. [d.observations EXCEPT ![o] = c] \in [ObservationId -> Maybe(Observation)]
    BY DbFields DEF Maybe
  <1> QED  BY <1>1, <1>2 DEF Record, Db

\* The identifier that is issued next.
LEMMA NextIsFree ==
    ASSUME NEW d, NEW n, StoreHolds(d, n)
    PROVE  /\ \A o \in ObservationId :
                o = n.observations + 1 => d.observations[o] = None
           /\ \A i \in Intent : i = n.intents + 1 =>
                d.intents[i] = None /\ \A s \in Session : ~Declared(d, s, i)
           /\ \A r \in Receipt : r = n.receipts + 1 => d.receipts[r] = None
  BY IssuedFields DEF StoreHolds, FreshIds

LEMMA IssueObservation ==
    ASSUME NEW n \in Issued, n.observations + 1 \in ObservationId,
           NEW m, m = [n EXCEPT !.observations = n.observations + 1]
    PROVE  /\ m \in Issued /\ m.observations = n.observations + 1
           /\ m.intents = n.intents /\ m.receipts = n.receipts
           /\ m.sessions = n.sessions
  BY BoundsAssumption DEF Issued, ObservationId

\* A capture is a step of evidence.
LEMMA RecordIsEvidenceStep ==
    ASSUME NEW d, NEW n, StoreHolds(d, n), NEW c \in Captured,
           NEW o \in ObservationId, o = n.observations + 1,
           NEW m, m = [n EXCEPT !.observations = o]
    PROVE  EvidenceStep(d, n, Record(d, o, c), m)
  <1>1. d \in Db /\ n \in Issued /\ c \in Observation /\ c.availability \in Live
    BY DEF StoreHolds, Captured
  <1>2. /\ m \in Issued /\ m.observations = o /\ m.intents = n.intents
        /\ m.receipts = n.receipts
    BY <1>1, IssueObservation
  <1>3. n.observations \in Nat /\ ObservationId \subseteq Nat
    BY <1>1, IssuedFields, NoneIsNoValue
  <1> DEFINE e == Record(d, o, c)
  <1>4. /\ e \in Db /\ e.payloads = d.payloads \cup {c.payload}
        /\ e.observations = [d.observations EXCEPT ![o] = c]
        /\ e.obligations = d.obligations /\ e.intents = d.intents
        /\ e.receipts = d.receipts
    BY <1>1, RecordFacts
  <1> HIDE DEF e
  <1>5. /\ e.observations[o] = c
        /\ \A x \in ObservationId \ {o} : e.observations[x] = d.observations[x]
    BY <1>1, <1>4, DbFields
  <1>6. EvidenceHolds(e)
    BY <1>4, <1>5 DEF EvidenceHolds, StoreHolds
  <1>7. ASSUME NEW x \in ObservationId
        PROVE  /\ x > m.observations => e.observations[x] = None
               /\ d.observations[x] # None =>
                     /\ e.observations[x] # None
                     /\ e.observations[x].payload = d.observations[x].payload
                     /\ e.observations[x].availability \in Live =>
                           e.observations[x] = d.observations[x]
               /\ x <= n.observations /\ d.observations[x] = None =>
                     e.observations[x] = None
    <2>1. CASE x = o
      <3>1. d.observations[o] = None
        BY NextIsFree
      <3> QED  BY <1>2, <1>3, <2>1, <3>1
    <2>2. CASE x # o
      <3>1. x > o => d.observations[x] = None
        BY <1>3 DEF StoreHolds, FreshIds
      <3> QED  BY <1>2, <1>5, <2>2, <3>1
    <2> QED  BY <2>1, <2>2
  <1>8. n.observations <= m.observations
    BY <1>2, <1>3
  <1> QED  BY <1>2, <1>4, <1>6, <1>7, <1>8 DEF EvidenceStep, e

\* An observation that is downgraded.
LEMMA DowngradeFacts ==
    ASSUME NEW e \in Observation, NEW a \in {"expired", "metadata_only"}
    PROVE  LET f == [e EXCEPT !.availability = a] IN
           /\ f \in Observation /\ f.availability = a /\ f.payload = e.payload
           /\ f # None /\ f.availability \notin Live
  BY NoneIsNoValue DEF Observation, Availability, Live

\* The loss of a payload is a step of evidence.
LEMMA LoseIsEvidenceStep ==
    ASSUME NEW d, NEW n, StoreHolds(d, n), NEW c
    PROVE  EvidenceStep(d, n, Lose(d, c), n)
  <1> DEFINE down(x) == [d.observations[x] EXCEPT !.availability = "metadata_only"]
             lost(x) == /\ d.observations[x] # None
                        /\ d.observations[x].payload = c
                        /\ d.observations[x].availability \in Live
             after == [x \in ObservationId |->
                          IF lost(x) THEN down(x) ELSE d.observations[x]]
             e == Lose(d, c)
  <1>1. d \in Db /\ n \in Issued /\ EvidenceHolds(d)
    BY DEF StoreHolds
  <1>2. \A x \in ObservationId : d.observations[x] \in Maybe(Observation)
    BY <1>1, DbFields
  <1>3. ASSUME NEW x \in ObservationId, d.observations[x] # None
        PROVE  /\ down(x) \in Observation /\ down(x) # None
               /\ down(x).payload = d.observations[x].payload
               /\ down(x).availability \notin Live
    BY <1>2, <1>3, DowngradeFacts DEF Maybe
  <1> HIDE DEF down
  <1>4. after \in [ObservationId -> Maybe(Observation)]
    BY <1>2, <1>3 DEF Maybe
  <1>5. e = [[d EXCEPT !.payloads = d.payloads \ {c}] EXCEPT !.observations = after]
    BY Zenon DEF Lose, down
  <1> HIDE DEF after
  <1>6. /\ e \in Db /\ e.payloads = d.payloads \ {c} /\ e.observations = after
        /\ e.obligations = d.obligations /\ e.intents = d.intents
        /\ e.receipts = d.receipts
    BY <1>1, <1>4, <1>5 DEF Db
  <1> HIDE DEF e
  <1>7. ASSUME NEW x \in ObservationId
        PROVE  e.observations[x] = IF lost(x) THEN down(x) ELSE d.observations[x]
    BY <1>6 DEF after
  <1> HIDE DEF lost
  <1>8. EvidenceHolds(e)
    <2>1. ASSUME NEW x \in ObservationId, e.observations[x] # None,
                 e.observations[x].availability \in Live
          PROVE  e.observations[x].payload \in e.payloads
      <3>1. ~lost(x)
        BY <1>3, <1>7, <2>1 DEF lost
      <3>2. e.observations[x] = d.observations[x]
        BY <1>7, <3>1
      <3>3. d.observations[x].payload \in d.payloads
        BY <1>1, <2>1, <3>2 DEF EvidenceHolds
      <3>4. d.observations[x].payload # c
        BY <2>1, <3>1, <3>2 DEF lost
      <3> QED  BY <1>6, <3>2, <3>3, <3>4
    <2> QED  BY <2>1 DEF EvidenceHolds
  <1>9. ASSUME NEW x \in ObservationId
        PROVE  /\ x > n.observations => e.observations[x] = None
               /\ d.observations[x] # None =>
                     /\ e.observations[x] # None
                     /\ e.observations[x].payload = d.observations[x].payload
                     /\ e.observations[x].availability \in Live =>
                           e.observations[x] = d.observations[x]
               /\ d.observations[x] = None => e.observations[x] = None
    <2>1. x > n.observations => d.observations[x] = None
      BY DEF StoreHolds, FreshIds
    <2>2. d.observations[x] = None => ~lost(x)
      BY DEF lost
    <2> QED  BY <1>3, <1>7, <2>1, <2>2
  <1>10. n.observations <= n.observations
    BY <1>1, IssuedFields
  <1> QED  BY <1>1, <1>6, <1>8, <1>9, <1>10, Zenon DEF EvidenceStep, e

\* Expiry is one, too.
LEMMA ExpiryIsEvidenceStep ==
    ASSUME NEW d, NEW n, StoreHolds(d, n), NEW o \in ObservationId,
           d.observations[o] # None,
           NEW e, e = [d EXCEPT !.observations[o].availability = "expired"]
    PROVE  EvidenceStep(d, n, e, n)
  <1> DEFINE f == [d.observations[o] EXCEPT !.availability = "expired"]
  <1>1. d \in Db /\ n \in Issued /\ EvidenceHolds(d)
    BY DEF StoreHolds
  <1>2. /\ d.observations \in [ObservationId -> Maybe(Observation)]
        /\ d.observations[o] \in Observation
    BY <1>1, DbFields DEF Maybe
  <1>3. /\ f \in Observation /\ f # None /\ f.availability \notin Live
        /\ f.payload = d.observations[o].payload
    BY <1>2, DowngradeFacts
  <1>4. e = [d EXCEPT !.observations = [d.observations EXCEPT ![o] = f]]
    OBVIOUS
  <1> HIDE DEF f
  <1>5. [d.observations EXCEPT ![o] = f] \in [ObservationId -> Maybe(Observation)]
    BY <1>2, <1>3 DEF Maybe
  <1>6. /\ e \in Db /\ e.payloads = d.payloads
        /\ e.observations = [d.observations EXCEPT ![o] = f]
        /\ e.obligations = d.obligations /\ e.intents = d.intents
        /\ e.receipts = d.receipts
    BY <1>1, <1>4, <1>5 DEF Db
  <1>7. /\ e.observations[o] = f
        /\ \A x \in ObservationId \ {o} : e.observations[x] = d.observations[x]
    BY <1>2, <1>6
  <1>8. EvidenceHolds(e)
    BY <1>1, <1>3, <1>6, <1>7 DEF EvidenceHolds
  <1>9. ASSUME NEW x \in ObservationId
        PROVE  /\ x > n.observations => e.observations[x] = None
               /\ d.observations[x] # None =>
                     /\ e.observations[x] # None
                     /\ e.observations[x].payload = d.observations[x].payload
                     /\ e.observations[x].availability \in Live =>
                           e.observations[x] = d.observations[x]
               /\ d.observations[x] = None => e.observations[x] = None
    <2>1. x > n.observations => d.observations[x] = None
      BY DEF StoreHolds, FreshIds
    <2> QED  BY <1>3, <1>7, <2>1
  <1>10. n.observations <= n.observations
    BY <1>1, IssuedFields
  <1> QED  BY <1>1, <1>6, <1>8, <1>9, <1>10, Zenon DEF EvidenceStep

\* An empty store holds, whatever was issued.
LEMMA EmptyHolds ==
    ASSUME NEW n \in Issued
    PROVE  /\ StoreHolds(Empty, n)
           /\ \A d : Grows(d, n, Empty, n, None)
  <1>1. /\ Empty \in Db
        /\ \A o \in ObservationId : Empty.observations[o] = None
        /\ \A s \in Session, c \in Claim : Empty.obligations[<<s, c>>] = None
        /\ \A i \in Intent : Empty.intents[i] = None
        /\ \A r \in Receipt : Empty.receipts[r] = None
    BY DEF Empty, Db, Maybe
  <1>2. Intent \subseteq Claim
    BY DEF Claim
  <1>3. StoreHolds(Empty, n)
    BY <1>1, <1>2
    DEF StoreHolds, FreshIds, EvidenceHolds, ObligationsHold, IntentsHold,
        VerdictsHold, Declared
  <1>4. \A d : Grows(d, n, Empty, n, None)
    BY <1>1, IssuedFields DEF Grows, Recorded
  <1> QED  BY <1>3, <1>4

-----------------------------------------------------------------------------
(* What becomes of declarations.                                           *)

\* The current session is no evidence.
LEMMA SessionIsEvidenceStep ==
    ASSUME NEW d, NEW n, StoreHolds(d, n), NEW s \in Session,
           s = n.sessions + 1, NEW m, m = [n EXCEPT !.sessions = s]
    PROVE  EvidenceStep(d, n, StartSession(d, s), m)
  <1>1. d \in Db /\ n \in Issued
    BY DEF StoreHolds
  <1>2. /\ m \in Issued /\ m.observations = n.observations
        /\ m.intents = n.intents /\ m.receipts = n.receipts
    BY <1>1, BoundsAssumption DEF Issued, Session
  <1> DEFINE e == StartSession(d, s)
  <1>3. /\ e \in Db /\ e.payloads = d.payloads
        /\ e.observations = d.observations /\ e.obligations = d.obligations
        /\ e.intents = d.intents /\ e.receipts = d.receipts
    BY <1>1 DEF StartSession, Db, Maybe
  <1> HIDE DEF e
  <1>4. n.observations \in Nat
    BY <1>1, IssuedFields
  <1>5. EvidenceStep(d, n, e, m)
    BY <1>2, <1>3, <1>4
    DEF EvidenceStep, StoreHolds, EvidenceHolds, FreshIds
  <1> QED  BY <1>5 DEF e

\* A declaration that does not exist yet.
LEMMA PutObligationKeeps ==
    ASSUME NEW d, NEW n, StoreHolds(d, n), NEW s \in Session,
           NEW claim \in Claim, NEW b \in Obligation, ~Declared(d, s, claim),
           b.receipt = None,
           claim \in Intent => /\ b.required /\ b.intent = claim
                               /\ b.evidence = None,
           NEW m \in Issued, m.observations = n.observations,
           m.receipts = n.receipts, n.intents <= m.intents,
           claim \in Intent => claim <= m.intents
    PROVE  /\ StoreHolds(PutObligation(d, s, claim, b), m)
           /\ Grows(d, n, PutObligation(d, s, claim, b), m, None)
  <1>1. d \in Db /\ n \in Issued
    BY DEF StoreHolds
  <1> DEFINE k == <<s, claim>>
             e == PutObligation(d, s, claim, b)
  <1>2. [d.obligations EXCEPT ![k] = b] \in [Session \X Claim -> Maybe(Obligation)]
    BY <1>1, DbFields DEF Maybe
  <1>3. /\ e \in Db /\ e.payloads = d.payloads
        /\ e.observations = d.observations
        /\ e.obligations = [d.obligations EXCEPT ![k] = b]
        /\ e.intents = d.intents /\ e.receipts = d.receipts
    BY <1>1, <1>2 DEF PutObligation, Db
  <1> HIDE DEF e
  <1>4. ASSUME NEW t \in Session, NEW c \in Claim
        PROVE  e.obligations[<<t, c>>] =
                  IF t = s /\ c = claim THEN b ELSE d.obligations[<<t, c>>]
    BY <1>1, <1>3, DbFields
  <1>5. Intent \subseteq Claim
    BY DEF Claim
  <1>6. ASSUME NEW i \in Intent, i > m.intents
        PROVE  e.intents[i] = None /\ \A t \in Session : ~Declared(e, t, i)
    <2>1. i \in Nat /\ n.intents \in Nat /\ m.intents \in Nat
      BY <1>1, IssuedFields, NoneIsNoValue
    <2>2. i > n.intents /\ i # claim
      BY <1>6, <2>1
    <2>3. d.intents[i] = None /\ \A t \in Session : ~Declared(d, t, i)
      BY <2>2 DEF StoreHolds, FreshIds
    <2> QED  BY <1>3, <1>4, <1>5, <2>2, <2>3 DEF Declared
  <1>7. FreshIds(e, m)
    BY <1>3, <1>6 DEF FreshIds, StoreHolds
  <1>8. ObligationsHold(e)
    <2>1. ASSUME NEW t \in Session, NEW c \in Claim,
                 e.obligations[<<t, c>>] # None
          PROVE  LET x == e.obligations[<<t, c>>] IN
                 /\ c \in Intent => x.required /\ x.intent = c
                 /\ c \in Check => x.receipt = None
                 /\ c \in Intent /\ x.receipt = None => x.evidence = None
                 /\ x.receipt # None =>
                       /\ e.receipts[x.receipt] # None
                       /\ e.receipts[x.receipt].intent = c
                       /\ e.receipts[x.receipt].readback = x.evidence
      <3>1. CASE t = s /\ c = claim
        BY <1>4, <3>1
      <3>2. CASE ~(t = s /\ c = claim)
        BY <1>3, <1>4, <2>1, <3>2 DEF StoreHolds, ObligationsHold
      <3> QED  BY <3>1, <3>2
    <2> QED  BY <2>1 DEF ObligationsHold
  <1>9. ASSUME NEW i \in Intent, e.intents[i] # None
        PROVE  Describes(e, e.intents[i]) /\ Declared(e, e.intents[i].session, i)
    <2>1. d.intents[i] \in ActionIntent
      BY <1>1, <1>3, <1>9, DbFields DEF Maybe
    <2>2. d.intents[i].session \in Session
      BY <2>1, IntentFields
    <2>3. Describes(d, d.intents[i]) /\ Declared(d, d.intents[i].session, i)
      BY <1>3, <1>9 DEF StoreHolds, IntentsHold
    <2>4. b # None
      BY NoneIsNoValue
    <2>5. e.intents[i] = d.intents[i]
      BY <1>3
    <2>6. Describes(e, d.intents[i])
      BY <1>3, <2>3 DEF Describes
    <2>7. Declared(e, d.intents[i].session, i)
      <3>1. d.obligations[<<d.intents[i].session, i>>] # None
        BY <2>3 DEF Declared
      <3>2. i \in Claim
        BY <1>5
      <3>3. e.obligations[<<d.intents[i].session, i>>] # None
        BY <1>4, <2>2, <2>4, <3>1, <3>2
      <3> QED  BY <3>3 DEF Declared
    <2> QED  BY <2>5, <2>6, <2>7
  <1>10. EvidenceHolds(e) /\ VerdictsHold(e)
    <2>1. EvidenceHolds(d) /\ VerdictsHold(d)
      BY DEF StoreHolds
    <2>2. EvidenceHolds(e)
      BY <1>3, <2>1 DEF EvidenceHolds
    <2>3. ASSUME NEW receipt, Proves(d, receipt) PROVE Proves(e, receipt)
      BY <1>3, <2>3 DEF Proves
    <2>4. VerdictsHold(e)
      BY <1>3, <2>1, <2>3 DEF VerdictsHold
    <2> QED  BY <2>2, <2>4
  <1>11. Grows(d, n, e, m, None)
    BY <1>1, <1>3, IssuedFields DEF Grows, Recorded
  <1> QED  BY <1>3, <1>7, <1>8, <1>9, <1>10, <1>11
           DEF StoreHolds, IntentsHold, e

\* The intent of an obligation that has none yet.
LEMMA PutIntentKeeps ==
    ASSUME NEW d, NEW n, StoreHolds(d, n), NEW i \in Intent,
           NEW intent \in ActionIntent, d.intents[i] = None,
           i <= n.intents, Declared(d, intent.session, i), Describes(d, intent)
    PROVE  /\ StoreHolds(PutIntent(d, i, intent), n)
           /\ Grows(d, n, PutIntent(d, i, intent), n, i)
  <1>1. d \in Db /\ n \in Issued
    BY DEF StoreHolds
  <1> DEFINE e == PutIntent(d, i, intent)
  <1>2. [d.intents EXCEPT ![i] = intent] \in [Intent -> Maybe(ActionIntent)]
    BY <1>1, DbFields DEF Maybe
  <1>3. /\ e \in Db /\ e.payloads = d.payloads
        /\ e.observations = d.observations /\ e.obligations = d.obligations
        /\ e.intents = [d.intents EXCEPT ![i] = intent]
        /\ e.receipts = d.receipts
    BY <1>1, <1>2 DEF PutIntent, Db
  <1> HIDE DEF e
  <1>4. /\ e.intents[i] = intent
        /\ \A j \in Intent \ {i} : e.intents[j] = d.intents[j]
    BY <1>1, <1>3, DbFields
  <1>5. ASSUME NEW j \in Intent, j > n.intents
        PROVE  e.intents[j] = None /\ \A t \in Session : ~Declared(e, t, j)
    <2>1. j # i
      BY <1>1, <1>5, IssuedFields, NoneIsNoValue
    <2> QED  BY <1>3, <1>4, <1>5, <2>1 DEF StoreHolds, FreshIds, Declared
  <1>6. FreshIds(e, n)
    BY <1>3, <1>5 DEF FreshIds, StoreHolds
  <1>7. EvidenceHolds(e) /\ ObligationsHold(e)
    BY <1>3 DEF EvidenceHolds, ObligationsHold, StoreHolds
  <1>8. IntentsHold(e)
    BY <1>3, <1>4 DEF IntentsHold, Describes, Declared, StoreHolds
  <1>9. VerdictsHold(e)
    <2>1. ASSUME NEW r \in Receipt, e.receipts[r] # None,
                 e.receipts[r].status = "verified"
          PROVE  Proves(e, e.receipts[r])
      <3>1. Proves(d, d.receipts[r])
        BY <1>3, <2>1 DEF StoreHolds, VerdictsHold
      <3>2. d.receipts[r].intent \in Intent
        BY <1>1, <1>3, <2>1, DbFields DEF Maybe, ReadbackReceipt
      <3>3. d.receipts[r].intent # i
        BY <3>1 DEF Proves
      <3> QED  BY <1>3, <1>4, <3>1, <3>2, <3>3 DEF Proves
    <2> QED  BY <2>1 DEF VerdictsHold
  <1>10. Grows(d, n, e, n, i)
    BY <1>1, <1>3, <1>4, IssuedFields DEF Grows, Recorded
  <1> QED  BY <1>1, <1>3, <1>6, <1>7, <1>8, <1>9, <1>10 DEF StoreHolds, e

\* The next receipt, with its proof if it claims one.
LEMMA PutReceiptKeeps ==
    ASSUME NEW d, NEW n, StoreHolds(d, n), NEW r \in Receipt,
           r = n.receipts + 1, NEW receipt \in ReadbackReceipt,
           receipt.status = "verified" => Proves(d, receipt),
           NEW m, m = [n EXCEPT !.receipts = r]
    PROVE  /\ StoreHolds(PutReceipt(d, r, receipt), m)
           /\ Grows(d, n, PutReceipt(d, r, receipt), m, None)
           /\ PutReceipt(d, r, receipt).receipts[r] = receipt
           /\ PutReceipt(d, r, receipt).observations = d.observations
           /\ PutReceipt(d, r, receipt).intents = d.intents
           /\ m.intents = n.intents /\ m.observations = n.observations
  <1>1. d \in Db /\ n \in Issued
    BY DEF StoreHolds
  <1>2. /\ m \in Issued /\ m.observations = n.observations
        /\ m.intents = n.intents /\ m.receipts = r
    BY <1>1, BoundsAssumption DEF Issued, Receipt
  <1> DEFINE e == PutReceipt(d, r, receipt)
  <1>3. [d.receipts EXCEPT ![r] = receipt] \in [Receipt -> Maybe(ReadbackReceipt)]
    BY <1>1, DbFields DEF Maybe
  <1>4. /\ e \in Db /\ e.payloads = d.payloads
        /\ e.observations = d.observations /\ e.obligations = d.obligations
        /\ e.intents = d.intents
        /\ e.receipts = [d.receipts EXCEPT ![r] = receipt]
    BY <1>1, <1>3 DEF PutReceipt, Db
  <1> HIDE DEF e
  <1>5. /\ e.receipts[r] = receipt /\ d.receipts[r] = None
        /\ \A x \in Receipt \ {r} : e.receipts[x] = d.receipts[x]
    BY <1>1, <1>4, DbFields, NextIsFree
  <1>6. ASSUME NEW x \in Receipt, x > m.receipts
        PROVE  e.receipts[x] = None
    <2>1. x > n.receipts /\ x # r
      BY <1>1, <1>2, <1>6, IssuedFields, NoneIsNoValue
    <2> QED  BY <1>5, <2>1 DEF StoreHolds, FreshIds
  <1>7. FreshIds(e, m)
    BY <1>2, <1>4, <1>6 DEF FreshIds, StoreHolds, Declared
  <1>8. ObligationsHold(e)
    <2>1. ASSUME NEW s \in Session, NEW c \in Claim,
                 e.obligations[<<s, c>>] # None,
                 e.obligations[<<s, c>>].receipt # None
          PROVE  /\ e.obligations[<<s, c>>].receipt # r
                 /\ e.obligations[<<s, c>>].receipt \in Receipt
      <3>1. e.obligations[<<s, c>>] \in Obligation
        BY <1>4, <2>1, DbFields DEF Maybe
      <3> QED  BY <1>4, <1>5, <2>1, <3>1
               DEF StoreHolds, ObligationsHold, Obligation, Maybe
    <2> QED  BY <1>4, <1>5, <2>1 DEF StoreHolds, ObligationsHold
  <1>9. EvidenceHolds(e) /\ IntentsHold(e)
    BY <1>4 DEF EvidenceHolds, IntentsHold, Describes, Declared, StoreHolds
  <1>10. VerdictsHold(e)
    BY <1>4, <1>5 DEF VerdictsHold, Proves, StoreHolds
  <1>11. Grows(d, n, e, m, None)
    BY <1>1, <1>2, <1>4, IssuedFields DEF Grows, Recorded
  <1> QED  BY <1>2, <1>4, <1>5, <1>7, <1>8, <1>9, <1>10, <1>11, Zenon
           DEF StoreHolds, e

\* A receipt is attached to the obligation it names.
LEMMA AttachKeeps ==
    ASSUME NEW d, NEW n, StoreHolds(d, n), NEW s \in Session,
           NEW claim \in Intent, Declared(d, s, claim), NEW r \in Receipt,
           d.receipts[r] # None, d.receipts[r].intent = claim,
           NEW evidence \in Maybe(ObservationId),
           d.receipts[r].readback = evidence
    PROVE  /\ StoreHolds(Attach(d, s, claim, evidence, r), n)
           /\ Grows(d, n, Attach(d, s, claim, evidence, r), n, None)
  <1> DEFINE k == <<s, claim>>
             b == d.obligations[k]
             f == [[b EXCEPT !.evidence = evidence] EXCEPT !.receipt = r]
             e == Attach(d, s, claim, evidence, r)
  <1>1. d \in Db /\ n \in Issued /\ Intent \subseteq Claim
    BY DEF StoreHolds, Claim
  <1>2. k \in Session \X Claim /\ b \in Obligation
    BY <1>1, DbFields DEF Maybe, Declared
  <1>3. /\ f \in Obligation /\ f.receipt = r /\ f.evidence = evidence
        /\ f.required = b.required /\ f.intent = b.intent /\ f # None
    BY <1>2, NoneIsNoValue, ZenonT(60) DEF Obligation, Maybe
  <1>4. e = [d EXCEPT !.obligations = [d.obligations EXCEPT ![k] = f]]
    BY <1>1, <1>2, DbFields DEF Attach, Db
  <1> HIDE DEF f
  <1>5. [d.obligations EXCEPT ![k] = f] \in [Session \X Claim -> Maybe(Obligation)]
    BY <1>1, <1>2, <1>3, DbFields DEF Maybe
  <1>6. /\ e \in Db /\ e.payloads = d.payloads
        /\ e.observations = d.observations
        /\ e.obligations = [d.obligations EXCEPT ![k] = f]
        /\ e.intents = d.intents /\ e.receipts = d.receipts
    BY <1>1, <1>4, <1>5 DEF Db
  <1> HIDE DEF e
  <1>7. ASSUME NEW t \in Session, NEW c \in Claim
        PROVE  e.obligations[<<t, c>>] =
                  IF t = s /\ c = claim THEN f ELSE d.obligations[<<t, c>>]
    BY <1>1, <1>6, DbFields
  <1>8. \A t \in Session, c \in Claim : Declared(e, t, c) <=> Declared(d, t, c)
    BY <1>3, <1>7 DEF Declared
  <1>9. FreshIds(e, n)
    BY <1>1, <1>6, <1>8 DEF FreshIds, StoreHolds
  <1>10. ObligationsHold(e)
    <2>1. ASSUME NEW t \in Session, NEW c \in Claim,
                 e.obligations[<<t, c>>] # None
          PROVE  LET x == e.obligations[<<t, c>>] IN
                 /\ c \in Intent => x.required /\ x.intent = c
                 /\ c \in Check => x.receipt = None
                 /\ c \in Intent /\ x.receipt = None => x.evidence = None
                 /\ x.receipt # None =>
                       /\ e.receipts[x.receipt] # None
                       /\ e.receipts[x.receipt].intent = c
                       /\ e.receipts[x.receipt].readback = x.evidence
      <3>1. CASE t = s /\ c = claim
        <4>1. e.obligations[<<t, c>>] = f
          BY <1>7, <3>1
        <4>2. b.required /\ b.intent = claim
          BY <1>1, <1>2 DEF StoreHolds, ObligationsHold, Declared
        <4>3. claim \notin Check /\ r # None
          BY NamesAssumption, NoneIsNoValue
        <4>4. f.required /\ f.intent = claim
          BY <1>3, <4>2, Zenon
        <4>5. /\ e.receipts[f.receipt] # None
              /\ e.receipts[f.receipt].intent = claim
              /\ e.receipts[f.receipt].readback = f.evidence
          BY <1>3, <1>6
        <4> QED  BY <1>3, <3>1, <4>1, <4>3, <4>4, <4>5
      <3>2. CASE ~(t = s /\ c = claim)
        BY <1>6, <1>7, <2>1, <3>2 DEF StoreHolds, ObligationsHold
      <3> QED  BY <3>1, <3>2
    <2> QED  BY <2>1 DEF ObligationsHold
  <1>11. ASSUME NEW i \in Intent, e.intents[i] # None
         PROVE  Describes(e, e.intents[i]) /\ Declared(e, e.intents[i].session, i)
    <2>1. d.intents[i] \in ActionIntent
      BY <1>1, <1>6, <1>11, DbFields DEF Maybe
    <2>2. d.intents[i].session \in Session
      BY <2>1, IntentFields
    <2>3. Describes(d, d.intents[i]) /\ Declared(d, d.intents[i].session, i)
      BY <1>6, <1>11 DEF StoreHolds, IntentsHold
    <2> QED  BY <1>1, <1>6, <1>8, <2>2, <2>3 DEF Describes
  <1>12. EvidenceHolds(e) /\ VerdictsHold(e)
    <2>1. EvidenceHolds(d) /\ VerdictsHold(d)
      BY DEF StoreHolds
    <2>2. EvidenceHolds(e)
      BY <1>6, <2>1 DEF EvidenceHolds
    <2>3. ASSUME NEW receipt, Proves(d, receipt) PROVE Proves(e, receipt)
      BY <1>6, <2>3 DEF Proves
    <2>4. VerdictsHold(e)
      BY <1>6, <2>1, <2>3 DEF VerdictsHold
    <2> QED  BY <2>2, <2>4
  <1>13. Grows(d, n, e, n, None)
    BY <1>1, <1>6, IssuedFields DEF Grows, Recorded
  <1>14. IntentsHold(e)
    BY <1>11 DEF IntentsHold
  <1>15. StoreHolds(e, n)
    BY <1>1, <1>6, <1>9, <1>10, <1>12, <1>14 DEF StoreHolds
  <1> QED  BY <1>13, <1>15 DEF e

-----------------------------------------------------------------------------
(* prog verification begin.                                                *)

LEMMA GrowsSame ==
    ASSUME NEW d, NEW n \in Issued, NEW own
    PROVE  Grows(d, n, d, n, own)
  BY IssuedFields DEF Grows

\* What is recorded was issued.
LEMMA RecordedIsIssued ==
    ASSUME NEW d, NEW n, StoreHolds(d, n)
    PROVE  /\ \A o \in ObservationId :
                Recorded(d, o) => o <= n.observations
           /\ \A i \in Intent : d.intents[i] # None => i <= n.intents
  <1>1. n \in Issued /\ FreshIds(d, n)
    BY DEF StoreHolds
  <1> QED  BY <1>1, IssuedFields, NoneIsNoValue DEF FreshIds, Recorded

LEMMA PayloadShows ==
    ASSUME NEW c \in Payload
    PROVE  /\ IdOf(c) \in Maybe(Identity) /\ VersionOf(c) \in Maybe(Version)
           /\ StateOf(c) \in Maybe(State)
  BY DEF Payload, Entity, IdOf, VersionOf, StateOf, Maybe

\* An entity that can be announced gives an intent that describes it.
LEMMA IntentIsSound ==
    ASSUME NEW d \in Db, NEW s \in Session, NEW o \in ObservationId,
           NEW expected \in State, NEW until \in Deadline,
           Intendable(d, o, expected)
    PROVE  /\ IntentOf(d, s, o, expected, until) \in ActionIntent
           /\ IntentOf(d, s, o, expected, until).session = s
           /\ IntentOf(d, s, o, expected, until).pre = o
           /\ Describes(d, IntentOf(d, s, o, expected, until))
  <1> DEFINE c == d.observations[o].payload
  <1>1. d.observations[o] \in Observation /\ d.observations[o] # None
    BY DbFields DEF Intendable, Maybe
  <1>2. c \in Payload /\ IdOf(c) # None /\ VersionOf(c) # None
    BY <1>1 DEF Intendable, Observation
  <1>3. IdOf(c) \in Identity /\ VersionOf(c) \in Version
    BY <1>2, PayloadShows DEF Maybe
  <1>4. until \in Maybe(Time)
    BY DeadlineAssumption
  <1> HIDE DEF c
  <1> QED  BY <1>1, <1>3, <1>4 DEF IntentOf, ActionIntent, Describes, c

LEMMA ReadbackObligationIsSound ==
    ASSUME NEW i \in Intent
    PROVE  /\ ReadbackObligation(i) \in Obligation
           /\ ReadbackObligation(i).required
           /\ ReadbackObligation(i).intent = i
           /\ ReadbackObligation(i).receipt = None
           /\ ReadbackObligation(i).evidence = None
           /\ ReadbackObligation(i) # None
  <1> DEFINE b == ReadbackObligation(i)
  <1>1. b \in Obligation
    BY DEF ReadbackObligation, Obligation, Maybe, RequiredState
  <1>2. b.required
    BY Zenon DEF ReadbackObligation
  <1>3. b.intent = i /\ b.receipt = None /\ b.evidence = None
    BY DEF ReadbackObligation
  <1> QED  BY <1>1, <1>2, <1>3, NoneIsNoValue

\* An identifier that is issued now is in nobody's hands.
LEMMA NobodyHas ==
    ASSUME RInv, NEW i \in Intent, i = issued.intents + 1
    PROVE  \A q \in Process : run[q].claim # i
  <1>1. ASSUME NEW q \in Process
        PROVE  run[q].claim # i
    <2>1. Knows(db, issued, run[q]) /\ issued \in Issued /\ run[q] \in Run
      BY Parts, Zenon
    <2>2. run[q].pc = "idle" => run[q].claim = None
      BY <2>1, IdleCommand DEF Knows
    <2>3. run[q].pc # "idle" => run[q].claim <= issued.intents
      BY <2>1 DEF Knows
    <2> QED  BY <2>1, <2>2, <2>3, IssuedFields, NoneIsNoValue
  <1> QED  BY <1>1

LEMMA BeginKeeps ==
    ASSUME RInv, NEW p \in Process, NEW o \in ObservationId,
           NEW expected \in State, NEW until \in Deadline,
           BeginVerification(p, o, expected, until)
    PROVE  RInv'
  <1> DEFINE i == issued.intents + 1
             intent == IntentOf(db, db.current, o, expected, until)
             r == [Idle EXCEPT !.pc = "begun", !.claim = i, !.intent = intent]
             b == ReadbackObligation(i)
  <1>1. /\ handle = None /\ i \in Intent /\ db.current # None
        /\ Intendable(db, o, expected)
        /\ db' = PutObligation(db, db.current, i, b)
        /\ issued' = [issued EXCEPT !.intents = i]
        /\ run' = [run EXCEPT ![p] = r] /\ handle' = p
        /\ workspace' = workspace /\ now' = now
    BY Zenon DEF BeginVerification, Become
  <1>2. /\ db \in Db /\ issued \in Issued /\ StoreHolds(db, issued)
        /\ workspace \in Workspace /\ now \in Time
    BY Parts, Zenon
  <1>3. db.current \in Session
    BY <1>1, <1>2, DbFields DEF Maybe
  <1>4. /\ intent \in ActionIntent /\ intent.session = db.current
        /\ intent.pre = o /\ Describes(db, intent)
    BY <1>1, <1>2, <1>3, IntentIsSound
  <1> HIDE DEF intent
  <1>5. /\ r \in Run /\ r.pc = "begun" /\ r.claim = i /\ r.intent = intent
    BY <1>1, <1>4, IdleCommand DEF Idle, Run, Steps, Maybe
  <1> HIDE DEF r
  <1>6. /\ b \in Obligation /\ b.required /\ b.intent = i /\ b.receipt = None
        /\ b.evidence = None /\ b # None
    BY <1>1, ReadbackObligationIsSound
  <1> HIDE DEF b
  <1>7. /\ issued' \in Issued /\ issued'.intents = i
        /\ issued'.observations = issued.observations
        /\ issued'.receipts = issued.receipts
    BY <1>1, <1>2, BoundsAssumption DEF Issued, Intent
  <1>8. ~Declared(db, db.current, i) /\ db.intents[i] = None /\ i \in Claim
    BY <1>1, <1>2, <1>3, NextIsFree DEF Claim
  <1>9. issued.intents <= issued'.intents /\ i <= issued'.intents
    BY <1>2, <1>7, IssuedFields
  <1> HIDE DEF i
  <1>10. /\ StoreHolds(db', issued')
         /\ Grows(db, issued, db', issued', None)
    BY <1>1, <1>2, <1>3, <1>6, <1>7, <1>8, <1>9, PutObligationKeeps
  <1>11. /\ db'.intents = db.intents /\ db'.observations = db.observations
         /\ Declared(db', db.current, i)
    BY <1>1, <1>2, <1>3, <1>6, <1>8, DbFields
    DEF PutObligation, Declared, Db
  <1>12. o <= issued'.observations
    BY <1>2, <1>4, <1>7, RecordedIsIssued, NoneIsNoValue
    DEF Describes, Recorded
  <1>13. Knows(db', issued', r)
    BY <1>1, <1>4, <1>5, <1>8, <1>9, <1>11, <1>12, NoneIsNoValue
    DEF Knows, Describes
  <1>14. \A q \in Process : run[q].claim # i
    BY <1>1, NobodyHas DEF i
  <1>15. \A q \in Process \ {p} : run[q].pc # "idle" => run[q].claim # None
    BY Parts, Zenon DEF Knows
  <1>16. /\ (handle' = p) <=> (r.pc \in Holding)
         /\ r.pc = "begun" => \A q \in Process \ {p} : run[q].claim # r.claim
         /\ handle \in {None, p} /\ handle' \in {None, p}
         /\ workspace' \in Workspace /\ now' \in Time
    BY <1>1, <1>2, <1>5, <1>14 DEF Holding
  <1> QED  BY <1>1, <1>5, <1>10, <1>13, <1>15, <1>16, StepOfCommand

LEMMA StoreIntentKeeps ==
    ASSUME RInv, NEW p \in Process, StoreIntent(p)
    PROVE  RInv'
  <1> DEFINE r == run[p]
  <1>1. /\ r.pc = "begun" /\ handle = p /\ handle' = None
        /\ db' = PutIntent(db, r.claim, r.intent) /\ issued' = issued
        /\ run' = [run EXCEPT ![p] = Idle]
        /\ workspace' = workspace /\ now' = now
    BY Zenon DEF StoreIntent, Finish, Become, Holds
  <1>2. /\ db \in Db /\ issued \in Issued /\ StoreHolds(db, issued)
        /\ workspace \in Workspace /\ now \in Time /\ r \in Run
        /\ Knows(db, issued, r)
    BY Parts, Zenon
  <1>3. \A q \in Process \ {p} : run[q].claim # r.claim
    BY <1>1, Parts, Zenon
  <1> HIDE DEF r
  <1>4. /\ r.claim \in Intent /\ r.claim <= issued.intents
        /\ r.intent \in ActionIntent /\ db.intents[r.claim] = None
        /\ Declared(db, r.intent.session, r.claim) /\ Describes(db, r.intent)
    BY <1>1, <1>2, RunFields DEF Knows, Maybe
  <1>5. /\ StoreHolds(db', issued')
        /\ Grows(db, issued, db', issued', r.claim)
    BY <1>1, <1>2, <1>4, PutIntentKeeps
  <1>6. Knows(db', issued', Idle) /\ Idle \in Run /\ Idle.pc \notin Holding
        /\ Idle.pc # "begun" /\ p # None
    BY IdleCommand, NoneIsNoValue
  <1> QED  BY <1>1, <1>2, <1>3, <1>5, <1>6, StepOfCommand

-----------------------------------------------------------------------------
(* prog verification readback.                                             *)

LEMMA StartReadbackKeeps ==
    ASSUME RInv, NEW p \in Process, NEW i \in Intent,
           NEW o \in Maybe(ObservationId), StartReadback(p, i, o)
    PROVE  RInv'
  <1> DEFINE intent == db.intents[i]
             r == [Idle EXCEPT !.pc = "asked", !.claim = i, !.mutation = o,
                               !.intent = intent]
  <1>1. /\ handle = None /\ handle' = None /\ intent # None
        /\ run' = [run EXCEPT ![p] = r] /\ db' = db /\ issued' = issued
        /\ workspace' = workspace /\ now' = now
    BY Zenon DEF StartReadback, Become
  <1>2. /\ db \in Db /\ issued \in Issued /\ StoreHolds(db, issued)
        /\ workspace \in Workspace /\ now \in Time
    BY Parts, Zenon
  <1>3. intent \in ActionIntent
    BY <1>1, <1>2, DbFields DEF Maybe
  <1>4. i <= issued.intents /\ intent.pre \in ObservationId
    BY <1>1, <1>2, <1>3, RecordedIsIssued, IntentFields
  <1>5. intent.pre <= issued.observations
    <2>1. Describes(db, intent)
      BY <1>1, <1>2 DEF StoreHolds, IntentsHold
    <2>2. Recorded(db, intent.pre)
      BY <1>4, <2>1, NoneIsNoValue DEF Describes, Recorded
    <2> QED  BY <1>2, <1>4, <2>2, RecordedIsIssued
  <1> HIDE DEF intent
  <1>6. /\ r \in Run /\ r.pc = "asked" /\ r.claim = i /\ r.intent = intent
    BY <1>3, IdleCommand DEF Idle, Run, Steps, Maybe
  <1> HIDE DEF r
  <1>7. Knows(db', issued', r)
    BY <1>1, <1>4, <1>5, <1>6, NoneIsNoValue DEF Knows, intent
  <1>8. Grows(db, issued, db', issued', None) /\ StoreHolds(db', issued')
    BY <1>1, <1>2, GrowsSame
  <1>9. \A q \in Process \ {p} : run[q].pc # "idle" => run[q].claim # None
    BY Parts, Zenon DEF Knows
  <1>10. /\ (handle' = p) <=> (r.pc \in Holding)
         /\ r.pc = "begun" => \A q \in Process \ {p} : run[q].claim # r.claim
         /\ handle \in {None, p} /\ handle' \in {None, p}
         /\ workspace' \in Workspace /\ now' \in Time
    BY <1>1, <1>2, <1>6, NoneIsNoValue DEF Holding
  <1> QED  BY <1>1, <1>6, <1>7, <1>8, <1>9, <1>10, StepOfCommand

\* An answer is recorded, and perhaps its payload is lost in the same breath.
LEMMA AnswerIsEvidenceStep ==
    ASSUME NEW d, NEW n, StoreHolds(d, n), NEW c \in Captured,
           NEW o \in ObservationId, o = n.observations + 1,
           NEW kept \in BOOLEAN,
           NEW m, m = [n EXCEPT !.observations = o],
           NEW e, e = IF kept THEN Record(d, o, c)
                      ELSE Lose(Record(d, o, c), c.payload)
    PROVE  EvidenceStep(d, n, e, m) /\ Recorded(e, o)
  <1> DEFINE f == Record(d, o, c)
  <1>1. d \in Db /\ n \in Issued /\ c \in Observation
    BY DEF StoreHolds, Captured
  <1>2. EvidenceStep(d, n, f, m)
    BY RecordIsEvidenceStep
  <1>3. Recorded(f, o)
    <2>1. f.observations = [d.observations EXCEPT ![o] = c]
      BY <1>1, RecordFacts
    <2>2. f.observations[o] = c
      BY <1>1, <2>1, DbFields
    <2> HIDE DEF f
    <2> QED  BY <1>1, <2>2, NoneIsNoValue DEF Recorded
  <1> HIDE DEF f
  <1>4. StoreHolds(f, m)
    BY <1>2, EvidenceStepKeeps
  <1>5. EvidenceStep(f, m, Lose(f, c.payload), m)
    BY <1>4, LoseIsEvidenceStep
  <1>6. EvidenceStep(d, n, Lose(f, c.payload), m)
    BY <1>1, <1>2, <1>5, EvidenceStepsCompose
  <1>7. Recorded(Lose(f, c.payload), o)
    BY <1>3, <1>5, NoneIsNoValue DEF Recorded, EvidenceStep
  <1>8. e = IF kept THEN f ELSE Lose(f, c.payload)
    BY DEF f
  <1> QED  BY <1>2, <1>3, <1>6, <1>7, <1>8

LEMMA CaptureAnswerKeeps ==
    ASSUME RInv, NEW p \in Process, NEW answer \in Answers,
           NEW kept \in BOOLEAN, CaptureAnswer(p, answer, kept)
    PROVE  RInv'
  <1> DEFINE o == issued.observations + 1
             c == answer[1]
             r == [run[p] EXCEPT !.pc = "captured", !.readback = o,
                                 !.failed = answer[2]]
  <1>1. /\ run[p].pc = "asked" /\ handle = None /\ handle' = p
        /\ o \in ObservationId
        /\ db' = IF kept THEN Record(db, o, c)
                 ELSE Lose(Record(db, o, c), c.payload)
        /\ issued' = [issued EXCEPT !.observations = o]
        /\ run' = [run EXCEPT ![p] = r]
        /\ workspace' = workspace /\ now' = now
    BY Zenon DEF CaptureAnswer, Become
  <1>2. /\ db \in Db /\ issued \in Issued /\ StoreHolds(db, issued)
        /\ workspace \in Workspace /\ now \in Time /\ run[p] \in Run
        /\ Knows(db, issued, run[p])
    BY Parts, Zenon
  <1>3. c \in Captured /\ answer[2] \in BOOLEAN
    BY CapturedAssumption
  <1> HIDE DEF c
  <1>4. /\ issued'.observations = o /\ issued'.intents = issued.intents
        /\ issued.observations \in Nat
    BY <1>1, <1>2, IssueObservation, IssuedFields
  <1>5. o > issued.observations
    BY <1>4
  <1>6. EvidenceStep(db, issued, db', issued') /\ Recorded(db', o)
    BY <1>1, <1>2, <1>3, AnswerIsEvidenceStep
  <1>7. StoreHolds(db', issued') /\ Grows(db, issued, db', issued', None)
    BY <1>2, <1>6, EvidenceStepKeeps
  <1> HIDE DEF o
  <1>8. /\ r \in Run /\ r.pc = "captured" /\ r.claim = run[p].claim
        /\ r.intent = run[p].intent /\ r.readback = o
    BY <1>1, <1>2, <1>3 DEF Run, Steps, Maybe
  <1> HIDE DEF r
  <1>9. /\ r.claim \in Intent /\ r.intent \in ActionIntent
        /\ r.claim <= issued.intents /\ r.intent.pre <= issued.observations
        /\ db.intents[r.claim] \in {None, r.intent}
        /\ Recorded(db, r.intent.pre) => db.intents[r.claim] # None
    BY <1>1, <1>2, <1>8, RunFields DEF Knows, Maybe
  <1>10. r.intent.pre \in ObservationId
    BY <1>9, IntentFields
  <1>11. Recorded(db', r.intent.pre) => Recorded(db, r.intent.pre)
    BY <1>7, <1>9, <1>10 DEF Grows
  <1>12. r.intent.pre <= issued'.observations /\ o > r.intent.pre
    <2>1. r.intent.pre \in Nat /\ o \in Nat
      BY <1>1, <1>10, NoneIsNoValue DEF o
    <2>2. o > r.intent.pre
      BY <1>4, <1>5, <1>9, <2>1
    <2> QED  BY <1>4, <2>1, <2>2
  <1>13. db'.intents = db.intents
    BY <1>6 DEF EvidenceStep
  <1>14. Knows(db', issued', r)
    BY <1>4, <1>6, <1>8, <1>9, <1>11, <1>12, <1>13, NoneIsNoValue DEF Knows
  <1>15. \A q \in Process \ {p} : run[q].pc # "idle" => run[q].claim # None
    BY Parts, Zenon DEF Knows
  <1>16. /\ (handle' = p) <=> (r.pc \in Holding)
         /\ r.pc = "begun" => \A q \in Process \ {p} : run[q].claim # r.claim
         /\ handle \in {None, p} /\ handle' \in {None, p}
         /\ workspace' \in Workspace /\ now' \in Time
    BY <1>1, <1>2, <1>8 DEF Holding
  <1> QED  BY <1>1, <1>7, <1>8, <1>14, <1>15, <1>16, StepOfCommand

\* A verdict has a name, and only the read-back of the same entity at another
\* version in the expected state is verified.
LEMMA JudgedProves ==
    ASSUME NEW d, NEW intent, NEW o, NEW failed, NEW x,
           NEW instant
    PROVE  /\ Judged(d, intent, o, failed, x, instant) \in ReceiptStatus
           /\ Judged(d, intent, o, failed, x, instant) = "verified" =>
                 /\ IdOf(d.observations[o].payload) = intent.identity
                 /\ VersionOf(d.observations[o].payload)
                       \notin {None, intent.version}
                 /\ StateOf(d.observations[o].payload) = intent.expected
  <1> DEFINE seen == d.observations[o]
             c == seen.payload
             response == IF x = None THEN None ELSE d.observations[x].payload
             verdict == Judged(d, intent, o, failed, x, instant)
             evaluation == Evaluated(intent, seen, response, instant)
  <1>1. /\ evaluation \in ReceiptStatus
        /\ evaluation = "verified" =>
              /\ IdOf(c) = intent.identity
              /\ VersionOf(c) \notin {None, intent.version}
              /\ StateOf(c) = intent.expected
    BY DEF Evaluated, ReceiptStatus
  <1>2. \/ verdict = evaluation
        \/ verdict \in {"readback_failed", "unverifiable", "stale_precondition"}
    BY Zenon DEF Judged
  <1> QED  BY <1>1, <1>2 DEF ReceiptStatus

LEMMA StoreReceiptKeeps ==
    ASSUME RInv, NEW p \in Process, NEW status \in ReceiptStatus,
           run[p].pc \in {"asked", "captured"}, handle \in {None, p},
           status = "verified" => Proves(db, ReceiptOf(run[p], status)),
           StoreReceipt(p, status), workspace' = workspace, now' = now
    PROVE  RInv'
  <1> DEFINE n == issued.receipts + 1
             receipt == ReceiptOf(run[p], status)
             r == [run[p] EXCEPT !.pc = "receipt", !.receipt = n]
  <1>1. /\ n \in Receipt /\ handle' = p
        /\ db' = PutReceipt(db, n, receipt)
        /\ issued' = [issued EXCEPT !.receipts = n]
        /\ run' = [run EXCEPT ![p] = r]
    BY Zenon DEF StoreReceipt, Become
  <1>2. /\ db \in Db /\ issued \in Issued /\ StoreHolds(db, issued)
        /\ workspace \in Workspace /\ now \in Time /\ run[p] \in Run
        /\ Knows(db, issued, run[p])
    BY Parts, Zenon
  <1>3. /\ run[p].claim \in Intent /\ run[p].intent \in ActionIntent
        /\ run[p].mutation \in Maybe(ObservationId)
        /\ run[p].readback \in Maybe(ObservationId)
    BY <1>2, RunFields DEF Knows, Maybe
  <1>4. run[p].intent.pre \in ObservationId
    BY <1>3, IntentFields
  <1>5. /\ receipt \in ReadbackReceipt /\ receipt.intent = run[p].claim
        /\ receipt.readback = run[p].readback /\ receipt.status = status
    BY <1>3, <1>4 DEF ReceiptOf, ReadbackReceipt
  <1> HIDE DEF receipt
  <1>6. receipt.status = "verified" => Proves(db, receipt)
    BY <1>5 DEF receipt
  <1>7. /\ r \in Run /\ r.pc = "receipt" /\ r.claim = run[p].claim
        /\ r.intent = run[p].intent /\ r.readback = run[p].readback
        /\ r.receipt = n
    BY <1>1, <1>2 DEF Run, Steps, Maybe
  <1>8. n = issued.receipts + 1
    OBVIOUS
  <1> HIDE DEF r, n
  <1>9. /\ StoreHolds(db', issued') /\ Grows(db, issued, db', issued', None)
        /\ db'.receipts[n] = receipt /\ db'.observations = db.observations
        /\ db'.intents = db.intents /\ issued'.intents = issued.intents
        /\ issued'.observations = issued.observations
    BY <1>1, <1>2, <1>5, <1>6, <1>8, PutReceiptKeeps
  <1>10. Knows(db', issued', r)
    BY <1>1, <1>2, <1>5, <1>7, <1>9, NoneIsNoValue DEF Knows, Recorded
  <1>11. \A q \in Process \ {p} : run[q].pc # "idle" => run[q].claim # None
    BY Parts, Zenon DEF Knows
  <1>12. /\ (handle' = p) <=> (r.pc \in Holding)
         /\ r.pc = "begun" => \A q \in Process \ {p} : run[q].claim # r.claim
         /\ handle \in {None, p} /\ handle' \in {None, p}
         /\ workspace' \in Workspace /\ now' \in Time
    BY <1>1, <1>2, <1>7 DEF Holding
  <1> QED  BY <1>1, <1>7, <1>9, <1>10, <1>11, <1>12, StepOfCommand

\* A command that has the database, or that nobody waits for, ends.
LEMMA EndKeeps ==
    ASSUME RInv, NEW p \in Process, run' = [run EXCEPT ![p] = Idle],
           db' = db, issued' = issued, workspace' = workspace, now' = now,
           handle' = IF handle = p THEN None ELSE handle
    PROVE  RInv'
  <1>1. /\ issued \in Issued /\ StoreHolds(db', issued')
        /\ workspace' \in Workspace /\ now' \in Time
    BY Parts, Zenon
  <1>2. /\ Idle \in Run /\ Idle.pc = "idle" /\ Idle.pc \notin Holding
        /\ Idle.claim = None /\ Knows(db', issued', Idle)
    BY IdleCommand
  <1>3. handle' # p
    BY NoneIsNoValue
  <1>4. Grows(db, issued, db', issued', None)
    BY <1>1, GrowsSame
  <1>5. \A q \in Process \ {p} : run[q].pc # "idle" => run[q].claim # None
    BY Parts, Zenon DEF Knows
  <1>6. \/ handle' = handle
        \/ handle \in {None, p} /\ handle' \in {None, p}
    OBVIOUS
  <1> QED  BY <1>1, <1>2, <1>3, <1>4, <1>5, <1>6, StepOfCommand

LEMMA JudgeKeeps ==
    ASSUME RInv, NEW p \in Process, JudgeAnswer(p)
    PROVE  RInv'
  <1> DEFINE r == run[p]
             status == Judged(db, r.intent, r.readback, r.failed, r.mutation, now)
  <1>1. /\ r.pc = "captured" /\ handle = p
        /\ workspace' = workspace /\ now' = now
    BY Zenon DEF JudgeAnswer, Holds
  <1>2. /\ db \in Db /\ r \in Run /\ Knows(db, issued, r)
    BY Parts, Zenon
  <1>3. CASE Finish(p) /\ db' = db /\ issued' = issued
    <2>1. run' = [run EXCEPT ![p] = Idle] /\ handle' = None
      BY <1>3, Zenon DEF Finish, Become
    <2> QED  BY <1>1, <1>3, <2>1, EndKeeps
  <1>4. CASE Recorded(db, r.intent.pre) /\ StoreReceipt(p, status)
    <2>1. /\ r.claim \in Intent /\ r.intent \in ActionIntent
          /\ r.failed \in BOOLEAN
          /\ db.intents[r.claim] = r.intent
          /\ r.readback > r.intent.pre /\ Recorded(db, r.readback)
      BY <1>1, <1>2, <1>4, RunFields DEF Knows, Maybe
    <2>2. /\ status \in ReceiptStatus
          /\ status = "verified" =>
                /\ IdOf(db.observations[r.readback].payload) = r.intent.identity
                /\ VersionOf(db.observations[r.readback].payload)
                      \notin {None, r.intent.version}
                /\ StateOf(db.observations[r.readback].payload)
                      = r.intent.expected
      BY JudgedProves, Zenon
    <2> HIDE DEF status
    <2>3. status = "verified" => Proves(db, ReceiptOf(r, status))
      <3> DEFINE receipt == ReceiptOf(r, status)
      <3>1. /\ receipt.intent = r.claim /\ receipt.pre = r.intent.pre
            /\ receipt.readback = r.readback
        BY DEF ReceiptOf
      <3> HIDE DEF receipt
      <3>2. status = "verified" => Proves(db, receipt)
        BY <2>1, <2>2, <3>1, NoneIsNoValue DEF Proves, Recorded
      <3> QED  BY <3>2 DEF receipt
    <2> QED  BY <1>1, <1>4, <2>2, <2>3, StoreReceiptKeeps
  <1> QED  BY <1>1, <1>3, <1>4, Zenon DEF JudgeAnswer

LEMMA FailKeeps ==
    ASSUME RInv, NEW p \in Process, FailReadback(p)
    PROVE  RInv'
  <1>1. /\ run[p].pc = "asked" /\ handle = None
        /\ StoreReceipt(p, "readback_failed")
        /\ workspace' = workspace /\ now' = now
    BY Zenon DEF FailReadback
  <1>2. "readback_failed" \in ReceiptStatus
    BY DEF ReceiptStatus
  <1> QED  BY <1>1, <1>2, StoreReceiptKeeps

LEMMA AttachReceiptKeeps ==
    ASSUME RInv, NEW p \in Process, AttachReceipt(p)
    PROVE  RInv'
  <1> DEFINE r == run[p]
  <1>1. /\ r.pc = "receipt" /\ handle = p /\ handle' = None
        /\ db' = IF Declared(db, r.intent.session, r.claim)
                 THEN Attach(db, r.intent.session, r.claim, r.readback, r.receipt)
                 ELSE db
        /\ run' = [run EXCEPT ![p] = Idle]
        /\ issued' = issued /\ workspace' = workspace /\ now' = now
    BY Zenon DEF AttachReceipt, Holds, Finish, Become
  <1>2. /\ db \in Db /\ issued \in Issued /\ StoreHolds(db, issued)
        /\ workspace' \in Workspace /\ now' \in Time /\ r \in Run
        /\ Knows(db, issued, r)
    BY <1>1, Parts, Zenon
  <1> HIDE DEF r
  <1>3. /\ r.claim \in Intent /\ r.intent \in ActionIntent
        /\ r.readback \in Maybe(ObservationId) /\ r.receipt \in Receipt
        /\ db.receipts[r.receipt] # None
        /\ db.receipts[r.receipt].intent = r.claim
        /\ db.receipts[r.receipt].readback = r.readback
    BY <1>1, <1>2, RunFields DEF Knows, Maybe
  <1>4. r.intent.session \in Session
    BY <1>3, IntentFields
  <1>5. StoreHolds(db', issued') /\ Grows(db, issued, db', issued', None)
    <2>1. CASE Declared(db, r.intent.session, r.claim)
      BY <1>1, <1>2, <1>3, <1>4, <2>1, AttachKeeps
    <2>2. CASE ~Declared(db, r.intent.session, r.claim)
      BY <1>1, <1>2, <2>2, GrowsSame
    <2> QED  BY <2>1, <2>2
  <1>6. \A q \in Process \ {p} : run[q].pc # "idle" => run[q].claim # None
    BY Parts, Zenon DEF Knows
  <1>7. /\ Knows(db', issued', Idle) /\ Idle \in Run /\ Idle.pc \notin Holding
        /\ Idle.pc # "begun" /\ p # None
    BY IdleCommand, NoneIsNoValue
  <1> QED  BY <1>1, <1>2, <1>5, <1>6, <1>7, StepOfCommand

-----------------------------------------------------------------------------
(* The other commands, and the world.                                      *)

LEMMA NewSessionKeeps == RInv /\ NewSession => RInv'
  <1> SUFFICES ASSUME RInv, NewSession PROVE RInv'
    OBVIOUS
  <1> DEFINE s == issued.sessions + 1
  <1>1. /\ handle = None /\ handle' = handle /\ run' = run /\ s \in Session
        /\ db' = StartSession(db, s) /\ issued' = [issued EXCEPT !.sessions = s]
        /\ workspace' = workspace /\ now' = now
    BY Zenon DEF NewSession, Alone
  <1>2. /\ StoreHolds(db, issued) /\ workspace' \in Workspace /\ now' \in Time
    BY <1>1, Parts, Zenon
  <1>3. StoreHolds(db', issued') /\ Grows(db, issued, db', issued', None)
    BY <1>1, <1>2, SessionIsEvidenceStep, EvidenceStepKeeps
  <1> QED  BY <1>1, <1>2, <1>3, StepOfNone

LEMMA AddObligationKeeps ==
    ASSUME RInv, NEW claim \in Check, NEW declared \in Declarable,
           NEW evidence \in Maybe(ObservationId),
           AddObligation(claim, declared, evidence)
    PROVE  RInv'
  <1> DEFINE b == [required |-> declared.required, intent |-> None,
                   evidence |-> evidence, receipt |-> None,
                   state |-> declared.state, operation |-> declared.operation]
  <1>1. /\ handle = None /\ handle' = handle /\ run' = run
        /\ db.current # None /\ ~Declared(db, db.current, claim)
        /\ db' = PutObligation(db, db.current, claim, b)
        /\ issued' = issued /\ workspace' = workspace /\ now' = now
    BY Zenon DEF AddObligation, Alone
  <1>2. /\ db \in Db /\ issued \in Issued /\ StoreHolds(db, issued)
        /\ workspace' \in Workspace /\ now' \in Time
    BY <1>1, Parts, Zenon
  <1>3. /\ db.current \in Session /\ claim \in Claim /\ claim \notin Intent
    BY <1>1, <1>2, DbFields, NamesAssumption DEF Maybe, Claim
  <1>4. /\ declared.required \in BOOLEAN /\ declared.state \in RequiredState
        /\ declared.operation \in Maybe(Operation)
    BY DeclarableAssumption
  <1>5. b \in Obligation /\ b.receipt = None
    BY <1>4 DEF Obligation, Maybe
  <1> HIDE DEF b
  <1>6. StoreHolds(db', issued') /\ Grows(db, issued, db', issued', None)
    BY <1>1, <1>2, <1>3, <1>5, PutObligationKeeps, IssuedFields
  <1> QED  BY <1>1, <1>2, <1>6, StepOfNone

\* Steps of evidence that no read-back takes.
LEMMA EvidenceOnlyKeeps ==
    ASSUME RInv, handle = None, handle' = handle, run' = run,
           workspace' = workspace, now' = now,
           EvidenceStep(db, issued, db', issued')
    PROVE  RInv'
  <1>1. /\ StoreHolds(db, issued) /\ workspace' \in Workspace /\ now' \in Time
    BY Parts, Zenon
  <1>2. StoreHolds(db', issued') /\ Grows(db, issued, db', issued', None)
    BY <1>1, EvidenceStepKeeps
  <1> QED  BY <1>1, <1>2, StepOfNone

LEMMA CaptureOtherKeeps ==
    ASSUME RInv, NEW e \in Other, CaptureOther(e)
    PROVE  RInv'
  <1> DEFINE o == issued.observations + 1
  <1>1. /\ handle = None /\ handle' = handle /\ run' = run
        /\ o \in ObservationId /\ db' = Record(db, o, e)
        /\ issued' = [issued EXCEPT !.observations = o]
        /\ workspace' = workspace /\ now' = now
    BY Zenon DEF CaptureOther, Alone
  <1>2. StoreHolds(db, issued) /\ e \in Captured
    BY Parts, CapturedAssumption
  <1>3. EvidenceStep(db, issued, db', issued')
    BY <1>1, <1>2, RecordIsEvidenceStep
  <1> QED  BY <1>1, <1>3, EvidenceOnlyKeeps

LEMMA LosePayloadKeeps ==
    ASSUME RInv, NEW c, LosePayload(c)
    PROVE  RInv'
  <1>1. /\ handle = None /\ handle' = handle /\ run' = run
        /\ db' = Lose(db, c) /\ issued' = issued
        /\ workspace' = workspace /\ now' = now
    BY Zenon DEF LosePayload, Alone
  <1>2. StoreHolds(db, issued)
    BY Parts
  <1> QED  BY <1>1, <1>2, LoseIsEvidenceStep, EvidenceOnlyKeeps

LEMMA ExpireKeeps ==
    ASSUME RInv, NEW o \in ObservationId, Expire(o)
    PROVE  RInv'
  <1>1. /\ handle = None /\ handle' = handle /\ run' = run
        /\ db.observations[o] # None
        /\ db' = [db EXCEPT !.observations[o].availability = "expired"]
        /\ issued' = issued /\ workspace' = workspace /\ now' = now
    BY Zenon DEF Expire, Alone, Supports, Recorded
  <1>2. StoreHolds(db, issued)
    BY Parts
  <1> QED  BY <1>1, <1>2, ExpiryIsEvidenceStep, EvidenceOnlyKeeps

LEMMA PurgeKeeps == RInv /\ PurgeStore => RInv'
  <1> SUFFICES ASSUME RInv, PurgeStore PROVE RInv'
    OBVIOUS
  <1>1. /\ handle = None /\ handle' = handle /\ run' = run /\ db' = Empty
        /\ issued' = issued /\ workspace' = workspace /\ now' = now
    BY Zenon DEF PurgeStore, Alone
  <1>2. issued \in Issued /\ workspace' \in Workspace /\ now' \in Time
    BY <1>1, Parts, Zenon
  <1>3. StoreHolds(db', issued') /\ Grows(db, issued, db', issued', None)
    BY <1>1, <1>2, EmptyHolds
  <1> QED  BY <1>1, <1>2, <1>3, StepOfNone

LEMMA WorldKeeps == RInv /\ (EditWorkspace \/ Tick) => RInv'
  <1> SUFFICES ASSUME RInv, EditWorkspace \/ Tick PROVE RInv'
    OBVIOUS
  <1>1. /\ db' = db /\ issued' = issued /\ handle' = handle /\ run' = run
        /\ \/ workspace' \in Workspace /\ now' = now
           \/ workspace' = workspace /\ now < MaxTime /\ now' = now + 1
    BY Zenon DEF EditWorkspace, Tick
  <1>2. /\ StoreHolds(db', issued') /\ workspace \in Workspace /\ now \in Time
    BY <1>1, Parts, Zenon
  <1>3. workspace' \in Workspace /\ now' \in Time
    BY <1>1, <1>2, BoundsAssumption DEF Time
  <1> QED  BY <1>1, <1>2, <1>3, StepOfNone

LEMMA InitHolds == Init => RInv
  <1> SUFFICES ASSUME Init PROVE RInv
    OBVIOUS
  <1>1. issued \in Issued
    BY BoundsAssumption DEF Init, Issued
  <1>2. StoreHolds(db, issued) /\ db \in Db
    BY <1>1, EmptyHolds, Zenon DEF Init, StoreHolds
  <1>3. /\ workspace \in Workspace /\ now \in Time
        /\ handle = None /\ handle \in Maybe(Process)
    BY BoundsAssumption DEF Init, Time, Maybe
  <1>4. /\ run \in [Process -> Run]
        /\ \A p \in Process : run[p] = Idle
    BY IdleCommand DEF Init
  <1>5. TypeOK
    BY <1>1, <1>2, <1>3, <1>4 DEF TypeOK
  <1> QED  BY <1>2, <1>3, <1>4, <1>5, IdleCommand, NoneIsNoValue
           DEF RInv, Holds

LEMMA CommandKeeps ==
    ASSUME RInv, NEW p \in Process, ReadbackStep(p)
    PROVE  RInv'
  <1>1. CASE \E o \in ObservationId, expected \in State, until \in Deadline :
                BeginVerification(p, o, expected, until)
    BY <1>1, BeginKeeps
  <1>2. CASE \E i \in Intent, o \in Maybe(ObservationId) : StartReadback(p, i, o)
    BY <1>2, StartReadbackKeeps
  <1>3. CASE \E answer \in Answers, kept \in BOOLEAN :
                CaptureAnswer(p, answer, kept)
    BY <1>3, CaptureAnswerKeeps
  <1>4. CASE Crash(p)
    <2>1. /\ run' = [run EXCEPT ![p] = Idle] /\ db' = db /\ issued' = issued
          /\ workspace' = workspace /\ now' = now
          /\ handle' = IF handle = p THEN None ELSE handle
      BY <1>4, Zenon DEF Crash, Become, Holds
    <2> QED  BY <2>1, EndKeeps
  <1> QED  BY <1>1, <1>2, <1>3, <1>4, StoreIntentKeeps, JudgeKeeps, FailKeeps,
           AttachReceiptKeeps, Zenon DEF ReadbackStep

LEMMA OtherKeeps ==
    ASSUME RInv, OtherStep
    PROVE  RInv'
  <1>1. CASE \E claim \in Check, declared \in Declarable,
                evidence \in Maybe(ObservationId) :
                AddObligation(claim, declared, evidence)
    BY <1>1, AddObligationKeeps
  <1>2. CASE \E e \in Other : CaptureOther(e)
    BY <1>2, CaptureOtherKeeps
  <1>3. CASE \E c \in Payload : LosePayload(c)
    BY <1>3, LosePayloadKeeps
  <1>4. CASE \E o \in ObservationId : Expire(o)
    BY <1>4, ExpireKeeps
  <1> QED  BY <1>1, <1>2, <1>3, <1>4, NewSessionKeeps, PurgeKeeps, WorldKeeps,
           Zenon DEF OtherStep

LEMMA StepPreserves == RInv /\ [Next]_vars => RInv'
  <1> SUFFICES ASSUME RInv, [Next]_vars PROVE RInv'
    OBVIOUS
  <1>1. CASE UNCHANGED vars
    <2>1. /\ db' = db /\ issued' = issued /\ handle' = handle /\ run' = run
          /\ workspace' = workspace /\ now' = now
      BY <1>1 DEF vars
    <2>2. StoreHolds(db', issued') /\ workspace' \in Workspace /\ now' \in Time
      BY <2>1, Parts, Zenon
    <2> QED  BY <2>1, <2>2, StepOfNone
  <1> QED  BY <1>1, OtherKeeps, CommandKeeps, Zenon DEF Next

-----------------------------------------------------------------------------
(* The theorems.                                                           *)

\* The store of obligations, intents and receipts is consistent, and what a
\* command remembers of it is so or was purged as a whole.
THEOREM ReadinessInvariant == Spec => []RInv
  <1> QED  BY InitHolds, StepPreserves, PTL DEF Spec

\* An intent that can be read back always has its required obligation, wherever
\* `verification begin` died.
THEOREM IntentsStayDeclared == Spec => []IntentsAreDeclared
  <1>1. RInv => IntentsAreDeclared
    <2> SUFFICES ASSUME RInv, NEW i \in Intent, db.intents[i] # None
                 PROVE  LET k == <<db.intents[i].session, i>>
                        IN  /\ db.obligations[k] # None
                            /\ db.obligations[k].required
                            /\ db.obligations[k].intent = i
      BY Zenon DEF IntentsAreDeclared
    <2>1. db \in Db /\ StoreHolds(db, issued)
      BY Parts
    <2>2. db.intents[i].session \in Session /\ i \in Claim
      BY <2>1, DbFields, IntentFields DEF Maybe, Claim
    <2> QED  BY <2>1, <2>2 DEF StoreHolds, IntentsHold, ObligationsHold, Declared
  <1> QED  BY <1>1, ReadinessInvariant, PTL

\* The obligation of a stored intent that passes has a receipt that still
\* verifies it.
LEMMA PassHasReceipt ==
    ASSUME NEW d \in Db, NEW n, NEW tree, StoreHolds(d, n), NEW s \in Session,
           NEW i \in Intent, Passes(d, tree, s, i)
    PROVE  LET b == d.obligations[<<s, i>>]
               r == d.receipts[b.receipt]
           IN  /\ b.receipt \in Receipt /\ r \in ReadbackReceipt
               /\ r.intent = i /\ r.readback = b.evidence
               /\ EvidenceAvailable(d, s, i, r) /\ Proves(d, r)
  <1> DEFINE k == <<s, i>>
             b == d.obligations[k]
             r == d.receipts[b.receipt]
  <1>1. k \in Session \X Claim /\ i \in Claim
    BY DEF Claim
  <1>2. b \in Obligation
    BY <1>1, DbFields DEF Passes, Declared, Maybe
  <1>3. /\ b.receipt = None => b.evidence = None
        /\ b.receipt # None => r # None /\ r.intent = i /\ r.readback = b.evidence
    BY <1>1, <1>2, NoneIsNoValue DEF StoreHolds, ObligationsHold
  <1>4. Standing(d, tree, s, i) = "passed"
    BY DEF Passes
  <1>5. b.receipt # None
    BY <1>3, <1>4, Zenon DEF Standing
  <1>6. ReceiptStanding(d, s, i, r) = "passed"
    BY <1>4, <1>5, Zenon DEF Standing
  <1>7. b.receipt \in Receipt /\ r \in ReadbackReceipt
    BY <1>2, <1>3, <1>5, DbFields DEF Obligation, Maybe
  <1> HIDE DEF r, b
  <1>8. r.status \in ReceiptStatus
    BY <1>7 DEF ReadbackReceipt
  <1>9. r.status = "verified" /\ EvidenceAvailable(d, s, i, r)
    BY <1>6, <1>8 DEF ReceiptStanding, Worth, ReceiptStatus
  <1>10. Proves(d, r)
    BY <1>3, <1>5, <1>7, <1>9 DEF StoreHolds, VerdictsHold, r
  <1> QED  BY <1>3, <1>5, <1>7, <1>9, <1>10 DEF r, b

\* A ready session has, for every mutation announced in it, evidence that can
\* be read now: the obligation of the intent is required, it passes, and so its
\* receipt rests on payloads that are there and show what the intent expected.
THEOREM ReadyIsVerified == Spec => []ReadyMeansVerified
  <1>1. RInv => ReadyMeansVerified
    <2> SUFFICES ASSUME RInv, NEW s \in Session, Ready(db, workspace, s),
                        NEW i \in Intent, db.intents[i] # None,
                        db.intents[i].session = s
                 PROVE  Verified(db, i)
      BY DEF ReadyMeansVerified
    <2> DEFINE intent == db.intents[i]
               b == db.obligations[<<s, i>>]
               r == db.receipts[b.receipt]
               before == db.observations[intent.pre].payload
               after == db.observations[b.evidence].payload
    <2>1. db \in Db /\ StoreHolds(db, issued)
      BY Parts
    <2>2. i \in Claim /\ intent \in ActionIntent
      BY <2>1, DbFields DEF Maybe, Claim
    <2>3. Declared(db, s, i) /\ b.required /\ Describes(db, intent)
      BY <2>1, <2>2, Zenon DEF StoreHolds, IntentsHold, ObligationsHold, Declared
    <2>4. Passes(db, workspace, s, i)
      BY <2>2, <2>3, Zenon DEF Ready
    <2>5. /\ r.intent = i /\ r.readback = b.evidence
          /\ EvidenceAvailable(db, s, i, r) /\ Proves(db, r)
      BY <2>1, <2>4, PassHasReceipt
    <2> HIDE DEF r, b
    <2>6. /\ b.evidence # None /\ b.evidence > intent.pre
          /\ intent.pre = r.pre
          /\ before \in db.payloads /\ after \in db.payloads
      BY <2>5 DEF EvidenceAvailable, Proves, Supports
    <2>7. /\ IdOf(before) = intent.identity /\ VersionOf(before) = intent.version
          /\ IdOf(after) = intent.identity
          /\ VersionOf(after) # intent.version /\ StateOf(after) = intent.expected
      BY <2>3, <2>5 DEF Describes, Proves
    <2>8. intent.identity # None
      BY <2>2, IntentFields, NoneIsNoValue
    <2> HIDE DEF before, after, intent
    <2>9. before \in Entity /\ after \in Entity
      BY <2>7, <2>8 DEF IdOf
    <2>10. /\ before.id = after.id /\ after.version # before.version
           /\ after.state = intent.expected
      BY <2>7, <2>9 DEF IdOf, VersionOf, StateOf
    <2> QED  BY <2>6, <2>10 DEF Verified, before, after, intent, b
  <1> QED  BY <1>1, ReadinessInvariant, PTL
-----------------------------------------------------------------------------
(* A pass is earned.                                                       *)

\* What a step leaves to the obligations that were declared: one that keeps
\* its receipt is as it was, what a receipt and an intent say does not change,
\* and an observation that is still live was left alone.  Everything may be
\* purged.
Wanes(d, n, e) ==
    /\ \A s \in Session, claim \in Claim :
          /\ Declared(d, s, claim) /\ Declared(e, s, claim)
          /\ e.obligations[<<s, claim>>].receipt
                = d.obligations[<<s, claim>>].receipt
          => e.obligations[<<s, claim>>] = d.obligations[<<s, claim>>]
    /\ \A r \in Receipt : d.receipts[r] # None =>
          e.receipts[r] \in {None, d.receipts[r]}
    /\ \A i \in Intent : d.intents[i] # None =>
          e.intents[i] \in {None, d.intents[i]}
    /\ \A o \in ObservationId :
          /\ o <= n.observations /\ Recorded(e, o)
          => /\ Recorded(d, o)
             /\ e.observations[o].availability \in Live =>
                   e.observations[o] = d.observations[o]

Honest(d, n, e, m) == Wanes(d, n, e) /\ NamesHold(e, m)

\* A step that names what was issued, and forgets nothing that was recorded.
KeepsNames(d, n, e) ==
    /\ \A s \in Session, claim \in Check :
          \/ ~Declared(e, s, claim)
          \/ e.obligations[<<s, claim>>] = d.obligations[<<s, claim>>]
          \/ e.obligations[<<s, claim>>].evidence
                \in Maybe(1 .. n.observations)
    /\ \A r \in Receipt :
          \/ e.receipts[r] = d.receipts[r]
          \/ /\ e.receipts[r] # None /\ e.receipts[r].status = "verified"
             => \/ e.receipts[r].mutation = None
                \/ Recorded(d, e.receipts[r].mutation)
    /\ \A o \in ObservationId : Recorded(d, o) => Recorded(e, o)

LEMMA HonestStep ==
    ASSUME NEW d, NEW n, StoreHolds(d, n), NamesHold(d, n),
           NEW e \in Db, NEW m \in Issued, n.observations <= m.observations,
           Wanes(d, n, e), KeepsNames(d, n, e)
    PROVE  Honest(d, n, e, m)
  <1>1. n \in Issued /\ d \in Db
    BY DEF StoreHolds
  <1>2. n.observations \in Nat /\ m.observations \in Nat
    BY <1>1, IssuedFields
  <1>3. Maybe(1 .. n.observations) \subseteq Maybe(1 .. m.observations)
    BY <1>2 DEF Maybe
  <1>4. ASSUME NEW s \in Session, NEW claim \in Check, Declared(e, s, claim)
        PROVE  e.obligations[<<s, claim>>].evidence
                  \in Maybe(1 .. m.observations)
    <2>1. e.obligations[<<s, claim>>].evidence \in Maybe(1 .. n.observations)
      BY <1>4, Zenon DEF NamesHold, Declared, KeepsNames
    <2> QED  BY <1>3, <2>1, Zenon
  <1>5. ASSUME NEW r \in Receipt, e.receipts[r] # None,
               e.receipts[r].status = "verified"
        PROVE  \/ e.receipts[r].mutation = None
               \/ Recorded(e, e.receipts[r].mutation)
    <2>1. \/ e.receipts[r].mutation = None
          \/ Recorded(d, e.receipts[r].mutation)
      BY <1>5, Zenon DEF NamesHold, KeepsNames
    <2>2. e.receipts[r].mutation \in Maybe(ObservationId)
      BY <1>5, DbFields DEF Maybe, ReadbackReceipt
    <2> QED  BY <2>1, <2>2, Zenon DEF Maybe, KeepsNames, Recorded
  <1> QED  BY <1>4, <1>5 DEF Honest, NamesHold

LEMMA EvidenceStepIsHonest ==
    ASSUME NEW d, NEW n, StoreHolds(d, n), NamesHold(d, n), NEW e, NEW m,
           EvidenceStep(d, n, e, m)
    PROVE  Honest(d, n, e, m)
  <1>1. e \in Db /\ m \in Issued /\ n.observations <= m.observations
    BY DEF EvidenceStep
  <1>2. \A o \in ObservationId : Recorded(d, o) => Recorded(e, o)
    BY DEF EvidenceStep, Recorded
  <1>3. Wanes(d, n, e)
    BY DEF EvidenceStep, Wanes, Recorded
  <1>4. e.obligations = d.obligations /\ e.receipts = d.receipts
    BY DEF EvidenceStep
  <1>5. KeepsNames(d, n, e)
    BY <1>2, <1>4 DEF KeepsNames
  <1> QED  BY <1>1, <1>3, <1>5, HonestStep

\* Whatever was issued, an empty store rests on nothing.
LEMMA EmptyIsHonest ==
    ASSUME NEW d, NEW n, NEW m
    PROVE  Honest(d, n, Empty, m)
  <1>1. /\ \A o \in ObservationId : Empty.observations[o] = None
        /\ \A s \in Session, c \in Claim : Empty.obligations[<<s, c>>] = None
        /\ \A i \in Intent : Empty.intents[i] = None
        /\ \A r \in Receipt : Empty.receipts[r] = None
    BY DEF Empty
  <1>2. Check \subseteq Claim
    BY DEF Claim
  <1> QED  BY <1>1, <1>2 DEF Honest, Wanes, NamesHold, Declared, Recorded

LEMMA PutObligationIsHonest ==
    ASSUME NEW d, NEW n, StoreHolds(d, n), NamesHold(d, n), NEW s \in Session,
           NEW claim \in Claim, NEW b, ~Declared(d, s, claim),
           claim \in Check => b.evidence \in Maybe(1 .. n.observations),
           NEW m \in Issued, m.observations = n.observations,
           PutObligation(d, s, claim, b) \in Db
    PROVE  Honest(d, n, PutObligation(d, s, claim, b), m)
  <1> DEFINE e == PutObligation(d, s, claim, b)
  <1>1. d \in Db /\ n.observations \in Nat
    BY IssuedFields DEF StoreHolds
  <1>2. /\ e.observations = d.observations
        /\ e.obligations = [d.obligations EXCEPT ![<<s, claim>>] = b]
        /\ e.intents = d.intents /\ e.receipts = d.receipts
    BY <1>1 DEF PutObligation, Db
  <1> HIDE DEF e
  <1>3. ASSUME NEW t \in Session, NEW c \in Claim
        PROVE  e.obligations[<<t, c>>] =
                  IF t = s /\ c = claim THEN b ELSE d.obligations[<<t, c>>]
    BY <1>1, <1>2, DbFields
  <1>4. Wanes(d, n, e)
    BY <1>2, <1>3 DEF Wanes, Declared, Recorded
  <1>5. Check \subseteq Claim /\ n.observations <= m.observations /\ e \in Db
    BY <1>1 DEF Claim, e
  <1>6. KeepsNames(d, n, e)
    BY <1>2, <1>3, <1>5 DEF KeepsNames, Recorded
  <1> QED  BY <1>4, <1>5, <1>6, HonestStep DEF e

LEMMA PutIntentIsHonest ==
    ASSUME NEW d, NEW n, StoreHolds(d, n), NamesHold(d, n), NEW i \in Intent,
           NEW intent, d.intents[i] = None, PutIntent(d, i, intent) \in Db
    PROVE  Honest(d, n, PutIntent(d, i, intent), n)
  <1> DEFINE e == PutIntent(d, i, intent)
  <1>1. d \in Db /\ n \in Issued /\ n.observations \in Nat
    BY IssuedFields DEF StoreHolds
  <1>2. /\ e.observations = d.observations
        /\ e.obligations = d.obligations
        /\ e.intents = [d.intents EXCEPT ![i] = intent]
        /\ e.receipts = d.receipts
    BY <1>1 DEF PutIntent, Db
  <1> HIDE DEF e
  <1>3. \A j \in Intent \ {i} : e.intents[j] = d.intents[j]
    BY <1>1, <1>2, DbFields
  <1>4. Wanes(d, n, e)
    BY <1>2, <1>3 DEF Wanes, Recorded
  <1>5. n.observations <= n.observations /\ e \in Db
    BY <1>1 DEF e
  <1>6. KeepsNames(d, n, e)
    BY <1>2 DEF KeepsNames, Recorded
  <1> QED  BY <1>1, <1>4, <1>5, <1>6, HonestStep DEF e

LEMMA PutReceiptIsHonest ==
    ASSUME NEW d, NEW n, StoreHolds(d, n), NamesHold(d, n), NEW r \in Receipt,
           r = n.receipts + 1, NEW receipt,
           receipt.status = "verified" =>
              receipt.mutation = None \/ Recorded(d, receipt.mutation),
           NEW m \in Issued, m.observations = n.observations,
           PutReceipt(d, r, receipt) \in Db
    PROVE  Honest(d, n, PutReceipt(d, r, receipt), m)
  <1> DEFINE e == PutReceipt(d, r, receipt)
  <1>1. d \in Db /\ n.observations \in Nat /\ d.receipts[r] = None
    BY IssuedFields, NextIsFree DEF StoreHolds
  <1>2. /\ e.observations = d.observations
        /\ e.obligations = d.obligations
        /\ e.intents = d.intents
        /\ e.receipts = [d.receipts EXCEPT ![r] = receipt]
    BY <1>1 DEF PutReceipt, Db
  <1> HIDE DEF e
  <1>3. /\ e.receipts[r] = receipt
        /\ \A x \in Receipt \ {r} : e.receipts[x] = d.receipts[x]
    BY <1>1, <1>2, DbFields
  <1>4. Wanes(d, n, e)
    BY <1>1, <1>2, <1>3 DEF Wanes, Recorded
  <1>5. n.observations <= m.observations /\ e \in Db
    BY <1>1 DEF e
  <1>6. KeepsNames(d, n, e)
    BY <1>2, <1>3 DEF KeepsNames, Recorded
  <1> QED  BY <1>4, <1>5, <1>6, HonestStep DEF e

\* The receipt that an obligation already has changes nothing of it.
LEMMA AttachIsHonest ==
    ASSUME NEW d, NEW n, StoreHolds(d, n), NamesHold(d, n), NEW s \in Session,
           NEW claim \in Intent, Declared(d, s, claim), NEW r \in Receipt,
           NEW evidence \in Maybe(ObservationId), d.receipts[r].readback = evidence,
           Attach(d, s, claim, evidence, r) \in Db
    PROVE  Honest(d, n, Attach(d, s, claim, evidence, r), n)
  <1> DEFINE k == <<s, claim>>
             b == d.obligations[k]
             f == [[b EXCEPT !.evidence = evidence] EXCEPT !.receipt = r]
             e == Attach(d, s, claim, evidence, r)
  <1>1. d \in Db /\ n \in Issued /\ n.observations \in Nat /\ claim \in Claim
    BY IssuedFields DEF StoreHolds, Claim
  <1>2. b \in Obligation /\ k \in Session \X Claim
    BY <1>1, DbFields DEF Maybe, Declared
  <1>3. e = [d EXCEPT !.obligations = [d.obligations EXCEPT ![k] = f]]
    BY <1>1, <1>2, DbFields, ZenonT(60) DEF Attach, Db
  <1>4. f.receipt = r /\ (b.receipt = r /\ b.evidence = evidence => f = b)
    BY <1>2 DEF Obligation
  <1> HIDE DEF f
  <1>5. /\ e.observations = d.observations
        /\ e.obligations = [d.obligations EXCEPT ![k] = f]
        /\ e.intents = d.intents /\ e.receipts = d.receipts
    BY <1>1, <1>3 DEF Db
  <1> HIDE DEF e
  <1>6. ASSUME NEW t \in Session, NEW c \in Claim
        PROVE  e.obligations[<<t, c>>] =
                  IF t = s /\ c = claim THEN f ELSE d.obligations[<<t, c>>]
    BY <1>1, <1>5, DbFields
  <1>7. b.receipt = r => b.evidence = evidence
    BY <1>1, NoneIsNoValue DEF StoreHolds, ObligationsHold, Declared
  <1>8. Wanes(d, n, e)
    BY <1>4, <1>5, <1>6, <1>7 DEF Wanes, Recorded
  <1>9. Check \subseteq Claim /\ claim \notin Check
    BY NamesAssumption DEF Claim
  <1>10. n.observations <= n.observations /\ e \in Db
    BY <1>1 DEF e
  <1>11. \A t \in Session, c \in Check :
            e.obligations[<<t, c>>] = d.obligations[<<t, c>>]
    BY <1>6, <1>9
  <1>12. KeepsNames(d, n, e)
    BY <1>5, <1>11 DEF KeepsNames, Recorded
  <1> QED  BY <1>1, <1>8, <1>10, <1>12, HonestStep DEF e
LEMMA SupportWanes ==
    ASSUME NEW d, NEW n, StoreHolds(d, n), NEW e, Wanes(d, n, e),
           NEW o \in Maybe(ObservationId), Recorded(d, o), Supports(e, o)
    PROVE  Supports(d, o) /\ e.observations[o] = d.observations[o]
  <1>1. o \in ObservationId /\ o <= n.observations
    BY RecordedIsIssued DEF Maybe, Recorded
  <1>2. e.observations[o] = d.observations[o]
    BY <1>1 DEF Wanes, Supports
  <1>3. d.observations[o].payload \in d.payloads
    BY <1>1, <1>2 DEF StoreHolds, EvidenceHolds, Supports, Recorded
  <1> QED  BY <1>2, <1>3 DEF Supports

\* A receipt that is enough after such a step was enough before.
LEMMA ReceiptsWane ==
    ASSUME NEW d, NEW n, StoreHolds(d, n), NamesHold(d, n), NEW e,
           Wanes(d, n, e), NEW s \in Session, NEW claim \in Claim,
           e.obligations[<<s, claim>>] = d.obligations[<<s, claim>>],
           NEW x \in Receipt, d.receipts[x] # None,
           ReceiptStanding(e, s, claim, e.receipts[x]) = "passed"
    PROVE  ReceiptStanding(d, s, claim, d.receipts[x]) = "passed"
  <1> DEFINE r == d.receipts[x]
             i == r.intent
  <1>1. d \in Db /\ r \in ReadbackReceipt
    BY DbFields DEF StoreHolds, Maybe
  <1>2. e.receipts[x] = r
    BY DEF ReceiptStanding, Wanes
  <1> HIDE DEF r
  <1>3. /\ r.status \in ReceiptStatus /\ i \in Intent
        /\ r.pre \in ObservationId /\ r.mutation \in Maybe(ObservationId)
        /\ r.readback \in Maybe(ObservationId)
    BY <1>1 DEF ReadbackReceipt
  <1>4. /\ i = claim /\ r.status = "verified"
        /\ EvidenceAvailable(e, s, claim, r)
    BY <1>2, <1>3 DEF ReceiptStanding, Worth, ReceiptStatus
  <1>5. Proves(d, r)
    BY <1>4 DEF StoreHolds, VerdictsHold, r
  <1>6. /\ d.intents[i] # None /\ e.intents[i] = d.intents[i]
        /\ d.intents[i].pre = r.pre
    BY <1>3, <1>4, <1>5 DEF Proves, EvidenceAvailable, Wanes
  <1>7. Recorded(d, r.pre)
    <2>1. Describes(d, d.intents[i])
      BY <1>3, <1>6 DEF StoreHolds, IntentsHold
    <2> QED  BY <1>3, <1>6, <2>1, NoneIsNoValue DEF Describes, Recorded
  <1>8. Recorded(d, r.readback)
    BY <1>5 DEF Proves, Recorded
  <1>9. r.mutation # None => Recorded(d, r.mutation)
    BY <1>4 DEF NamesHold, r
  <1>10. /\ Supports(d, r.pre) /\ Supports(d, r.readback)
         /\ r.mutation # None => Supports(d, r.mutation)
    <2>1. /\ Supports(e, r.pre) /\ Supports(e, r.readback)
          /\ r.mutation # None => Supports(e, r.mutation)
      BY <1>4 DEF EvidenceAvailable
    <2>2. r.pre \in Maybe(ObservationId)
      BY <1>3 DEF Maybe
    <2> QED  BY <1>3, <1>7, <1>8, <1>9, <2>1, <2>2, SupportWanes
  <1>11. EvidenceAvailable(d, s, claim, r)
    BY <1>4, <1>6, <1>10 DEF EvidenceAvailable
  <1>12. r # None
    BY <1>1, NoneIsNoValue
  <1> QED  BY <1>4, <1>11, <1>12 DEF ReceiptStanding, Worth, r

\* A check that passes after such a step passed before.
LEMMA ChecksWane ==
    ASSUME NEW d, NEW n, StoreHolds(d, n), NEW e, Wanes(d, n, e), NEW tree,
           NEW b, b.evidence \in 1 .. n.observations,
           b.evidence \in ObservationId, CheckStanding(e, tree, b) = "passed"
    PROVE  CheckStanding(d, tree, b) = "passed"
  <1> DEFINE o == b.evidence
  <1>1. e.observations[o] # None /\ e.observations[o].availability = "recoverable"
    BY DEF CheckStanding
  <1>2. "recoverable" \in Live
    BY DEF Live
  <1>3. o # None /\ o <= n.observations
    BY NoneIsNoValue, IssuedFields DEF StoreHolds
  <1>4. e.observations[o] = d.observations[o] /\ d.observations[o] # None
    BY <1>1, <1>2, <1>3 DEF Wanes, Recorded
  <1>5. d.observations[o].payload \in d.payloads
    BY <1>1, <1>2, <1>4 DEF StoreHolds, EvidenceHolds
  <1>6. OutcomeStanding(e, e.observations[o]) = "passed"
    BY Zenon DEF CheckStanding
  <1>7. OutcomeStanding(d, d.observations[o]) = "passed"
    BY <1>4, <1>5, <1>6 DEF OutcomeStanding
  <1> QED  BY <1>4, <1>7, Zenon DEF CheckStanding

\* So an obligation that keeps its receipt does not begin to pass.
LEMMA PassesWane ==
    ASSUME NEW d, NEW n, StoreHolds(d, n), NamesHold(d, n), NEW e,
           Wanes(d, n, e), NEW tree, NEW s \in Session, NEW claim \in Claim,
           Declared(d, s, claim),
           e.obligations[<<s, claim>>].receipt
              = d.obligations[<<s, claim>>].receipt,
           Passes(e, tree, s, claim)
    PROVE  Passes(d, tree, s, claim)
  <1> DEFINE b == d.obligations[<<s, claim>>]
  <1>1. e.obligations[<<s, claim>>] = b
    BY DEF Passes, Wanes
  <1>2. d \in Db /\ b \in Obligation /\ b # None
    BY DbFields DEF StoreHolds, Maybe, Declared
  <1>3. b.receipt \in Maybe(Receipt) /\ b.evidence \in Maybe(ObservationId)
    BY <1>2 DEF Obligation
  <1>4. Standing(e, tree, s, claim) = "passed"
    BY DEF Passes
  <1>5. CASE b.receipt # None
    <2>1. ReceiptStanding(e, s, claim, e.receipts[b.receipt]) = "passed"
      BY <1>1, <1>4, <1>5, Zenon DEF Standing
    <2>2. b.receipt \in Receipt /\ d.receipts[b.receipt] # None
      BY <1>2, <1>3, <1>5 DEF StoreHolds, ObligationsHold, Maybe
    <2>3. ReceiptStanding(d, s, claim, d.receipts[b.receipt]) = "passed"
      BY <1>1, <2>1, <2>2, ReceiptsWane
    <2> QED  BY <1>5, <2>3, Zenon DEF Passes, Standing
  <1>6. CASE b.receipt = None
    <2>1. b.evidence # None /\ CheckStanding(e, tree, b) = "passed"
      <3>1. b.evidence # None
        BY <1>1, <1>4, <1>6, Zenon DEF Standing
      <3> QED  BY <1>1, <1>4, <1>6, <3>1, Zenon DEF Standing
    <2>2. claim \in Check
      BY <1>2, <1>6, <2>1 DEF StoreHolds, ObligationsHold, Claim
    <2>3. b.evidence \in 1 .. n.observations
      BY <2>1, <2>2 DEF NamesHold, Maybe
    <2>4. b.evidence \in ObservationId
      BY <1>3, <2>1 DEF Maybe
    <2> HIDE DEF b
    <2>5. CheckStanding(d, tree, b) = "passed"
      BY <2>1, <2>3, <2>4, ChecksWane
    <2> QED  BY <1>6, <2>1, <2>5, Zenon DEF Passes, Standing, b
  <1> QED  BY <1>5, <1>6
LEMMA SameIsHonest ==
    ASSUME NEW d, NEW n, StoreHolds(d, n), NamesHold(d, n)
    PROVE  Honest(d, n, d, n)
  BY DEF Honest, Wanes

\* The steps of a read-back.  Only one that has the response is verified.
LEMMA StoreReceiptIsHonest ==
    ASSUME PassInv, RInv', NEW p \in Process, NEW status,
           StoreReceipt(p, status),
           status = "verified" =>
              run[p].mutation = None \/ Recorded(db, run[p].mutation)
    PROVE  Honest(db, issued, db', issued')
  <1> DEFINE n == issued.receipts + 1
             receipt == ReceiptOf(run[p], status)
  <1>1. /\ n \in Receipt /\ db' = PutReceipt(db, n, receipt)
        /\ issued' = [issued EXCEPT !.receipts = n]
    BY Zenon DEF StoreReceipt
  <1>2. StoreHolds(db, issued) /\ NamesHold(db, issued) /\ issued \in Issued
    BY Parts, Zenon DEF PassInv
  <1>3. db' \in Db /\ issued' \in Issued
    BY Zenon DEF RInv, TypeOK
  <1>4. issued'.observations = issued.observations
    BY <1>1, <1>2 DEF Issued
  <1>5. receipt.status = status /\ receipt.mutation = run[p].mutation
    BY DEF ReceiptOf
  <1>6. n = issued.receipts + 1
    OBVIOUS
  <1> HIDE DEF receipt, n
  <1> QED  BY <1>1, <1>2, <1>3, <1>4, <1>5, <1>6, PutReceiptIsHonest

LEMMA JudgedWithResponse ==
    ASSUME NEW d, NEW intent, NEW o, NEW failed, NEW x, NEW instant,
           Judged(d, intent, o, failed, x, instant) = "verified"
    PROVE  ~failed /\ d.observations[o].payload \in d.payloads
  BY DEF Judged

LEMMA JudgeIsHonest ==
    ASSUME PassInv, RInv', NEW p \in Process, JudgeAnswer(p)
    PROVE  Honest(db, issued, db', issued')
  <1> DEFINE r == run[p]
             status == Judged(db, r.intent, r.readback, r.failed, r.mutation, now)
             unknown == /\ ~r.failed
                        /\ db.observations[r.readback].payload \in db.payloads
                        /\ r.mutation # None /\ ~Recorded(db, r.mutation)
  <1>1. StoreHolds(db, issued) /\ NamesHold(db, issued)
    BY Parts, Zenon DEF PassInv
  <1>2. \/ db' = db /\ issued' = issued
        \/ ~unknown /\ StoreReceipt(p, status)
    BY Zenon DEF JudgeAnswer
  <1>3. status = "verified" =>
           ~r.failed /\ db.observations[r.readback].payload \in db.payloads
    BY JudgedWithResponse, Zenon
  <1>4. CASE db' = db /\ issued' = issued
    BY <1>1, <1>4, SameIsHonest
  <1>5. CASE ~unknown /\ StoreReceipt(p, status)
    <2>1. status = "verified" => r.mutation = None \/ Recorded(db, r.mutation)
      BY <1>3, <1>5, Zenon
    <2> HIDE DEF status
    <2> QED  BY <1>5, <2>1, StoreReceiptIsHonest
  <1> QED  BY <1>2, <1>4, <1>5

LEMMA AttachReceiptIsHonest ==
    ASSUME PassInv, RInv', NEW p \in Process, AttachReceipt(p)
    PROVE  Honest(db, issued, db', issued')
  <1> DEFINE r == run[p]
  <1>1. /\ r.pc = "receipt" /\ issued' = issued
        /\ db' = IF Declared(db, r.intent.session, r.claim)
                 THEN Attach(db, r.intent.session, r.claim, r.readback, r.receipt)
                 ELSE db
    BY Zenon DEF AttachReceipt
  <1>2. /\ StoreHolds(db, issued) /\ NamesHold(db, issued) /\ r \in Run
        /\ Knows(db, issued, r)
    BY Parts, Zenon DEF PassInv
  <1>3. db' \in Db
    BY Zenon DEF RInv, TypeOK
  <1> HIDE DEF r
  <1>4. /\ r.claim \in Intent /\ r.intent \in ActionIntent
        /\ r.readback \in Maybe(ObservationId) /\ r.receipt \in Receipt
        /\ db.receipts[r.receipt].readback = r.readback
    BY <1>1, <1>2, RunFields DEF Knows, Maybe
  <1>5. r.intent.session \in Session
    BY <1>4, IntentFields
  <1>6. CASE Declared(db, r.intent.session, r.claim)
    BY <1>1, <1>2, <1>3, <1>4, <1>5, <1>6, AttachIsHonest
  <1>7. CASE ~Declared(db, r.intent.session, r.claim)
    BY <1>1, <1>2, <1>7, SameIsHonest
  <1> QED  BY <1>6, <1>7

LEMMA BeginIsHonest ==
    ASSUME PassInv, RInv', NEW p \in Process, NEW o, NEW expected, NEW until,
           BeginVerification(p, o, expected, until)
    PROVE  Honest(db, issued, db', issued')
  <1> DEFINE i == issued.intents + 1
             b == ReadbackObligation(i)
  <1>1. /\ i \in Intent /\ db.current # None
        /\ db' = PutObligation(db, db.current, i, b)
        /\ issued' = [issued EXCEPT !.intents = i]
    BY Zenon DEF BeginVerification
  <1>2. /\ StoreHolds(db, issued) /\ NamesHold(db, issued) /\ db \in Db
        /\ issued \in Issued
    BY Parts, Zenon DEF PassInv
  <1>3. db' \in Db /\ issued' \in Issued
    BY Zenon DEF RInv, TypeOK
  <1>4. db.current \in Session /\ i \in Claim /\ i \notin Check
    BY <1>1, <1>2, DbFields, NamesAssumption DEF Maybe, Claim
  <1>5. ~Declared(db, db.current, i)
    BY <1>1, <1>2, <1>4, NextIsFree
  <1>6. issued'.observations = issued.observations
    BY <1>1, <1>2 DEF Issued
  <1> HIDE DEF i, b
  <1> QED  BY <1>1, <1>2, <1>3, <1>4, <1>5, <1>6, PutObligationIsHonest

LEMMA StoreIntentIsHonest ==
    ASSUME PassInv, RInv', NEW p \in Process, StoreIntent(p)
    PROVE  Honest(db, issued, db', issued')
  <1> DEFINE r == run[p]
  <1>1. /\ r.pc = "begun" /\ db' = PutIntent(db, r.claim, r.intent)
        /\ issued' = issued
    BY Zenon DEF StoreIntent
  <1>2. /\ StoreHolds(db, issued) /\ NamesHold(db, issued) /\ r \in Run
        /\ Knows(db, issued, r)
    BY Parts, Zenon DEF PassInv
  <1>3. db' \in Db
    BY Zenon DEF RInv, TypeOK
  <1> HIDE DEF r
  <1>4. r.claim \in Intent /\ db.intents[r.claim] = None
    BY <1>1, <1>2, RunFields DEF Knows, Maybe
  <1> QED  BY <1>1, <1>2, <1>3, <1>4, PutIntentIsHonest

LEMMA CaptureAnswerIsHonest ==
    ASSUME PassInv, NEW p \in Process, NEW answer \in Answers,
           NEW kept \in BOOLEAN, CaptureAnswer(p, answer, kept)
    PROVE  Honest(db, issued, db', issued')
  <1> DEFINE o == issued.observations + 1
             c == answer[1]
  <1>1. /\ o \in ObservationId
        /\ db' = IF kept THEN Record(db, o, c)
                 ELSE Lose(Record(db, o, c), c.payload)
        /\ issued' = [issued EXCEPT !.observations = o]
    BY Zenon DEF CaptureAnswer
  <1>2. StoreHolds(db, issued) /\ NamesHold(db, issued) /\ c \in Captured
    BY Parts, CapturedAssumption, Zenon DEF PassInv
  <1>3. c \in Captured
    BY CapturedAssumption
  <1> HIDE DEF c
  <1>4. EvidenceStep(db, issued, db', issued')
    BY <1>1, <1>2, <1>3, AnswerIsEvidenceStep
  <1> QED  BY <1>2, <1>4, EvidenceStepIsHonest

LEMMA CommandIsHonest ==
    ASSUME PassInv, RInv', NEW p \in Process, ReadbackStep(p)
    PROVE  Honest(db, issued, db', issued')
  <1>1. StoreHolds(db, issued) /\ NamesHold(db, issued)
    BY Parts, Zenon DEF PassInv
  <1>2. CASE \E o \in ObservationId, expected \in State, until \in Deadline :
                BeginVerification(p, o, expected, until)
    BY <1>2, BeginIsHonest
  <1>3. CASE \E answer \in Answers, kept \in BOOLEAN :
                CaptureAnswer(p, answer, kept)
    BY <1>3, CaptureAnswerIsHonest
  <1>4. CASE FailReadback(p)
    <2>1. StoreReceipt(p, "readback_failed")
      BY <1>4, Zenon DEF FailReadback
    <2>2. "readback_failed" # "verified"
      OBVIOUS
    <2> QED  BY <2>1, <2>2, StoreReceiptIsHonest
  <1>5. CASE \/ \E i \in Intent, m \in Maybe(ObservationId) :
                   StartReadback(p, i, m)
             \/ Crash(p)
    <2>1. db' = db /\ issued' = issued
      BY <1>5, Zenon DEF StartReadback, Crash
    <2> QED  BY <1>1, <2>1, SameIsHonest
  <1> QED  BY <1>2, <1>3, <1>4, <1>5, StoreIntentIsHonest, JudgeIsHonest,
           AttachReceiptIsHonest, Zenon DEF ReadbackStep

\* The other commands, and the world.
LEMMA AddObligationIsHonest ==
    ASSUME PassInv, RInv', NEW claim \in Check, NEW declared,
           NEW evidence, AddObligation(claim, declared, evidence)
    PROVE  Honest(db, issued, db', issued')
  <1> DEFINE b == [required |-> declared.required, intent |-> None,
                   evidence |-> evidence, receipt |-> None,
                   state |-> declared.state, operation |-> declared.operation]
  <1>1. /\ evidence \in Maybe(1 .. issued.observations)
        /\ db.current # None /\ ~Declared(db, db.current, claim)
        /\ db' = PutObligation(db, db.current, claim, b)
        /\ issued' = issued
    BY Zenon DEF AddObligation, Nameable
  <1>2. /\ StoreHolds(db, issued) /\ NamesHold(db, issued) /\ db \in Db
        /\ issued \in Issued
    BY Parts, Zenon DEF PassInv
  <1>3. db' \in Db
    BY Zenon DEF RInv, TypeOK
  <1>4. db.current \in Session /\ claim \in Claim
    BY <1>1, <1>2, DbFields DEF Maybe, Claim
  <1>5. b.evidence = evidence
    OBVIOUS
  <1> HIDE DEF b
  <1> QED  BY <1>1, <1>2, <1>3, <1>4, <1>5, PutObligationIsHonest

LEMMA OtherIsHonest ==
    ASSUME PassInv, RInv', OtherStep
    PROVE  Honest(db, issued, db', issued')
  <1>1. StoreHolds(db, issued) /\ NamesHold(db, issued)
    BY Parts, Zenon DEF PassInv
  <1>2. CASE \E claim \in Check, declared \in Declarable,
                evidence \in Maybe(ObservationId) :
                AddObligation(claim, declared, evidence)
    BY <1>2, AddObligationIsHonest
  <1>3. CASE NewSession
    <2> DEFINE s == issued.sessions + 1
    <2>1. /\ s \in Session /\ db' = StartSession(db, s)
          /\ issued' = [issued EXCEPT !.sessions = s]
      BY <1>3, Zenon DEF NewSession
    <2>2. EvidenceStep(db, issued, db', issued')
      BY <1>1, <2>1, SessionIsEvidenceStep
    <2> QED  BY <1>1, <2>2, EvidenceStepIsHonest
  <1>4. CASE \E e \in Other : CaptureOther(e)
    <2>1. PICK e \in Other : CaptureOther(e)
      BY <1>4
    <2> DEFINE o == issued.observations + 1
    <2>2. /\ o \in ObservationId /\ db' = Record(db, o, e)
          /\ issued' = [issued EXCEPT !.observations = o]
      BY <2>1, Zenon DEF CaptureOther
    <2>3. e \in Captured
      BY CapturedAssumption
    <2>4. EvidenceStep(db, issued, db', issued')
      BY <1>1, <2>2, <2>3, RecordIsEvidenceStep
    <2> QED  BY <1>1, <2>4, EvidenceStepIsHonest
  <1>5. CASE \E c \in Payload : LosePayload(c)
    <2>1. PICK c \in Payload : db' = Lose(db, c) /\ issued' = issued
      BY <1>5, Zenon DEF LosePayload
    <2> QED  BY <1>1, <2>1, LoseIsEvidenceStep, EvidenceStepIsHonest
  <1>6. CASE \E o \in ObservationId : Expire(o)
    <2>1. PICK o \in ObservationId :
             /\ db.observations[o] # None /\ issued' = issued
             /\ db' = [db EXCEPT !.observations[o].availability = "expired"]
      BY <1>6, Zenon DEF Expire, Supports, Recorded
    <2> QED  BY <1>1, <2>1, ExpiryIsEvidenceStep, EvidenceStepIsHonest
  <1>7. CASE PurgeStore
    BY <1>7, EmptyIsHonest DEF PurgeStore
  <1>8. CASE EditWorkspace \/ Tick
    <2>1. db' = db /\ issued' = issued
      BY <1>8, Zenon DEF EditWorkspace, Tick
    <2> QED  BY <1>1, <2>1, SameIsHonest
  <1> QED  BY <1>2, <1>3, <1>4, <1>5, <1>6, <1>7, <1>8, Zenon DEF OtherStep

LEMMA StepIsHonest ==
    ASSUME PassInv, RInv', [Next]_vars
    PROVE  Honest(db, issued, db', issued')
  <1>1. CASE UNCHANGED vars
    <2>1. db' = db /\ issued' = issued
      BY <1>1 DEF vars
    <2>2. StoreHolds(db, issued) /\ NamesHold(db, issued)
      BY Parts, Zenon DEF PassInv
    <2> QED  BY <2>1, <2>2, SameIsHonest
  <1> QED  BY <1>1, OtherIsHonest, CommandIsHonest, Zenon DEF Next

\* What a pass rests on had been issued when it was named, and the response a
\* verified receipt names had been recorded.
THEOREM PassInvariant == Spec => []PassInv
  <1>1. Init => PassInv
    <2> SUFFICES ASSUME Init PROVE PassInv
      OBVIOUS
    <2>1. RInv
      BY InitHolds
    <2>2. NamesHold(db, issued)
      <3>1. db = Empty
        BY DEF Init
      <3>2. Honest(db, issued, Empty, issued)
        BY EmptyIsHonest
      <3> QED  BY <3>1, <3>2 DEF Honest
    <2> QED  BY <2>1, <2>2 DEF PassInv
  <1>2. PassInv /\ [Next]_vars => PassInv'
    <2> SUFFICES ASSUME PassInv, [Next]_vars PROVE PassInv'
      OBVIOUS
    <2>1. RInv'
      BY StepPreserves DEF PassInv
    <2>2. Honest(db, issued, db', issued')
      BY <2>1, StepIsHonest
    <2> QED  BY <2>1, <2>2, Zenon DEF PassInv, Honest
  <1> QED  BY <1>1, <1>2, PTL DEF Spec

\* A declared obligation begins to pass only because a read-back attached its
\* receipt or because the tree is again that of its evidence: whatever else is
\* captured, evicted, expired or purged, and whoever dies, lost evidence does
\* not come back.
THEOREM PassesAreEarned == Spec => PassIsEarned
  <1> DEFINE Earned ==
          \A s \in Session, claim \in Claim :
             /\ Declared(db, s, claim) /\ ~Passes(db, workspace, s, claim)
             /\ Passes(db', workspace', s, claim)
             => \/ workspace' # workspace
                \/ db'.obligations[<<s, claim>>].receipt
                      # db.obligations[<<s, claim>>].receipt
  <1>1. PassInv /\ [Next]_vars => [Earned]_vars
    <2> SUFFICES ASSUME PassInv, [Next]_vars, NEW s \in Session,
                        NEW claim \in Claim, Declared(db, s, claim),
                        Passes(db', workspace', s, claim),
                        workspace' = workspace,
                        db'.obligations[<<s, claim>>].receipt
                           = db.obligations[<<s, claim>>].receipt
                 PROVE  Passes(db, workspace, s, claim)
      BY Zenon
    <2>1. RInv'
      BY StepPreserves DEF PassInv
    <2>2. Wanes(db, issued, db')
      BY <2>1, StepIsHonest DEF Honest
    <2>3. StoreHolds(db, issued) /\ NamesHold(db, issued)
      BY Parts, Zenon DEF PassInv
    <2>4. Passes(db', workspace, s, claim)
      BY Zenon
    <2> QED  BY <2>2, <2>3, <2>4, PassesWane
  <1>2. [][Earned]_vars => PassIsEarned
    BY PTL DEF PassIsEarned
  <1> QED  BY <1>1, <1>2, PassInvariant, PTL DEF Spec, PassIsEarned
=============================================================================
