----------------------------- MODULE Readiness -----------------------------
(***************************************************************************)
(* Obligations, read-back verification and readiness.                      *)
(*                                                                         *)
(* A session declares obligations.  `prog session obligation-add` declares *)
(* a check with the observation that is its evidence; `prog verification   *)
(* begin` stores, in two transactions, a required obligation and an action *)
(* intent: what the entity was, and what it should become.  `prog          *)
(* verification readback` asks the source again with the database          *)
(* released, records what it answered, judges it, stores a receipt and, in *)
(* another transaction, attaches it to the obligation.  Meanwhile other    *)
(* commands capture, retention removes evidence, everything may be purged, *)
(* and any process may die between two transactions.                       *)
(*                                                                         *)
(* What the store keeps of evidence is taken from CaptureProcesses: a      *)
(* capture is one step here, and retention loses any payload, marks its    *)
(* observations and never restores them.                                   *)
(***************************************************************************)
EXTENDS Naturals, FiniteSets

CONSTANTS
    Process, None,
    Identity, Version, State,  \* scalars at the paths of an intent
    Outcome,         \* payloads of commands
    CommandOutcome,  \* CommandOutcome[c]: what the exit in payload c proves
    MaxObservation, MaxIntent, MaxReceipt, MaxSession, MaxTime,
    Check,           \* names of declared checks
    Operation,       \* what evidence represents: argv, operation and family
    Workspace,       \* states of the working tree
    Other,           \* what commands other than read-backs may capture
    Answers,         \* what read-backs are answered
    Deadline,        \* when the consistency windows of intents may close
    Declarable       \* the checks users and components may declare

ObservationId == 1 .. MaxObservation
Intent == 1 .. MaxIntent
Receipt == 1 .. MaxReceipt
Session == 1 .. MaxSession
Time == 1 .. MaxTime
\* An obligation is named by its intent or by the name of a check.
Claim == Intent \cup Check
Maybe(S) == S \cup {None}

\* The entity as a payload shows it; None where its path does not resolve to a
\* bounded scalar that is not redacted.
Entity == [id : Maybe(Identity), version : Maybe(Version), state : Maybe(State)]
Payload == Entity \cup Outcome
Live == {"recoverable", "capture_truncated", "redacted"}
Availability == Live \cup {"metadata_only", "expired", "unavailable"}
Validity == {"unknown", "confirmed", "stale"}

\* `conflict`: the status is that of a refused precondition.
Observation ==
    [payload : Payload, availability : Availability, conflict : BOOLEAN,
     validity : Validity, complete : BOOLEAN, workspace : Maybe(Workspace),
     operation : Operation]

ActionIntent ==
    [session : Session, pre : ObservationId, identity : Identity,
     version : Version, expected : State, until : Maybe(Time)]

ReceiptStatus == {"verified", "mismatched", "stale_precondition", "pending",
                  "readback_failed", "unverifiable"}
ReadbackReceipt ==
    [intent : Intent, status : ReceiptStatus, pre : ObservationId,
     mutation : Maybe(ObservationId), readback : Maybe(ObservationId)]

RequiredState == {"any", "workspace", "source", "both"}
Obligation ==
    [required : BOOLEAN, intent : Maybe(Intent),
     evidence : Maybe(ObservationId), receipt : Maybe(Receipt),
     state : RequiredState, operation : Maybe(Operation)]

ASSUME BoundsAssumption ==
    MaxObservation \in Nat /\ MaxIntent \in Nat /\ MaxReceipt \in Nat
    /\ MaxSession \in Nat /\ MaxTime \in Nat \ {0}
ASSUME NoneAssumption ==
    /\ None \notin Process \cup Identity \cup Version \cup State \cup Workspace
    /\ None \notin Nat \cup Observation \cup ActionIntent \cup ReadbackReceipt
    /\ None \notin Obligation \cup Operation
ASSUME NamesAssumption == Check \cap Intent = {} /\ Outcome \cap Entity = {}
ASSUME OutcomeAssumption ==
    CommandOutcome \in
        [Outcome -> {"passed", "failed", "unverifiable", "unknown"}]
\* A capture has its payload when it is recorded.
Captured == {e \in Observation : e.availability \in Live}
ASSUME CapturedAssumption ==
    Other \subseteq Captured /\ Answers \subseteq Captured \X BOOLEAN
ASSUME DeadlineAssumption == Deadline \subseteq Maybe(Time)
\* put_obligation: only users may require.
ASSUME DeclarableAssumption ==
    Declarable \subseteq [required : BOOLEAN, state : RequiredState,
                          operation : Maybe(Operation)]

VARIABLES
    db,         \* the store, as last committed
    issued,     \* how many observations, intents, receipts, sessions there were
    workspace,  \* the working tree
    now,
    handle,     \* the process that has the database open
    run         \* run[p]: the command p is executing and its locals

vars == <<db, issued, workspace, now, handle, run>>

Db == [payloads : SUBSET Payload,
       observations : [ObservationId -> Maybe(Observation)],
       obligations : [Session \X Claim -> Maybe(Obligation)],
       intents : [Intent -> Maybe(ActionIntent)],
       receipts : [Receipt -> Maybe(ReadbackReceipt)],
       current : Maybe(Session)]

Empty == [payloads |-> {},
          observations |-> [o \in ObservationId |-> None],
          obligations |-> [k \in Session \X Claim |-> None],
          intents |-> [i \in Intent |-> None],
          receipts |-> [r \in Receipt |-> None],
          current |-> None]

Issued == [observations : 0 .. MaxObservation, intents : 0 .. MaxIntent,
           receipts : 0 .. MaxReceipt, sessions : 0 .. MaxSession]

Steps == {"idle", "begun", "asked", "captured", "receipt"}
Run == [pc : Steps, claim : Maybe(Intent), intent : Maybe(ActionIntent),
        mutation : Maybe(ObservationId), readback : Maybe(ObservationId),
        failed : BOOLEAN, receipt : Maybe(Receipt)]
Idle == [pc |-> "idle", claim |-> None, intent |-> None, mutation |-> None,
         readback |-> None, failed |-> FALSE, receipt |-> None]

Init == /\ db = Empty
        /\ issued = [observations |-> 0, intents |-> 0, receipts |-> 0,
                     sessions |-> 0]
        /\ workspace \in Workspace
        /\ now = 1
        /\ handle = None
        /\ run = [p \in Process |-> Idle]

Become(p, r) == run' = [run EXCEPT ![p] = r]
Finish(p) == Become(p, Idle) /\ handle' = None
Holds(p) == handle = p

-----------------------------------------------------------------------------
(* What evidence there is.                                                 *)

Recorded(d, o) == o # None /\ d.observations[o] # None

\* Faulty variant: a payload with the same content is evidence enough.
SupportsByPayload(d, o) ==
    Recorded(d, o) /\ d.observations[o].payload \in d.payloads

\* The observation exists, claims recoverable evidence, and has its payload.
Supports(d, o) == /\ Recorded(d, o)
                  /\ d.observations[o].availability \in Live
                  /\ d.observations[o].payload \in d.payloads

IdOf(c) == IF c \in Entity THEN c.id ELSE None
VersionOf(c) == IF c \in Entity THEN c.version ELSE None
StateOf(c) == IF c \in Entity THEN c.state ELSE None

-----------------------------------------------------------------------------
(* Judging a read-back, and what a receipt is worth later.                 *)

\* Faulty variant: the version need not have changed.
EvaluatedUnadvanced(intent, seen, response, instant) ==
    LET c == seen.payload
    IN  IF seen.availability # "recoverable" \/ seen.validity = "stale"
           \/ IdOf(c) # intent.identity \/ VersionOf(c) = None
        THEN "unverifiable"
        ELSE IF StateOf(c) = intent.expected THEN "verified" ELSE "mismatched"

\* evaluate_readback: the checks in their order.  The response is the payload
\* of the mutation response, None without one.
Evaluated(intent, seen, response, instant) ==
    LET c == seen.payload
        Shows(field, value) == response # None /\ field \notin {None, value}
    IN  IF \/ seen.availability # "recoverable"
           \/ seen.validity = "stale"
           \/ IdOf(c) # intent.identity
           \/ VersionOf(c) = None
           \/ Shows(IdOf(response), intent.identity)
        THEN "unverifiable"
        ELSE IF Shows(VersionOf(response), VersionOf(c))
        THEN "stale_precondition"
        ELSE IF StateOf(c) = None
        THEN "unverifiable"
        ELSE IF StateOf(c) # intent.expected
        THEN IF intent.until # None /\ intent.until > instant
             THEN "pending" ELSE "mismatched"
        ELSE IF VersionOf(c) = intent.version
        THEN "stale_precondition"
        ELSE "verified"

\* readback_verification: an error answer, a payload that was not kept and a
\* mutation response that was refused or lost are settled before that.
Judged(d, intent, o, failed, m, instant) ==
    LET seen == d.observations[o]
    IN  IF failed
        THEN "readback_failed"
        ELSE IF seen.payload \notin d.payloads
        THEN "unverifiable"
        ELSE IF m # None /\ d.observations[m].conflict
        THEN "stale_precondition"
        ELSE IF m # None /\ d.observations[m].payload \notin d.payloads
        THEN "unverifiable"
        ELSE Evaluated(intent, seen,
                 IF m = None THEN None ELSE d.observations[m].payload, instant)

\* readback_evidence_unavailable finds nothing: the receipt, the obligation and
\* the intent name each other and all that the receipt rests on is there.
EvidenceAvailable(d, s, claim, r) ==
    LET b == d.obligations[<<s, claim>>]
        i == r.intent
    IN  /\ r.readback # None /\ b.evidence = r.readback /\ b.intent = i
        /\ d.intents[i] # None
        /\ d.intents[i].session = s /\ claim = i /\ d.intents[i].pre = r.pre
        /\ Supports(d, r.pre) /\ Supports(d, r.readback)
        /\ r.mutation # None => Supports(d, r.mutation)

Worth == [verified |-> "passed", mismatched |-> "failed",
          stale_precondition |-> "stale", pending |-> "pending",
          readback_failed |-> "unverifiable", unverifiable |-> "unverifiable"]

ReceiptStanding(d, s, claim, r) ==
    IF \/ r = None
       \/ r.intent # claim
       \/ r.status = "verified" /\ ~EvidenceAvailable(d, s, claim, r)
    THEN "unverifiable"
    ELSE Worth[r.status]

\* What the exit of a command in a payload proves.
OutcomeStanding(d, e) ==
    IF e.payload \in d.payloads \cap Outcome
    THEN CommandOutcome[e.payload] ELSE "unknown"

\* The evidence of a declared check.  Without an origin to compare with, a
\* complete run of the declared operation has to have exited successfully.
CheckStanding(d, tree, b) ==
    LET e == d.observations[b.evidence]
        tied == b.state \in {"workspace", "both"}
        moved == e.workspace # None /\ e.workspace # tree
    IN  IF \/ e = None
           \/ e.availability # "recoverable"
           \/ ~e.complete
           \/ tied /\ e.workspace = None
        THEN "unverifiable"
        ELSE IF \/ moved /\ (tied \/ b.state = "any")
                \/ b.state \in {"source", "both"} /\ e.validity # "confirmed"
                \/ b.operation # None /\ b.operation # e.operation
        THEN "stale"
        ELSE OutcomeStanding(d, e)

\* evaluate_obligation
Standing(d, tree, s, claim) ==
    LET b == d.obligations[<<s, claim>>]
    IN  IF b.receipt # None
        THEN ReceiptStanding(d, s, claim, d.receipts[b.receipt])
        ELSE IF b.evidence = None THEN "pending"
        ELSE CheckStanding(d, tree, b)

Declared(d, s, claim) == d.obligations[<<s, claim>>] # None
Passes(d, tree, s, claim) ==
    Declared(d, s, claim) /\ Standing(d, tree, s, claim) = "passed"

\* readiness_report: nothing declared is not ready.
Configured(d, s) == \E claim \in Claim : Declared(d, s, claim)
Ready(d, tree, s) ==
    /\ Configured(d, s)
    /\ \A claim \in Claim :
          /\ Declared(d, s, claim) /\ d.obligations[<<s, claim>>].required
          => Passes(d, tree, s, claim)

-----------------------------------------------------------------------------
(* Transactions.                                                           *)

\* put_payload and record_observation.
Record(d, o, e) ==
    [d EXCEPT !.payloads = @ \cup {e.payload}, !.observations[o] = e]

\* A payload is removed: every live observation of it becomes metadata_only.
Lose(d, c) ==
    [d EXCEPT !.payloads = @ \ {c},
              !.observations = [o \in ObservationId |->
                  LET e == d.observations[o]
                  IN  IF /\ e # None
                         /\ e.payload = c /\ e.availability \in Live
                      THEN [e EXCEPT !.availability = "metadata_only"] ELSE e]]

\* put_obligation rejects a name the session already has.
PutObligation(d, s, claim, b) == [d EXCEPT !.obligations[<<s, claim>>] = b]
PutIntent(d, i, intent) == [d EXCEPT !.intents[i] = intent]

\* Faulty variant: the receipt replaces the one before it.
PutReceiptOverLast(d, r, receipt) ==
    [d EXCEPT !.receipts[IF r = 1 THEN r ELSE r - 1] = receipt]

PutReceipt(d, r, receipt) == [d EXCEPT !.receipts[r] = receipt]

\* attach_readback_receipt changes the evidence and the receipt, nothing else.
Attach(d, s, claim, evidence, r) ==
    [d EXCEPT !.obligations[<<s, claim>>].evidence = evidence,
              !.obligations[<<s, claim>>].receipt = r]

StartSession(d, s) == [d EXCEPT !.current = s]

-----------------------------------------------------------------------------
(* prog verification begin.                                                *)

IntentOf(d, s, o, expected, until) ==
    [session |-> s, pre |-> o,
     identity |-> IdOf(d.observations[o].payload),
     version |-> VersionOf(d.observations[o].payload),
     expected |-> expected, until |-> until]

ReadbackObligation(i) ==
    [required |-> TRUE, intent |-> i, evidence |-> None, receipt |-> None,
     state |-> "any", operation |-> None]

\* The evidence can be read again and shows an entity, a version, and not yet
\* the expected state.
Intendable(d, o, expected) ==
    LET e == d.observations[o]
    IN  /\ e # None /\ e.availability = "recoverable"
        /\ e.payload \in d.payloads
        /\ IdOf(e.payload) # None /\ VersionOf(e.payload) # None
        /\ StateOf(e.payload) # expected

\* Faulty variant: the intent is stored before its obligation.
BeginWithIntent(p, o, expected, until) ==
    LET i == issued.intents + 1
        intent == IntentOf(db, db.current, o, expected, until)
    IN  /\ run[p].pc = "idle" /\ handle = None
        /\ i \in Intent /\ db.current # None
        /\ Intendable(db, o, expected)
        /\ db' = PutIntent(db, i, intent)
        /\ issued' = [issued EXCEPT !.intents = i]
        /\ Become(p, [Idle EXCEPT !.pc = "begun", !.claim = i,
                                  !.intent = intent])
        /\ handle' = p
        /\ UNCHANGED <<workspace, now>>

\* begin_verification, first transaction: the obligation.  (Without a current
\* session start_session commits one first; see NewSession.)
BeginVerification(p, o, expected, until) ==
    LET i == issued.intents + 1
    IN  /\ run[p].pc = "idle" /\ handle = None
        /\ i \in Intent /\ db.current # None
        /\ Intendable(db, o, expected)
        /\ db' = PutObligation(db, db.current, i, ReadbackObligation(i))
        /\ issued' = [issued EXCEPT !.intents = i]
        /\ Become(p, [Idle EXCEPT !.pc = "begun", !.claim = i,
                !.intent = IntentOf(db, db.current, o, expected, until)])
        /\ handle' = p
        /\ UNCHANGED <<workspace, now>>

\* Second transaction: the intent.
StoreIntent(p) ==
    /\ run[p].pc = "begun" /\ Holds(p)
    /\ db' = PutIntent(db, run[p].claim, run[p].intent)
    /\ Finish(p)
    /\ UNCHANGED <<issued, workspace, now>>

-----------------------------------------------------------------------------
(* prog verification readback.                                             *)

\* Whether an observation exists is not asked when it is named, but its
\* identifier is random: nobody can name it before it was issued.
Nameable(o) == o \in Maybe(1 .. issued.observations)

\* The intent is read, and the source asked with the database released.
StartReadback(p, i, m) ==
    /\ run[p].pc = "idle" /\ handle = None
    /\ db.intents[i] # None /\ Nameable(m)
    /\ Become(p, [Idle EXCEPT !.pc = "asked", !.claim = i, !.mutation = m,
                              !.intent = db.intents[i]])
    /\ UNCHANGED <<db, issued, workspace, now, handle>>

\* call_source records the answer as an observation; when retention does not
\* let it keep the payload, the observation is metadata_only.  An answer is
\* what is recorded, and whether it is an error of the source.
CaptureAnswer(p, answer, kept) ==
    LET o == issued.observations + 1
        recorded == Record(db, o, answer[1])
    IN  /\ run[p].pc = "asked" /\ handle = None
        /\ o \in ObservationId
        /\ db' = IF kept THEN recorded ELSE Lose(recorded, answer[1].payload)
        /\ issued' = [issued EXCEPT !.observations = o]
        /\ Become(p, [run[p] EXCEPT !.pc = "captured", !.readback = o,
                                    !.failed = answer[2]])
        /\ handle' = p
        /\ UNCHANGED <<workspace, now>>

ReceiptOf(r, status) ==
    [intent |-> r.claim, status |-> status, pre |-> r.intent.pre,
     mutation |-> r.mutation, readback |-> r.readback]

StoreReceipt(p, status) ==
    LET n == issued.receipts + 1
    IN  /\ n \in Receipt
        /\ db' = PutReceipt(db, n, ReceiptOf(run[p], status))
        /\ issued' = [issued EXCEPT !.receipts = n]
        /\ Become(p, [run[p] EXCEPT !.pc = "receipt", !.receipt = n])
        /\ handle' = p

\* The answer is compared with the pre-mutation observation and judged.  The
\* command ends with an error if a purge has removed that observation, or if
\* the mutation response is unknown.
JudgeAnswer(p) ==
    LET r == run[p]
    IN  /\ r.pc = "captured" /\ Holds(p)
        /\ IF \/ ~Recorded(db, r.intent.pre)
              \/ /\ ~r.failed
                 /\ db.observations[r.readback].payload \in db.payloads
                 /\ r.mutation # None /\ ~Recorded(db, r.mutation)
           THEN Finish(p) /\ UNCHANGED <<db, issued>>
           ELSE StoreReceipt(p, Judged(db, r.intent, r.readback, r.failed,
                                       r.mutation, now))
        /\ UNCHANGED <<workspace, now>>

\* The call itself failed: that is stored as a receipt, too.
FailReadback(p) ==
    /\ run[p].pc = "asked" /\ handle = None
    /\ StoreReceipt(p, "readback_failed")
    /\ UNCHANGED <<workspace, now>>

\* persist_receipt, second transaction; the obligation may have been purged.
AttachReceipt(p) ==
    LET r == run[p]
    IN  /\ r.pc = "receipt" /\ Holds(p)
        /\ db' = IF Declared(db, r.intent.session, r.claim)
                 THEN Attach(db, r.intent.session, r.claim, r.readback,
                             r.receipt)
                 ELSE db
        /\ Finish(p)
        /\ UNCHANGED <<issued, workspace, now>>

-----------------------------------------------------------------------------
(* Commands of one step, and what else happens.                            *)

Alone == handle = None /\ UNCHANGED <<handle, run>>

\* prog session start, or the first declaration of a store.
NewSession ==
    LET s == issued.sessions + 1
    IN  /\ Alone
        /\ s \in Session
        /\ db' = StartSession(db, s)
        /\ issued' = [issued EXCEPT !.sessions = s]
        /\ UNCHANGED <<workspace, now>>

\* prog session obligation-add
AddObligation(claim, declared, evidence) ==
    /\ Alone
    /\ Nameable(evidence)
    /\ db.current # None /\ ~Declared(db, db.current, claim)
    /\ db' = PutObligation(db, db.current, claim,
                [required |-> declared.required, intent |-> None,
                 evidence |-> evidence, receipt |-> None,
                 state |-> declared.state, operation |-> declared.operation])
    /\ UNCHANGED <<issued, workspace, now>>

\* Any other command captures something, on the tree as it is.
CaptureOther(e) ==
    LET o == issued.observations + 1
    IN  /\ Alone
        /\ o \in ObservationId
        /\ e.workspace \in {workspace, None}
        /\ db' = Record(db, o, e)
        /\ issued' = [issued EXCEPT !.observations = o]
        /\ UNCHANGED <<workspace, now>>

\* Retention or a purge removes the payload c.
LosePayload(c) ==
    /\ Alone
    /\ c \in db.payloads
    /\ db' = Lose(db, c)
    /\ UNCHANGED <<issued, workspace, now>>

\* A lookup of an expired row marks its observation while it has its payload.
Expire(o) ==
    /\ Alone
    /\ Supports(db, o)
    /\ db' = [db EXCEPT !.observations[o].availability = "expired"]
    /\ UNCHANGED <<issued, workspace, now>>

\* purge_all; identifiers are not used again.
PurgeStore == Alone /\ db' = Empty /\ UNCHANGED <<issued, workspace, now>>

EditWorkspace ==
    /\ workspace' \in Workspace \ {workspace}
    /\ UNCHANGED <<db, issued, now, handle, run>>

Tick == now < MaxTime /\ now' = now + 1
        /\ UNCHANGED <<db, issued, workspace, handle, run>>

Crash(p) ==
    /\ run[p].pc # "idle"
    /\ Become(p, Idle)
    /\ handle' = IF Holds(p) THEN None ELSE handle
    /\ UNCHANGED <<db, issued, workspace, now>>

ReadbackStep(p) ==
    \/ \E o \in ObservationId, expected \in State, until \in Deadline :
          BeginVerification(p, o, expected, until)
    \/ StoreIntent(p)
    \/ \E i \in Intent, m \in Maybe(ObservationId) : StartReadback(p, i, m)
    \/ \E answer \in Answers, kept \in BOOLEAN :
          CaptureAnswer(p, answer, kept)
    \/ JudgeAnswer(p)
    \/ FailReadback(p)
    \/ AttachReceipt(p)
    \/ Crash(p)

OtherStep ==
    \/ NewSession
    \/ \E claim \in Check, declared \in Declarable,
          evidence \in Maybe(ObservationId) :
          AddObligation(claim, declared, evidence)
    \/ \E e \in Other : CaptureOther(e)
    \/ \E c \in Payload : LosePayload(c)
    \/ \E o \in ObservationId : Expire(o)
    \/ PurgeStore
    \/ EditWorkspace
    \/ Tick

Next == OtherStep \/ \E p \in Process : ReadbackStep(p)

Spec == Init /\ [][Next]_vars

-----------------------------------------------------------------------------
\* Every variable has its type.
TypeOK ==
    /\ db \in Db
    /\ issued \in Issued
    /\ workspace \in Workspace
    /\ now \in Time
    /\ handle \in Maybe(Process)
    /\ run \in [Process -> Run]

\* What a verified receipt stands for: a later capture of the same entity that
\* is still there to be read, at another version and in the expected state,
\* next to the capture it started from.
Verified(d, i) ==
    LET intent == d.intents[i]
        b == d.obligations[<<intent.session, i>>]
        before == d.observations[intent.pre].payload
        after == d.observations[b.evidence].payload
    IN  /\ b.evidence # None /\ b.evidence > intent.pre
        /\ {before, after} \subseteq d.payloads
        /\ after.id = before.id
        /\ after.version # before.version
        /\ after.state = intent.expected

\* A session is never ready while a mutation that was announced in it lacks
\* evidence that can be read now -- whatever was read back late, evicted,
\* expired or purged, and wherever a process died.
ReadyMeansVerified ==
    \A s \in Session : Ready(db, workspace, s) =>
        \A i \in Intent :
            db.intents[i] # None /\ db.intents[i].session = s => Verified(db, i)

\* A pass is earned: an obligation that was declared and did not pass begins
\* to pass only because a read-back attached its receipt or because the tree
\* is again the one its evidence was captured on.  Lost evidence does not come
\* back, not even when the same content is captured again.
PassIsEarned ==
    [][\A s \in Session, claim \in Claim :
         /\ Declared(db, s, claim) /\ ~Passes(db, workspace, s, claim)
         /\ Passes(db', workspace', s, claim)
         => \/ workspace' # workspace
            \/ db'.obligations[<<s, claim>>].receipt
                  # db.obligations[<<s, claim>>].receipt]_vars

\* An intent that can be read back always has the required obligation that
\* makes it block readiness, also when `begin` died half-way.
IntentsAreDeclared ==
    \A i \in Intent : db.intents[i] # None =>
        LET k == <<db.intents[i].session, i>>
        IN  /\ db.obligations[k] # None
            /\ db.obligations[k].required /\ db.obligations[k].intent = i

-----------------------------------------------------------------------------
(* The inductive invariant behind these.  First the store d after the      *)
(* identifiers n were issued.                                              *)

\* What was not issued is not used.
FreshIds(d, n) ==
    /\ \A o \in ObservationId : o > n.observations => d.observations[o] = None
    /\ \A i \in Intent : i > n.intents =>
          d.intents[i] = None /\ \A s \in Session : ~Declared(d, s, i)
    /\ \A r \in Receipt : r > n.receipts => d.receipts[r] = None

\* Live evidence has its payload.
EvidenceHolds(d) ==
    \A o \in ObservationId :
        LET e == d.observations[o]
        IN  e # None /\ e.availability \in Live => e.payload \in d.payloads

\* Obligations of intents require them and have no evidence without a receipt;
\* those of checks have no receipt.  A receipt exists and is of its obligation
\* and that obligation's evidence, also when a read-back died half-way or
\* overlapped with another.
ObligationsHold(d) ==
    \A s \in Session, claim \in Claim :
        LET b == d.obligations[<<s, claim>>]
        IN  b # None =>
              /\ claim \in Intent => b.required /\ b.intent = claim
              /\ claim \in Check => b.receipt = None
              /\ claim \in Intent /\ b.receipt = None => b.evidence = None
              /\ b.receipt # None =>
                    /\ d.receipts[b.receipt] # None
                    /\ d.receipts[b.receipt].intent = claim
                    /\ d.receipts[b.receipt].readback = b.evidence

\* An intent is that of the entity its capture shows.
Describes(d, intent) ==
    LET e == d.observations[intent.pre]
    IN  /\ e # None
        /\ IdOf(e.payload) = intent.identity
        /\ VersionOf(e.payload) = intent.version

IntentsHold(d) ==
    \A i \in Intent : d.intents[i] # None =>
        /\ Describes(d, d.intents[i])
        /\ Declared(d, d.intents[i].session, i)

\* What a verified receipt says of its intent and its read-back.
Proves(d, receipt) ==
    LET intent == d.intents[receipt.intent]
        e == d.observations[receipt.readback]
    IN  /\ intent # None /\ intent.pre = receipt.pre
        /\ receipt.readback # None /\ receipt.readback > receipt.pre
        /\ e # None
        /\ IdOf(e.payload) = intent.identity
        /\ VersionOf(e.payload) \notin {None, intent.version}
        /\ StateOf(e.payload) = intent.expected

VerdictsHold(d) ==
    \A r \in Receipt :
        d.receipts[r] # None /\ d.receipts[r].status = "verified"
        => Proves(d, d.receipts[r])

StoreHolds(d, n) == /\ d \in Db /\ n \in Issued
                    /\ FreshIds(d, n)
                    /\ EvidenceHolds(d)
                    /\ ObligationsHold(d)
                    /\ IntentsHold(d)
                    /\ VerdictsHold(d)

\* The steps between two transactions of one command.
Holding == {"begun", "captured", "receipt"}

\* What the command r remembers of the store is still so.  While it waits for
\* the source, all of it may have been purged.
Knows(d, n, r) ==
    /\ r.pc = "idle" => r = Idle
    /\ r.pc # "idle" =>
          /\ r.claim # None /\ r.claim <= n.intents
          /\ r.intent # None /\ r.intent.pre <= n.observations
    /\ r.pc = "begun" =>
          /\ d.intents[r.claim] = None
          /\ Declared(d, r.intent.session, r.claim)
          /\ Describes(d, r.intent)
    /\ r.pc \in {"asked", "captured", "receipt"} =>
          /\ d.intents[r.claim] \in {None, r.intent}
          /\ Recorded(d, r.intent.pre) => d.intents[r.claim] # None
    /\ r.pc = "captured" =>
          r.readback > r.intent.pre /\ Recorded(d, r.readback)
    /\ r.pc = "receipt" =>
          /\ r.receipt # None /\ d.receipts[r.receipt] # None
          /\ d.receipts[r.receipt].intent = r.claim
          /\ d.receipts[r.receipt].readback = r.readback

\* The store is consistent, a process has it between two of its transactions
\* and not while it waits for the source, what it remembers is so, and an
\* intent that is not yet stored is nobody else's.
RInv ==
    /\ TypeOK
    /\ StoreHolds(db, issued)
    /\ \A p \in Process :
          /\ Holds(p) <=> run[p].pc \in Holding
          /\ Knows(db, issued, run[p])
          /\ run[p].pc = "begun" =>
                \A q \in Process \ {p} : run[q].claim # run[p].claim

\* What a pass rests on had been issued when it was named, and the response a
\* verified receipt names had been recorded: no later capture takes its place.
NamesHold(d, n) ==
    /\ \A s \in Session, claim \in Check : Declared(d, s, claim) =>
          d.obligations[<<s, claim>>].evidence \in Maybe(1 .. n.observations)
    /\ \A r \in Receipt :
          d.receipts[r] # None /\ d.receipts[r].status = "verified" =>
              \/ d.receipts[r].mutation = None
              \/ Recorded(d, d.receipts[r].mutation)

PassInv == RInv /\ NamesHold(db, issued)
=============================================================================
