---------------------------- MODULE CaptureProofs ----------------------------
(***************************************************************************)
(* For any number of processes, calls, tasks, payloads and bounds, with    *)
(* crashes between any two transactions: the store that concurrent         *)
(* commands share stays consistent.  The argument is IInv.  A transaction  *)
(* preserves the store's own invariant (StoreProofs) if the command that   *)
(* commits it still knows what it learnt from its earlier transactions;    *)
(* CommandInv says what that is, and it survives because only the process  *)
(* that holds the handle can be between two transactions.  What a command  *)
(* carries across its await, when it does not hold the handle, is about no *)
(* row of the store, so nothing the others do can falsify it.              *)
(***************************************************************************)
EXTENDS CaptureProcesses, StoreProofs

\* What a command knows when it does not hold the handle is not about the
\* store.
LEMMA WithoutHandle ==
    ASSUME NEW d, NEW e, NEW r, r.pc \notin Holding, CommandInv(d, r)
    PROVE  CommandInv(e, r)
  BY DEF Holding, CommandInv

\* The fields of a command have their types.
LEMMA RunFields ==
    ASSUME NEW r \in Run
    PROVE  /\ r.pc \in Steps /\ r.call \in Maybe(Call) /\ r.task \in Maybe(Task)
           /\ r.snapshot \in Maybe(Entry) /\ r.answer \in Maybe(Answers)
           /\ r.hash \in Maybe(Hash) /\ r.key \in Maybe(Key)
           /\ r.entry \in Maybe(Entry) /\ r.marks \in SUBSET ObservationId
  BY DEF Run

LEMMA IdleCommand ==
    /\ Idle \in Run /\ Idle.pc = "idle" /\ Idle.pc \notin Holding
    /\ \A d : CommandInv(d, Idle)
    /\ Idle.key = None /\ Idle.task = None /\ Idle.snapshot = None
    /\ Idle.call = None
  BY DEF Idle, Run, Steps, Maybe, Holding, CommandInv

\* A step of the process p that becomes the command r: the others keep what
\* they know, because a step that writes the store is taken by the holder of
\* the handle or while nobody holds it.
LEMMA StepOfCommand ==
    ASSUME IInv, NEW p \in Process, NEW r \in Run,
           run' = [run EXCEPT ![p] = r], now' = now,
           StoreInv(db'), CommandInv(db', r),
           (handle' = p) <=> (r.pc \in Holding),
           \/ handle' = handle /\ db' = db
           \/ handle \in {None, p} /\ handle' \in {None, p}
    PROVE  IInv'
  <1>1. /\ run \in [Process -> Run] /\ handle \in Maybe(Process)
        /\ now \in Time /\ StoreInv(db)
        /\ \A q \in Process : /\ handle = q <=> (run[q].pc \in Holding)
                              /\ CommandInv(db, run[q])
    BY Zenon DEF IInv, TypeOK, Holds
  <1>2. /\ run' \in [Process -> Run]
        /\ run'[p] = r
        /\ \A q \in Process \ {p} : run'[q] = run[q]
    BY <1>1
  <1>3. handle' \in Maybe(Process)
    BY <1>1 DEF Maybe
  <1>4. TypeOK'
    BY <1>1, <1>2, <1>3, Zenon DEF TypeOK, StoreInv
  <1>5. ASSUME NEW q \in Process
        PROVE  /\ (handle' = q) <=> (run'[q].pc \in Holding)
               /\ CommandInv(db', run'[q])
    <2>1. CASE q = p
      BY <1>2, <2>1
    <2>2. CASE q # p
      <3>1. run'[q] = run[q]
        BY <1>2, <2>2
      <3>2. q # None
        BY FreeAssumption
      <3>3. (handle' = q) <=> (run'[q].pc \in Holding)
        BY <1>1, <2>2, <3>1, <3>2
      <3>4. db' = db \/ run[q].pc \notin Holding
        BY <1>1, <2>2, <3>2
      <3>5. CommandInv(db', run[q])
        BY <1>1, <3>4, WithoutHandle
      <3> QED  BY <3>1, <3>3, <3>5
    <2> QED  BY <2>1, <2>2
  <1> QED  BY <1>4, <1>5, Zenon DEF IInv, Holds

\* The initial state.
LEMMA InitHolds == Init => IInv
  <1> SUFFICES ASSUME Init PROVE IInv  OBVIOUS
  <1>1. \A p \in Process : run[p] = Idle
    BY DEF Init
  <1>2. handle = None /\ None \notin Process /\ StoreInv(db)
    BY EmptyStoreInv, FreeAssumption DEF Init
  <1>3. now \in Time
    BY TimeAssumption DEF Init, Time
  <1>4. run \in [Process -> Run]
    BY IdleCommand DEF Init
  <1>5. TypeOK
    BY <1>2, <1>3, <1>4 DEF TypeOK, StoreInv, Maybe
  <1> QED  BY <1>1, <1>2, <1>5, IdleCommand DEF IInv, Holds

\* What is known of the process that takes a step.
LEMMA Known ==
    ASSUME IInv, NEW p \in Process
    PROVE  /\ run[p] \in Run /\ CommandInv(db, run[p])
           /\ (handle = p) <=> (run[p].pc \in Holding)
           /\ StoreInv(db) /\ db \in Store
           /\ now \in Time /\ now \in Nat
           /\ handle \in Maybe(Process) /\ None # p
  <1>1. now \in Time /\ run \in [Process -> Run]
    BY Zenon DEF IInv, TypeOK
  <1>2. now \in Nat
    BY <1>1 DEF Time
  <1> QED
    BY <1>1, <1>2, FreeAssumption DEF IInv, TypeOK, Holds, StoreInv

-----------------------------------------------------------------------------
(* The steps of a call.                                                    *)

LEMMA StartCallKeeps ==
    ASSUME IInv, NEW p \in Process, NEW c \in Call, NEW refresh \in BOOLEAN,
           NEW mayCache \in BOOLEAN, StartCall(p, c, refresh, mayCache)
    PROVE  IInv'
  <1> DEFINE found == IF mayCache THEN EntryAt(db, c, now) ELSE None
             r == [Idle EXCEPT !.call = c, !.refresh = refresh,
                               !.mayCache = mayCache, !.key = c]
             asked == [r EXCEPT !.pc = "upstream", !.snapshot = found]
             hit == [r EXCEPT !.pc = "mint", !.hash = found.hash]
  <1>1. /\ run[p].pc = "idle" /\ handle = None /\ now' = now
        /\ db' = IF mayCache THEN LookUpEntry(db, c, now) ELSE db
    BY Zenon DEF StartCall
  <1>2. c \in Key /\ c # None
    BY CallAssumption, NoneAssumption
  <1>3. /\ StoreInv(db) /\ db \in Store /\ run[p] \in Run
        /\ CommandInv(db, run[p]) /\ handle # p
    BY <1>1, Known
  <1>4. /\ StoreInv(db') /\ db'.entries = db.entries
        /\ db'.payloads = db.payloads
    <2>1. /\ StoreInv(LookUpEntry(db, c, now))
          /\ LookUpEntry(db, c, now).entries = db.entries
          /\ LookUpEntry(db, c, now).payloads = db.payloads
      BY <1>3, LookUpsKeep
    <2> QED  BY <1>1, <1>3, <2>1
  <1>5. found \in Maybe(Entry) /\ (found # None => found = db.entries[c])
    BY <1>2, <1>3, StoreFields DEF EntryAt, Unexpired, Maybe
  <1> HIDE DEF found
  <1>6. r \in Run /\ r.call = c /\ r.key = c /\ r.task = None
    BY <1>2, IdleCommand, ZenonT(60) DEF Run, Maybe
  <1> HIDE DEF r
  <1>7. CASE found = None \/ refresh
    <2>1. run' = [run EXCEPT ![p] = asked] /\ handle' = handle
      BY <1>7, Zenon DEF StartCall, Become, found, r
    <2>2. asked \in Run /\ asked.pc = "upstream" /\ asked.call = c
          /\ asked.task = None /\ asked.key = c
      BY <1>5, <1>6 DEF Run, Steps
    <2> HIDE DEF asked
    <2>3. asked.pc \notin Holding /\ CommandInv(db', asked)
      BY <1>2, <2>2 DEF Holding, CommandInv
    <2> QED  BY <1>1, <1>3, <1>4, <2>1, <2>2, <2>3, StepOfCommand
  <1>8. CASE found # None /\ ~refresh /\ found.hash \in db.payloads
    <2>1. run' = [run EXCEPT ![p] = hit] /\ handle' = p
      BY <1>8, Zenon DEF StartCall, Become, found, r
    <2>2. found.hash \in Hash
      BY <1>5, <1>8 DEF Maybe, Entry
    <2>3. hit \in Run /\ hit.pc = "mint" /\ hit.call = c /\ hit.key = c
          /\ hit.hash = found.hash /\ hit.task = None
      BY <1>6, <2>2, ZenonT(60) DEF Run, Steps, Maybe
    <2> HIDE DEF hit
    <2>4. hit.pc \in Holding /\ CommandInv(db', hit)
      BY <1>2, <1>4, <1>5, <1>8, <2>3 DEF Holding, CommandInv, OwnRow
    <2> QED  BY <1>1, <1>3, <1>4, <2>1, <2>3, <2>4, StepOfCommand
  <1>9. CASE found # None /\ ~refresh /\ found.hash \notin db.payloads
    <2>1. run' = run /\ handle' = handle
      BY <1>9, Zenon DEF StartCall, found
    <2>2. run' = [run EXCEPT ![p] = run[p]]
      BY <2>1 DEF IInv, TypeOK
    <2>3. run[p].pc \notin Holding /\ CommandInv(db', run[p])
      BY <1>1, <1>3 DEF Holding, CommandInv
    <2> QED  BY <1>1, <1>3, <1>4, <2>1, <2>2, <2>3, StepOfCommand
  <1> QED  BY <1>7, <1>8, <1>9

LEMMA SourceAnswersKeeps ==
    ASSUME IInv, NEW p \in Process, NEW answer \in Answers, NEW h \in Hash,
           SourceAnswers(p, answer, h)
    PROVE  IInv'
  <1> DEFINE r == [run[p] EXCEPT !.pc = "answered", !.answer = answer,
                                 !.hash = h]
  <1>1. /\ run[p].pc = "upstream" /\ db' = db /\ handle' = handle
        /\ now' = now /\ run' = [run EXCEPT ![p] = r]
        /\ answer = "not_modified" =>
              run[p].snapshot # None /\ run[p].snapshot.hash = h
    BY Zenon DEF SourceAnswers, Become
  <1>2. /\ run[p] \in Run /\ CommandInv(db, run[p]) /\ handle # p
        /\ StoreInv(db)
    BY <1>1, Known DEF Holding
  <1>3. /\ r \in Run /\ r.pc = "answered" /\ r.answer = answer /\ r.hash = h
        /\ r.call = run[p].call /\ r.task = run[p].task
        /\ r.snapshot = run[p].snapshot /\ r.mayCache = run[p].mayCache
        /\ r.key = run[p].key
    BY <1>2 DEF Run, Steps, Maybe
  <1> HIDE DEF r
  <1>4. h # None
    BY HashAssumption, NoneAssumption
  <1>5. r.pc \notin Holding /\ CommandInv(db', r)
    BY <1>1, <1>2, <1>3, <1>4 DEF Holding, CommandInv
  <1> QED  BY <1>1, <1>2, <1>3, <1>5, StepOfCommand

LEMMA StorePayloadKeeps ==
    ASSUME IInv, NEW p \in Process, StorePayload(p)
    PROVE  IInv'
  <1> DEFINE key == IF run[p].call = None THEN None ELSE PersistenceKey(run[p])
             r == [run[p] EXCEPT !.pc = "stored", !.snapshot = None,
                                 !.key = key]
  <1>1. /\ run[p].pc = "answered" /\ handle = None /\ handle' = p
        /\ now' = now /\ run' = [run EXCEPT ![p] = r]
        /\ db' = IF run[p].mayCache THEN PutPayload(db, run[p].hash) ELSE db
    BY Zenon DEF StorePayload, Become, Acquire
  <1>2. /\ run[p] \in Run /\ CommandInv(db, run[p]) /\ now \in Time
        /\ StoreInv(db)
    BY Known
  <1>3. run[p].hash \in Hash
    BY <1>1, <1>2, RunFields DEF CommandInv, Maybe
  <1>4. StoreInv(db') /\ (run[p].mayCache => run[p].hash \in db'.payloads)
    <2>1. /\ StoreInv(PutPayload(db, run[p].hash))
          /\ run[p].hash \in PutPayload(db, run[p].hash).payloads
      BY <1>2, <1>3, PutPayloadKeeps
    <2> QED  BY <1>1, <1>2, <2>1, Zenon
  <1>5. key \in Maybe(Key) /\ (run[p].call # None => key # None)
    <2>1. CASE run[p].call = None
      BY <2>1 DEF Maybe
    <2>2. CASE run[p].call # None
      <3>1. run[p].call \in Call /\ run[p].call \in Key
        BY <1>2, <2>2, RunFields, CallAssumption DEF Maybe
      <3>2. ErrorKey[run[p].call][now] \in Key
        BY <1>2, <3>1, ErrorKeyAssumption
      <3> QED
        BY <2>2, <3>1, <3>2, NoneAssumption DEF PersistenceKey, Maybe
    <2> QED  BY <2>1, <2>2
  <1> HIDE DEF key
  <1>6. /\ r \in Run /\ r.pc = "stored" /\ r.key = key
        /\ r.hash = run[p].hash /\ r.call = run[p].call
        /\ r.task = run[p].task /\ r.mayCache = run[p].mayCache
    BY <1>2, <1>5 DEF Run, Steps, Maybe
  <1> HIDE DEF r
  <1>7. r.pc \in Holding /\ CommandInv(db', r)
    BY <1>1, <1>2, <1>4, <1>5, <1>6 DEF Holding, CommandInv
  <1> QED  BY <1>1, <1>2, <1>4, <1>6, <1>7, StepOfCommand

LEMMA RecordCallKeeps ==
    ASSUME IInv, NEW p \in Process, NEW availability \in Captured,
           RecordCall(p, availability)
    PROVE  IInv'
  <1> DEFINE claimed == IF run[p].mayCache THEN availability
                        ELSE "metadata_only"
             entry == NewEntry(run[p], db'.latest)
             r == [run[p] EXCEPT !.pc = "entry", !.entry = entry]
  <1>1. /\ run[p].pc = "stored" /\ run[p].call # None /\ handle = p
        /\ now' = now /\ db.observationsIssued < MaxObservation
        /\ db' = RecordCapture(db, run[p].hash, claimed, run[p].call)
    BY Zenon DEF RecordCall, Holds
  <1>2. /\ run[p] \in Run /\ CommandInv(db, run[p]) /\ now \in Nat
        /\ StoreInv(db) /\ None # p
    BY Known
  <1>3. /\ run[p].hash \in Hash /\ run[p].call \in Call
        /\ run[p].call \in Invocation /\ run[p].key \in Key
        /\ run[p].mayCache => run[p].hash \in db.payloads
        /\ run[p].key # None
    BY <1>1, <1>2, RunFields, CallAssumption DEF CommandInv, Maybe
  <1>4. claimed \in Live \cup {"metadata_only"}
    BY CapturedAssumption
  <1> HIDE DEF claimed
  <1>5. /\ StoreInv(db')
        /\ db'.latest \in ObservationId
        /\ Captures(db', db'.latest, run[p].hash)
        /\ db'.payloads = db.payloads
    BY <1>1, <1>2, <1>3, <1>4, RecordCaptureKeeps
  <1>6. /\ entry \in Entry /\ entry.hash = run[p].hash
        /\ entry.observation = db'.latest
    <2>1. now + TTL \in Nat /\ SourceOf[run[p].call] \in Source
      BY <1>2, <1>3, TimeAssumption, SourceAssumption
    <2>2. (run[p].answer = "error") \in BOOLEAN
      OBVIOUS
    <2> QED  BY <1>2, <1>3, <1>5, <2>1, <2>2 DEF NewEntry, Entry, Maybe
  <1> HIDE DEF entry
  <1>7. CASE run[p].mayCache
    <2>1. run' = [run EXCEPT ![p] = r] /\ handle' = handle
      BY <1>7, Zenon DEF RecordCall, Become, entry
    <2>2. /\ r \in Run /\ r.pc = "entry" /\ r.entry = entry
          /\ r.hash = run[p].hash /\ r.call = run[p].call
          /\ r.key = run[p].key
          /\ r.task = run[p].task /\ r.mayCache = run[p].mayCache
      BY <1>2, <1>6 DEF Run, Steps, Maybe
    <2> HIDE DEF r
    <2>3. EntryBacked(db', entry)
      BY <1>3, <1>5, <1>6, <1>7 DEF EntryBacked
    <2>4. entry # None
      BY <1>6, NoneAssumption
    <2>5. r.pc \in Holding /\ CommandInv(db', r)
      BY <1>1, <1>2, <1>3, <1>6, <2>2, <2>3, <2>4 DEF Holding, CommandInv
    <2> QED  BY <1>1, <1>2, <1>5, <2>1, <2>2, <2>5, StepOfCommand
  <1>8. CASE ~run[p].mayCache
    <2>1. run' = [run EXCEPT ![p] = Idle] /\ handle' = None
      BY <1>8, Zenon DEF RecordCall, Finish, Become
    <2> QED  BY <1>1, <1>2, <1>5, <2>1, IdleCommand, StepOfCommand
  <1> QED  BY <1>7, <1>8

LEMMA ConfirmUnchangedKeeps ==
    ASSUME IInv, NEW p \in Process, NEW redacted \in BOOLEAN,
           ConfirmUnchanged(p, redacted)
    PROVE  IInv'
  <1> DEFINE old == run[p].snapshot
             prior == IF old.observation = None THEN None
                      ELSE db.observations[old.observation]
             availability == IF redacted /\ prior.availability = "recoverable"
                             THEN "redacted" ELSE prior.availability
             entry == [old EXCEPT !.observation = db'.latest, !.failed = FALSE]
             r == [run[p] EXCEPT !.pc = "entry", !.snapshot = None,
                                 !.entry = entry]
  <1>1. /\ run[p].pc = "answered" /\ run[p].answer = "not_modified"
        /\ handle = None /\ now' = now
    BY Zenon DEF ConfirmUnchanged
  <1>2. /\ run[p] \in Run /\ CommandInv(db, run[p])
        /\ StoreInv(db) /\ db \in Store /\ None # p
    BY Known
  <1>3. /\ old \in Entry /\ old.hash = run[p].hash /\ old.hash \in Hash
        /\ old.observation \in Maybe(ObservationId)
        /\ run[p].call # None /\ run[p].call \in Invocation
        /\ run[p].key # None
    BY <1>1, <1>2, RunFields, CallAssumption DEF CommandInv, Maybe, Entry
  <1>4. CASE prior = None \/ old.hash \notin db.payloads
    <2>1. run' = [run EXCEPT ![p] = Idle] /\ handle' = handle /\ db' = db
      BY <1>4, Zenon DEF ConfirmUnchanged, Become
    <2> QED  BY <1>1, <1>2, <2>1, IdleCommand, StepOfCommand
  <1>5. CASE prior # None /\ old.hash \in db.payloads
    <2>1. /\ run' = [run EXCEPT ![p] = r] /\ handle' = p
          /\ db.observationsIssued < MaxObservation
          /\ db' = RecordObservation(db, old.hash, availability,
                                     run[p].call, old.observation)
      BY <1>5, Zenon DEF ConfirmUnchanged, Become
    <2>2. availability \in Availability
      <3>1. prior \in Observation
        BY <1>2, <1>3, <1>5, StoreFields DEF Maybe
      <3> QED  BY <3>1 DEF Observation, Availability, Live
    <2> HIDE DEF availability
    <2>3. /\ StoreInv(db')
          /\ db'.latest \in ObservationId
          /\ Captures(db', db'.latest, old.hash)
          /\ db'.payloads = db.payloads
      BY <1>2, <1>3, <1>5, <2>1, <2>2, RecordObservationKeeps
    <2>4. /\ entry \in Entry /\ entry.hash = old.hash
          /\ entry.observation = db'.latest
      BY <1>3, <2>3 DEF Entry, Maybe
    <2>5. EntryBacked(db', entry)
      BY <1>5, <2>3, <2>4 DEF EntryBacked
    <2> HIDE DEF entry
    <2>6. /\ r \in Run /\ r.pc = "entry" /\ r.entry = entry
          /\ r.hash = run[p].hash /\ r.call = run[p].call
          /\ r.key = run[p].key
          /\ r.task = run[p].task /\ r.mayCache = run[p].mayCache
      BY <1>2, <2>4 DEF Run, Steps, Maybe
    <2> HIDE DEF r
    <2>7. entry # None
      BY <2>4, NoneAssumption
    <2>8. r.pc \in Holding /\ CommandInv(db', r)
      BY <1>1, <1>2, <1>3, <2>4, <2>5, <2>6, <2>7 DEF Holding, CommandInv
    <2> QED  BY <1>1, <1>2, <2>1, <2>3, <2>6, <2>8, StepOfCommand
  <1> QED  BY <1>4, <1>5

LEMMA InsertEntryKeeps ==
    ASSUME IInv, NEW p \in Process, InsertEntry(p)
    PROVE  IInv'
  <1> DEFINE r == [run[p] EXCEPT !.pc = "age", !.entry = None]
  <1>1. /\ run[p].pc = "entry" /\ handle = p /\ handle' = p /\ now' = now
        /\ db' = PutEntryRow(db, run[p].key, run[p].entry)
        /\ run' = [run EXCEPT ![p] = r]
    BY Zenon DEF InsertEntry, Holds, Become
  <1>2. /\ run[p] \in Run /\ CommandInv(db, run[p]) /\ StoreInv(db)
    BY Known
  <1>3. /\ run[p].key \in Key /\ run[p].entry \in Entry
        /\ EntryBacked(db, run[p].entry) /\ run[p].call # None
        /\ run[p].entry.hash = run[p].hash
    BY <1>1, <1>2, RunFields DEF CommandInv, Maybe
  <1>4. StoreInv(db') /\ db'.entries[run[p].key] = run[p].entry
    BY <1>1, <1>2, <1>3, PutEntryRowKeeps
  <1>5. /\ r \in Run /\ r.pc = "age" /\ r.hash = run[p].hash
        /\ r.call = run[p].call /\ r.key = run[p].key
        /\ r.task = run[p].task /\ r.mayCache = run[p].mayCache
    BY <1>2 DEF Run, Steps, Maybe
  <1> HIDE DEF r
  <1>6. r.pc \in Holding /\ CommandInv(db', r)
    BY <1>1, <1>2, <1>3, <1>4, <1>5 DEF Holding, CommandInv, OwnRow
  <1> QED  BY <1>1, <1>4, <1>5, <1>6, StepOfCommand

LEMMA EnforceAgeKeeps ==
    ASSUME IInv, NEW p \in Process, EnforceAge(p)
    PROVE  IInv'
  <1> DEFINE aged == IF db.budget.maxAge = None THEN {}
                     ELSE AgedKeys(db, now, db.budget.maxAge)
             marks == ObservationsOf(db, aged)
             step == IF aged = {} THEN "quota" ELSE "mark"
             r == [run[p] EXCEPT !.pc = step, !.marks = marks]
  <1>1. /\ run[p].pc = "age" /\ handle = p /\ handle' = p /\ now' = now
        /\ db' = PurgeEntries(db, aged, {})
        /\ run' = [run EXCEPT ![p] = r]
    BY Zenon DEF EnforceAge, Holds, Become
  <1>2. /\ run[p] \in Run /\ CommandInv(db, run[p]) /\ StoreInv(db)
        /\ db \in Store
    BY Known
  <1>3. aged \in SUBSET Key
    BY DEF AgedKeys
  <1>4. marks \in SUBSET ObservationId
    BY <1>2, <1>3, StoreFields DEF ObservationsOf, Maybe, Entry
  <1>5. step \in {"quota", "mark"}
    OBVIOUS
  <1> HIDE DEF aged, marks, step
  <1>6. /\ StoreInv(db')
        /\ \A k \in Key : db'.entries[k] \in {None, db.entries[k]}
    BY <1>1, <1>2, <1>3, PurgeEntriesKeeps
  <1>7. /\ r \in Run /\ r.pc = step /\ r.hash = run[p].hash
        /\ r.call = run[p].call /\ r.key = run[p].key
        /\ r.task = run[p].task /\ r.mayCache = run[p].mayCache
    BY <1>2, <1>4, <1>5 DEF Run, Steps
  <1> HIDE DEF r
  <1>8. r.pc \in Holding
    BY <1>5, <1>7 DEF Holding
  <1>9. CommandInv(db', r)
    <2>1. run[p].key # None => run[p].key \in Key
      BY <1>2, RunFields DEF Maybe
    <2> QED  BY <1>1, <1>2, <1>5, <1>6, <1>7, <2>1 DEF CommandInv, OwnRow
  <1> QED  BY <1>1, <1>6, <1>7, <1>8, <1>9, StepOfCommand

LEMMA MarkAgedKeeps ==
    ASSUME IInv, NEW p \in Process, MarkAged(p)
    PROVE  IInv'
  <1> DEFINE r == [run[p] EXCEPT !.pc = "quota", !.marks = {}]
  <1>1. /\ run[p].pc = "mark" /\ handle = p /\ handle' = p /\ now' = now
        /\ db' = MarkExpired(db, run[p].marks)
        /\ run' = [run EXCEPT ![p] = r]
    BY Zenon DEF MarkAged, Holds, Become
  <1>2. /\ run[p] \in Run /\ CommandInv(db, run[p]) /\ StoreInv(db)
    BY Known
  <1>3. StoreInv(db') /\ db'.entries = db.entries
    BY <1>1, <1>2, MarkExpiredKeeps
  <1>4. /\ r \in Run /\ r.pc = "quota" /\ r.hash = run[p].hash
        /\ r.call = run[p].call /\ r.key = run[p].key
        /\ r.task = run[p].task /\ r.mayCache = run[p].mayCache
    BY <1>2 DEF Run, Steps
  <1> HIDE DEF r
  <1>5. r.pc \in Holding
    BY <1>4 DEF Holding
  <1>6. CommandInv(db', r)
    BY <1>1, <1>2, <1>3, <1>4 DEF CommandInv, OwnRow
  <1> QED  BY <1>1, <1>3, <1>4, <1>5, <1>6, StepOfCommand

LEMMA EnforcePayloadQuotaKeeps ==
    ASSUME IInv, NEW p \in Process, EnforcePayloadQuota(p)
    PROVE  IInv'
  <1> DEFINE step == IF run[p].answer = "not_modified" THEN "mint"
                     ELSE "retained"
             r == [run[p] EXCEPT !.pc = step]
  <1>1. /\ run[p].pc = "quota" /\ handle = p /\ now' = now
        /\ db' = IF db.budget.maxBytes = None THEN db
                 ELSE EnforceQuota(db, db.budget.maxBytes)
    BY Zenon DEF EnforcePayloadQuota, Holds
  <1>2. /\ run[p] \in Run /\ CommandInv(db, run[p]) /\ StoreInv(db)
        /\ None # p
    BY Known
  <1>3. /\ StoreInv(db')
        /\ \A k \in Key : db'.entries[k] \in {None, db.entries[k]}
    BY <1>1, <1>2, EnforceQuotaKeeps
  <1>4. step \in {"mint", "retained"}
    OBVIOUS
  <1> HIDE DEF step
  <1>5. CASE run[p].key # None /\ db'.entries[run[p].key] # None
    <2>1. run' = [run EXCEPT ![p] = r] /\ handle' = handle
      BY <1>5, Zenon DEF EnforcePayloadQuota, Become, step
    <2>2. /\ r \in Run /\ r.pc = step /\ r.hash = run[p].hash
          /\ r.call = run[p].call /\ r.key = run[p].key
          /\ r.task = run[p].task /\ r.mayCache = run[p].mayCache
      BY <1>2, <1>4 DEF Run, Steps
    <2> HIDE DEF r
    <2>3. run[p].key \in Key
      BY <1>2, <1>5, RunFields DEF Maybe
    <2>4. r.pc \in Holding
      BY <1>4, <2>2 DEF Holding
    <2>5. CommandInv(db', r)
      BY <1>1, <1>2, <1>3, <1>4, <1>5, <2>2, <2>3 DEF CommandInv, OwnRow
    <2> QED  BY <1>1, <1>3, <2>1, <2>2, <2>4, <2>5, StepOfCommand
  <1>6. CASE ~(run[p].key # None /\ db'.entries[run[p].key] # None)
    <2>1. run' = [run EXCEPT ![p] = Idle] /\ handle' = None
      BY <1>6, Zenon DEF EnforcePayloadQuota, Finish, Become
    <2> QED  BY <1>1, <1>2, <1>3, <2>1, IdleCommand, StepOfCommand
  <1> QED  BY <1>5, <1>6

LEMMA ReadBackKeeps ==
    ASSUME IInv, NEW p \in Process, ReadBack(p)
    PROVE  IInv'
  <1> DEFINE r == [run[p] EXCEPT !.pc = "mint"]
  <1>1. /\ run[p].pc = "retained" /\ handle = p /\ now' = now
        /\ db' = LookUpEntry(db, run[p].key, now)
        /\ \/ run' = [run EXCEPT ![p] = r] /\ handle' = handle
           \/ run' = [run EXCEPT ![p] = Idle] /\ handle' = None
    BY Zenon DEF ReadBack, Holds, Finish, Become
  <1>2. /\ run[p] \in Run /\ CommandInv(db, run[p]) /\ StoreInv(db)
        /\ None # p
    BY Known
  <1>3. StoreInv(db') /\ db'.entries = db.entries
    BY <1>1, <1>2, LookUpsKeep
  <1>4. /\ r \in Run /\ r.pc = "mint" /\ r.hash = run[p].hash
        /\ r.call = run[p].call /\ r.key = run[p].key
        /\ r.task = run[p].task /\ r.mayCache = run[p].mayCache
    BY <1>2 DEF Run, Steps
  <1> HIDE DEF r
  <1>5. r.pc \in Holding /\ CommandInv(db', r)
    BY <1>1, <1>2, <1>3, <1>4 DEF Holding, CommandInv, OwnRow
  <1>6. CASE run' = [run EXCEPT ![p] = r] /\ handle' = handle
    BY <1>1, <1>3, <1>4, <1>5, <1>6, StepOfCommand
  <1>7. CASE run' = [run EXCEPT ![p] = Idle] /\ handle' = None
    BY <1>1, <1>2, <1>3, <1>7, IdleCommand, StepOfCommand
  <1> QED  BY <1>1, <1>6, <1>7

\* The command that mints a cursor shows the payload of the row of its key.
LEMMA Shown ==
    ASSUME IInv, NEW p \in Process, MintCursor(p)
    PROVE  /\ run[p].key \in Key /\ run[p].hash \in Hash
           /\ SourceOf[run[p].call] \in Source
           /\ db.entries[run[p].key] # None
           /\ db.entries[run[p].key].hash = run[p].hash
           /\ db.tokensIssued < MaxToken /\ now \in Nat /\ TTL \in Nat
           /\ db' = CreateCursor(db, run[p].key, SourceOf[run[p].call], now,
                                 TTL, run[p].hash)
  <1>1. /\ run[p].pc = "mint" /\ db.tokensIssued < MaxToken
        /\ db' = CreateCursor(db, run[p].key, SourceOf[run[p].call], now,
                              TTL, run[p].hash)
    BY Zenon DEF MintCursor
  <1>2. /\ run[p] \in Run /\ CommandInv(db, run[p]) /\ StoreInv(db)
        /\ db \in Store /\ now \in Nat
    BY Known
  <1>3. /\ run[p].key \in Key /\ run[p].call \in Call
        /\ OwnRow(db, run[p])
    BY <1>1, <1>2, RunFields DEF CommandInv, Maybe
  <1>4. run[p].hash \in Hash
    BY <1>2, <1>3, StoreFields DEF OwnRow, Maybe, Entry
  <1> QED
    BY <1>1, <1>2, <1>3, <1>4, SourceAssumption, TimeAssumption DEF OwnRow

LEMMA MintCursorKeeps ==
    ASSUME IInv, NEW p \in Process, MintCursor(p)
    PROVE  IInv'
  <1>1. /\ run[p].pc = "mint" /\ handle = p /\ now' = now
        /\ run' = [run EXCEPT ![p] = Idle] /\ handle' = None
    BY Zenon DEF MintCursor, Holds, Finish, Become
  <1>2. StoreInv(db) /\ None # p
    BY Known
  <1>3. StoreInv(db')
    BY <1>2, Shown, CreateCursorKeeps
  <1> QED  BY <1>1, <1>2, <1>3, IdleCommand, StepOfCommand

-----------------------------------------------------------------------------
(* The steps of the other commands.                                        *)

LEMMA StartTaskKeeps ==
    ASSUME IInv, NEW p \in Process, NEW i \in Task, StartTask(p, i)
    PROVE  IInv'
  <1> DEFINE r == [Idle EXCEPT !.pc = "upstream", !.task = i,
                               !.mayCache = TRUE]
  <1>1. /\ run[p].pc = "idle" /\ handle = None /\ handle' = handle
        /\ db' = db /\ now' = now /\ run' = [run EXCEPT ![p] = r]
    BY Zenon DEF StartTask, Become
  <1>2. StoreInv(db) /\ None # p
    BY Known
  <1>3. /\ r \in Run /\ r.pc = "upstream" /\ r.mayCache = TRUE
        /\ r.snapshot = None
    BY IdleCommand DEF Run, Steps, Maybe
  <1> HIDE DEF r
  <1>4. r.pc \notin Holding /\ CommandInv(db', r)
    BY <1>3 DEF Holding, CommandInv
  <1> QED  BY <1>1, <1>2, <1>3, <1>4, StepOfCommand

LEMMA RecordTaskKeeps ==
    ASSUME IInv, NEW p \in Process, NEW availability \in Captured,
           RecordTask(p, availability)
    PROVE  IInv'
  <1> DEFINE claimed == IF run[p].answer = "error" THEN "unavailable"
                        ELSE availability
  <1>1. /\ run[p].pc = "stored" /\ run[p].task # None /\ handle = p
        /\ now' = now /\ db.observationsIssued < MaxObservation
        /\ db' = RecordObservation(db, run[p].hash, claimed, run[p].task, None)
        /\ run' = [run EXCEPT ![p] = Idle] /\ handle' = None
    BY Zenon DEF RecordTask, Holds, Finish, Become
  <1>2. /\ run[p] \in Run /\ CommandInv(db, run[p]) /\ StoreInv(db)
        /\ None # p
    BY Known
  <1>3. /\ run[p].hash \in Hash /\ run[p].task \in Invocation
        /\ run[p].hash \in db.payloads
    BY <1>1, <1>2, RunFields, TaskAssumption DEF CommandInv, Maybe
  <1>4. claimed \in Availability
    BY CapturedAssumption DEF Availability
  <1>5. None \in Maybe(ObservationId)
    BY DEF Maybe
  <1> HIDE DEF claimed
  <1>6. StoreInv(db')
    BY <1>1, <1>2, <1>3, <1>4, <1>5, RecordObservationKeeps
  <1> QED  BY <1>1, <1>2, <1>6, IdleCommand, StepOfCommand

LEMMA SetRetentionKeeps ==
    ASSUME IInv, NEW p \in Process, NEW budget \in Policies,
           SetRetention(p, budget)
    PROVE  IInv'
  <1> DEFINE r == [Idle EXCEPT !.pc = "age"]
  <1>1. /\ handle = None /\ handle' = p /\ now' = now
        /\ db' = SetBudget(db, budget) /\ run' = [run EXCEPT ![p] = r]
    BY Zenon DEF SetRetention, Acquire, Become
  <1>2. StoreInv(db')
    BY <1>1, Known, PolicyAssumption, SetBudgetKeeps
  <1>3. r \in Run /\ r.pc = "age" /\ r.key = None /\ r.task = None
    BY IdleCommand DEF Run, Steps
  <1> HIDE DEF r
  <1>4. r.pc \in Holding /\ CommandInv(db', r)
    BY <1>3 DEF Holding, CommandInv
  <1> QED  BY <1>1, <1>2, <1>3, <1>4, StepOfCommand

LEMMA PurgeExpiredKeeps ==
    ASSUME IInv, NEW p \in Process, PurgeExpired(p)
    PROVE  IInv'
  <1> DEFINE keys == ExpiredKeys(db, now)
             marks == ObservationsOf(db, keys)
             r == [Idle EXCEPT !.pc = "purged", !.marks = marks]
  <1>1. /\ handle = None /\ handle' = p /\ now' = now
        /\ db' = PurgeEntries(db, keys, {}) /\ run' = [run EXCEPT ![p] = r]
    BY Zenon DEF PurgeExpired, Acquire, Become
  <1>2. StoreInv(db) /\ db \in Store
    BY Known
  <1>3. keys \in SUBSET Key
    BY DEF ExpiredKeys
  <1>4. marks \in SUBSET ObservationId
    BY <1>2, <1>3, StoreFields DEF ObservationsOf, Maybe, Entry
  <1> HIDE DEF keys, marks
  <1>5. StoreInv(db')
    BY <1>1, <1>2, <1>3, PurgeEntriesKeeps
  <1>6. r \in Run /\ r.pc = "purged" /\ r.task = None
    BY <1>4, IdleCommand DEF Run, Steps
  <1> HIDE DEF r
  <1>7. r.pc \in Holding /\ CommandInv(db', r)
    BY <1>6 DEF Holding, CommandInv
  <1> QED  BY <1>1, <1>5, <1>6, <1>7, StepOfCommand

LEMMA MarkPurgedKeeps ==
    ASSUME IInv, NEW p \in Process, MarkPurged(p)
    PROVE  IInv'
  <1>1. /\ handle = p /\ handle' = None /\ now' = now
        /\ db' = MarkExpired(db, run[p].marks)
        /\ run' = [run EXCEPT ![p] = Idle]
    BY Zenon DEF MarkPurged, Holds, Finish, Become
  <1>2. StoreInv(db) /\ None # p
    BY Known
  <1>3. StoreInv(db')
    BY <1>1, <1>2, MarkExpiredKeeps
  <1> QED  BY <1>1, <1>2, <1>3, IdleCommand, StepOfCommand

\* A command that ends or dies forgets everything.
LEMMA EndKeeps ==
    ASSUME IInv, NEW p \in Process,
           run' = [run EXCEPT ![p] = Idle], db' = db, now' = now,
           handle' = IF handle = p THEN None ELSE handle
    PROVE  IInv'
  <1>1. StoreInv(db) /\ None # p
    BY Known
  <1> QED  BY <1>1, IdleCommand, StepOfCommand

\* A command of one transaction is alone: nobody is between two.
LEMMA AloneKeeps ==
    ASSUME IInv, Alone, StoreInv(db')
    PROVE  IInv'
  <1>1. /\ run \in [Process -> Run] /\ handle \in Maybe(Process)
        /\ now \in Time
        /\ \A q \in Process : /\ handle = q <=> (run[q].pc \in Holding)
                              /\ CommandInv(db, run[q])
    BY Zenon DEF IInv, TypeOK, Holds
  <1>2. run' = run /\ now' = now /\ handle = None /\ handle' = handle
    BY Zenon DEF Alone
  <1>3. TypeOK'
    BY <1>1, <1>2, Zenon DEF TypeOK, StoreInv
  <1>4. ASSUME NEW q \in Process
        PROVE  /\ (handle' = q) <=> (run'[q].pc \in Holding)
               /\ CommandInv(db', run'[q])
    <2>1. run[q].pc \notin Holding
      BY <1>1, <1>2, FreeAssumption
    <2>2. CommandInv(db', run[q])
      BY <1>1, <2>1, WithoutHandle
    <2> QED  BY <1>1, <1>2, <2>2
  <1> QED  BY <1>3, <1>4, Zenon DEF IInv, Holds

LEMMA SharedStepKeeps ==
    ASSUME IInv, SharedStep
    PROVE  IInv'
  <1>1. StoreInv(db) /\ db \in Store
    BY Zenon DEF IInv, TypeOK
  <1>2. ASSUME NEW s \in Source, PurgeSource(s) PROVE IInv'
    <2>1. Alone /\ db' = PurgeEntries(db, SourceKeys(db, s), {s})
      BY <1>2, Zenon DEF PurgeSource
    <2>2. SourceKeys(db, s) \in SUBSET Key
      BY DEF SourceKeys
    <2>3. StoreInv(db')
      BY <1>1, <2>1, <2>2, PurgeEntriesKeeps
    <2> QED  BY <2>1, <2>3, AloneKeeps
  <1>3. ASSUME PurgeStore PROVE IInv'
    BY <1>1, <1>3, PurgeAllKeeps, AloneKeeps DEF PurgeStore
  <1>4. ASSUME NEW maxBytes \in Limits, PurgeToBudget(maxBytes) PROVE IInv'
    BY <1>1, <1>4, EnforceQuotaKeeps, AloneKeeps DEF PurgeToBudget
  <1>5. ASSUME NEW t \in Token, ReadCursor(t) PROVE IInv'
    <2>1. /\ Alone
          /\ \/ db' = LookUpEntry(db, db.cursors[t].key, now)
             \/ db' = LookUpCursor(db, t, now)
      BY <1>5, Zenon DEF ReadCursor
    <2>2. StoreInv(db')
      BY <1>1, <2>1, LookUpsKeep
    <2> QED  BY <2>1, <2>2, AloneKeeps
  <1>6. ASSUME Tick PROVE IInv'
    <2>1. db' = db /\ handle' = handle /\ run' = run
      BY <1>6 DEF Tick
    <2>2. now' \in Time
      BY <1>6, TimeAssumption DEF IInv, TypeOK, Tick, Time
    <2> QED  BY <2>1, <2>2, Zenon DEF IInv, TypeOK, Holds
  <1> QED  BY <1>2, <1>3, <1>4, <1>5, <1>6, Zenon DEF SharedStep

\* Each step of every process and of the environment preserves IInv.
LEMMA StepPreserves == IInv /\ [Next]_vars => IInv'
  <1> SUFFICES ASSUME IInv, [Next]_vars PROVE IInv'  OBVIOUS
  <1>1. ASSUME NEW p \in Process, CallStep(p) PROVE IInv'
    <2>1. ASSUME NEW c \in Call, NEW refresh \in BOOLEAN,
                 NEW mayCache \in CacheModes,
                 StartCall(p, c, refresh, mayCache)
          PROVE  IInv'
      <3>1. mayCache \in BOOLEAN
        BY CacheModesAssumption
      <3> QED  BY <2>1, <3>1, StartCallKeeps
    <2>2. ASSUME NEW answer \in Replies, NEW h \in Hash,
                 SourceAnswers(p, answer, h)
          PROVE  IInv'
      BY <2>2, RepliesAssumption, SourceAnswersKeeps
    <2>3. ASSUME SourceFails(p) PROVE IInv'
      <3>1. /\ handle' = handle /\ db' = db /\ now' = now
            /\ run' = [run EXCEPT ![p] = Idle]
            /\ run[p].pc = "upstream"
        BY <2>3, Zenon DEF SourceFails, Become
      <3>2. handle # p
        BY <3>1, Known DEF Holding
      <3> QED  BY <3>1, <3>2, EndKeeps
    <2>4. ASSUME NEW availability \in Captured, RecordCall(p, availability)
          PROVE  IInv'
      BY <2>4, RecordCallKeeps
    <2>5. ASSUME NEW redacted \in {r \in BOOLEAN : r => "redacted" \in Captured},
                 ConfirmUnchanged(p, redacted)
          PROVE  IInv'
      <3>1. redacted \in BOOLEAN
        BY Zenon
      <3> QED  BY <2>5, <3>1, ConfirmUnchangedKeeps
    <2> QED
      BY <1>1, <2>1, <2>2, <2>3, <2>4, <2>5, StorePayloadKeeps,
         InsertEntryKeeps, EnforceAgeKeeps, MarkAgedKeeps,
         EnforcePayloadQuotaKeeps, ReadBackKeeps, MintCursorKeeps, Zenon
      DEF CallStep
  <1>2. ASSUME NEW p \in Process, TaskStep(p) PROVE IInv'
    BY <1>2, StartTaskKeeps, RecordTaskKeeps DEF TaskStep
  <1>3. ASSUME NEW p \in Process, CacheStep(p) PROVE IInv'
    BY <1>3, SetRetentionKeeps, PurgeExpiredKeeps, MarkPurgedKeeps
    DEF CacheStep
  <1>4. ASSUME NEW p \in Process, Crash(p) PROVE IInv'
    <2>1. /\ run' = [run EXCEPT ![p] = Idle] /\ db' = db /\ now' = now
          /\ handle' = IF handle = p THEN None ELSE handle
      BY <1>4, Zenon DEF Crash, Become, Holds
    <2> QED  BY <2>1, EndKeeps
  <1>5. ASSUME UNCHANGED vars PROVE IInv'
    BY <1>5, Zenon DEF vars, IInv, TypeOK, Holds
  <1> QED
    BY <1>1, <1>2, <1>3, <1>4, <1>5, SharedStepKeeps, Zenon DEF Next

-----------------------------------------------------------------------------
(* The theorems.                                                           *)

\* The inductive invariant holds in every reachable state.
THEOREM CaptureInvariant == Spec => []IInv
  BY InitHolds, StepPreserves, PTL DEF Spec

\* Every variable keeps its type.
THEOREM TypeCorrect == Spec => []TypeOK
  <1>1. IInv => TypeOK
    BY DEF IInv
  <1> QED  BY <1>1, CaptureInvariant, PTL

\* put_entry, the purges and the evictions: a cache entry never points at a
\* payload that is gone, nor at anything but a capture of that payload.
THEOREM EntriesStayBacked == Spec => []EntriesBacked
  <1>1. IInv => EntriesBacked
    BY DEF IInv, StoreInv, EntriesBacked
  <1> QED  BY <1>1, CaptureInvariant, PTL

\* record_capture and retention: an observation that claims recoverable
\* evidence has its payload.
THEOREM EvidenceStaysBacked == Spec => []EvidenceBacked
  <1>1. IInv => EvidenceBacked
    BY DEF IInv, StoreInv, EvidenceBacked
  <1> QED  BY <1>1, CaptureInvariant, PTL

\* A bound cursor resolves to a capture of what its caller was shown.
LEMMA BoundCursorResolves ==
    ASSUME NEW d, StoreInv(d), NEW t \in Token, NEW time,
           d.cursors[t] # None, d.cursors[t].observation # None
    PROVE  Resolve(d, t, time) \in {d.cursors[t].shown, None}
  <1>1. /\ d \in Store
        /\ Captures(d, d.cursors[t].observation, d.cursors[t].shown)
    BY DEF StoreInv, CursorsBound
  <1>2. None \notin d.payloads
    BY <1>1, StoreFields, HashAssumption, NoneAssumption
  <1> QED  BY <1>1, <1>2 DEF Resolve, Captures

\* expand_cursor and cursor_context: the fail-closed cursor of INVARIANTS.md
\* I3 and I9, for every cursor that is bound to an observation.
THEOREM BoundCursorsAreHonest == Spec => []BoundCursorsNeverDrift
  <1>1. IInv => BoundCursorsNeverDrift
    BY BoundCursorResolves DEF IInv, BoundCursorsNeverDrift
  <1> QED  BY <1>1, CaptureInvariant, PTL

\* The transactions that have nothing to do with cursors leave them alone.
LEMMA RecordAddsNoCursor ==
    ASSUME NEW d \in Store, NEW h, NEW a, NEW i, NEW o
    PROVE  /\ RecordObservation(d, h, a, i, o).cursors = d.cursors
           /\ RecordCapture(d, h, a, i).cursors = d.cursors
  <1>1. \A c, q : RecordObservation(d, h, c, i, q).cursors = d.cursors
    BY DEF RecordObservation, Store
  <1> QED  BY <1>1, Zenon DEF RecordCapture

LEMMA WriteAddsNoCursor ==
    ASSUME NEW d \in Store, NEW h, NEW k, NEW row, NEW b
    PROVE  /\ PutPayload(d, h).cursors = d.cursors
           /\ PutEntryRow(d, k, row).cursors = d.cursors
           /\ SetBudget(d, b).cursors = d.cursors
  BY DEF PutPayload, PutEntryRow, SetBudget, Store

\* No step of a call but the last one adds a cursor ...
LEMMA CallStepAddsNone ==
    ASSUME IInv, NEW p \in Process, CallStep(p), ~MintCursor(p),
           NEW t \in Token
    PROVE  db'.cursors[t] \in {None, db.cursors[t]}
  <1>0. StoreInv(db) /\ db \in Store
    BY Known
  <1>1. ASSUME NEW c \in Call, NEW refresh \in BOOLEAN,
               NEW mayCache \in CacheModes, StartCall(p, c, refresh, mayCache)
        PROVE  db'.cursors = db.cursors
    BY <1>0, <1>1, LookUpsKeep, Zenon DEF StartCall
  <1>2. ASSUME \/ \E answer \in Replies, h \in Hash : SourceAnswers(p, answer, h)
               \/ SourceFails(p)
        PROVE  db'.cursors = db.cursors
    BY <1>2, Zenon DEF SourceAnswers, SourceFails
  <1>3. ASSUME StorePayload(p) PROVE db'.cursors = db.cursors
    <2>1. db' = db \/ db' = PutPayload(db, run[p].hash)
      BY <1>3, Zenon DEF StorePayload
    <2> QED  BY <1>0, <2>1, WriteAddsNoCursor
  <1>4. ASSUME NEW availability \in Captured, RecordCall(p, availability)
        PROVE  db'.cursors = db.cursors
    <2>1. \E a : db' = RecordCapture(db, run[p].hash, a, run[p].call)
      BY <1>4, Zenon DEF RecordCall
    <2> QED  BY <1>0, <2>1, RecordAddsNoCursor
  <1>5. ASSUME NEW redacted, ConfirmUnchanged(p, redacted)
        PROVE  db'.cursors = db.cursors
    <2>1. \/ db' = db
          \/ \E a : db' = RecordObservation(db, run[p].snapshot.hash, a,
                         run[p].call, run[p].snapshot.observation)
      BY <1>5, Zenon DEF ConfirmUnchanged
    <2> QED  BY <1>0, <2>1, RecordAddsNoCursor
  <1>6. ASSUME InsertEntry(p) PROVE db'.cursors = db.cursors
    <2>1. db' = PutEntryRow(db, run[p].key, run[p].entry)
      BY <1>6, Zenon DEF InsertEntry
    <2> QED  BY <1>0, <2>1, WriteAddsNoCursor
  <1>7. ASSUME EnforceAge(p) PROVE db'.cursors[t] \in {None, db.cursors[t]}
    <2> DEFINE aged == IF db.budget.maxAge = None THEN {}
                       ELSE AgedKeys(db, now, db.budget.maxAge)
    <2>1. db' = PurgeEntries(db, aged, {})
      BY <1>7, Zenon DEF EnforceAge
    <2>2. aged \in SUBSET Key
      BY DEF AgedKeys
    <2> HIDE DEF aged
    <2> QED  BY <1>0, <2>1, <2>2, PurgeEntriesKeeps
  <1>8. ASSUME MarkAged(p) PROVE db'.cursors = db.cursors
    BY <1>0, <1>8, MarkExpiredKeeps, Zenon DEF MarkAged
  <1>9. ASSUME EnforcePayloadQuota(p)
        PROVE  db'.cursors[t] \in {None, db.cursors[t]}
    <2>1. db' = db \/ db' = EnforceQuota(db, db.budget.maxBytes)
      BY <1>9, Zenon DEF EnforcePayloadQuota
    <2> QED  BY <1>0, <2>1, EnforceQuotaKeeps
  <1>10. ASSUME ReadBack(p) PROVE db'.cursors = db.cursors
    BY <1>0, <1>10, LookUpsKeep, Zenon DEF ReadBack
  <1>11. db'.cursors = db.cursors \/ db'.cursors[t] \in {None, db.cursors[t]}
    BY <1>1, <1>2, <1>3, <1>4, <1>5, <1>6, <1>7, <1>8, <1>9, <1>10, Zenon
    DEF CallStep
  <1> QED  BY <1>11

\* ... and no step of another command does.
LEMMA OtherStepsAddNone ==
    ASSUME IInv, NEW t \in Token,
           \/ SharedStep
           \/ \E p \in Process : TaskStep(p) \/ CacheStep(p) \/ Crash(p)
    PROVE  db'.cursors[t] \in {None, db.cursors[t]}
  <1>0. StoreInv(db) /\ db \in Store
    BY Zenon DEF IInv, TypeOK
  <1>1. ASSUME NEW p \in Process, TaskStep(p)
        PROVE  db'.cursors = db.cursors
    <2>1. \/ db' = db
          \/ \E a : db' = RecordObservation(db, run[p].hash, a, run[p].task,
                                          None)
      BY <1>1, Zenon DEF TaskStep, StartTask, RecordTask
    <2> QED  BY <1>0, <2>1, RecordAddsNoCursor
  <1>2. ASSUME NEW p \in Process, NEW b \in Policies, SetRetention(p, b)
        PROVE  db'.cursors = db.cursors
    <2>1. db' = SetBudget(db, b)
      BY <1>2, Zenon DEF SetRetention
    <2> QED  BY <1>0, <2>1, WriteAddsNoCursor
  <1>3. ASSUME NEW p \in Process, PurgeExpired(p)
        PROVE  db'.cursors[t] \in {None, db.cursors[t]}
    <2>1. ExpiredKeys(db, now) \in SUBSET Key
      BY DEF ExpiredKeys
    <2>2. db' = PurgeEntries(db, ExpiredKeys(db, now), {})
      BY <1>3, Zenon DEF PurgeExpired
    <2> QED  BY <1>0, <2>1, <2>2, PurgeEntriesKeeps
  <1>4. ASSUME NEW p \in Process, MarkPurged(p)
        PROVE  db'.cursors = db.cursors
    BY <1>0, <1>4, MarkExpiredKeeps, Zenon DEF MarkPurged
  <1>5. ASSUME NEW p \in Process, Crash(p) PROVE db'.cursors = db.cursors
    BY <1>5, Zenon DEF Crash
  <1>6. ASSUME NEW s \in Source, PurgeSource(s)
        PROVE  db'.cursors[t] \in {None, db.cursors[t]}
    <2>1. SourceKeys(db, s) \in SUBSET Key
      BY DEF SourceKeys
    <2>2. db' = PurgeEntries(db, SourceKeys(db, s), {s})
      BY <1>6, Zenon DEF PurgeSource
    <2> QED  BY <1>0, <2>1, <2>2, PurgeEntriesKeeps
  <1>7. ASSUME PurgeStore PROVE db'.cursors[t] \in {None, db.cursors[t]}
    BY <1>0, <1>7, PurgeAllKeeps DEF PurgeStore
  <1>8. ASSUME NEW maxBytes \in Limits, PurgeToBudget(maxBytes)
        PROVE  db'.cursors[t] \in {None, db.cursors[t]}
    BY <1>0, <1>8, EnforceQuotaKeeps DEF PurgeToBudget
  <1>9. ASSUME NEW u \in Token, ReadCursor(u) PROVE db'.cursors = db.cursors
    <2>1. \/ db' = LookUpEntry(db, db.cursors[u].key, now)
          \/ db' = LookUpCursor(db, u, now)
      BY <1>9, Zenon DEF ReadCursor
    <2> QED  BY <1>0, <2>1, LookUpsKeep
  <1>10. ASSUME Tick PROVE db'.cursors = db.cursors
    BY <1>10, Zenon DEF Tick
  <1>11. db'.cursors = db.cursors \/ db'.cursors[t] \in {None, db.cursors[t]}
    BY <1>1, <1>2, <1>3, <1>4, <1>5, <1>6, <1>7, <1>8, <1>9, <1>10, Zenon
    DEF SharedStep, CacheStep
  <1> QED  BY <1>11

\* The cursor a command mints resolves, if it is bound, to what was shown.
LEMMA MintedResolves ==
    ASSUME TTL > 0, IInv, NEW p \in Process, MintCursor(p), NEW t \in Token,
           db.cursors[t] = None, db'.cursors[t] # None,
           db'.cursors[t].observation # None
    PROVE  Resolve(db', t, now) = db'.cursors[t].shown
  <1> DEFINE k == run[p].key
             c == db'.cursors[t]
  <1>1. StoreInv(db) /\ db \in Store
    BY Known
  <1>2. /\ StoreInv(db') /\ db'.payloads = db.payloads
        /\ db'.entries = db.entries
        /\ \A u \in Token \ {db.tokensIssued + 1} :
              db'.cursors[u] = db.cursors[u]
        /\ db'.cursors[db.tokensIssued + 1].observation # None =>
              EntryAt(db, k, now) # None
        /\ db'.cursors[db.tokensIssued + 1].key = k
        /\ db'.cursors[db.tokensIssued + 1].shown = run[p].hash
        /\ db'.cursors[db.tokensIssued + 1].expires = now + TTL
    <2> DEFINE s == SourceOf[run[p].call]
               h == run[p].hash
    <2>1. /\ k \in Key /\ h \in Hash /\ s \in Source
          /\ db.entries[k] # None => db.entries[k].hash = h
          /\ db.tokensIssued < MaxToken /\ now \in Nat /\ TTL \in Nat
          /\ db' = CreateCursor(db, k, s, now, TTL, h)
      BY Shown
    <2> HIDE DEF k, s, h
    <2> QED  BY <1>1, <2>1, CreateCursorKeeps DEF h
  <1>3. t = db.tokensIssued + 1
    BY <1>2
  <1>4. /\ c.key = k /\ c.shown = run[p].hash /\ EntryAt(db, k, now) # None
    BY <1>2, <1>3
  <1>5. EntryAt(db', c.key, now) # None
    BY <1>2, <1>4 DEF EntryAt
  <1>6. Captures(db', c.observation, c.shown)
    BY <1>2 DEF StoreInv, CursorsBound
  <1>7. c.shown \in db'.payloads
    BY <1>1, <1>2, <1>4, Shown DEF StoreInv, AllEntriesBacked, EntryBacked
  <1>8. c.expires > now
    BY <1>2, <1>3, Shown
  <1> QED  BY <1>5, <1>6, <1>7, <1>8 DEF Resolve, Captures, Unexpired

\* cursor_for_projection: the cursor a command returns works at once, unless
\* it was minted for a row that had already expired and is bound to nothing.
\* (A lifetime of zero seconds makes every cursor dead on arrival.)
THEOREM FreshCursorsAreGood == TTL > 0 /\ Spec => FreshCursorsResolve
  <1> DEFINE Good == \A t \in Token :
                        /\ db.cursors[t] = None /\ db'.cursors[t] # None
                        /\ db'.cursors[t].observation # None
                        => Resolve(db', t, now) = db'.cursors[t].shown
  <1> SUFFICES ASSUME TTL > 0 PROVE Spec => FreshCursorsResolve
    OBVIOUS
  <1>1. IInv /\ [Next]_vars => [Good]_vars
    <2> SUFFICES ASSUME IInv, Next, NEW t \in Token,
                        db.cursors[t] = None, db'.cursors[t] # None,
                        db'.cursors[t].observation # None
                 PROVE  Resolve(db', t, now) = db'.cursors[t].shown
      BY DEF vars
    <2>1. ~(db'.cursors[t] \in {None, db.cursors[t]})
      OBVIOUS
    <2>2. \E p \in Process : MintCursor(p)
      BY <2>1, CallStepAddsNone, OtherStepsAddNone DEF Next
    <2> QED  BY <2>2, MintedResolves
  <1> QED  BY <1>1, CaptureInvariant, PTL DEF Spec, FreshCursorsResolve

-----------------------------------------------------------------------------
(* The history of the captures.                                            *)

\* record_capture, of an answer ...
LEMMA RecordCallRecords ==
    ASSUME IInv, NEW p \in Process, NEW availability \in Captured,
           RecordCall(p, availability)
    PROVE  Records(db, db')
  <1> DEFINE claimed == IF run[p].mayCache THEN availability
                        ELSE "metadata_only"
             kept == IF claimed = "metadata_only" \/ run[p].hash \in db.payloads
                     THEN claimed ELSE "unavailable"
  <1>1. /\ run[p].pc = "stored" /\ run[p].call # None
        /\ db.observationsIssued < MaxObservation
        /\ db' = RecordCapture(db, run[p].hash, claimed, run[p].call)
    BY Zenon DEF RecordCall
  <1>2. run[p] \in Run /\ CommandInv(db, run[p])
    BY Known
  <1>3. run[p].hash \in Hash /\ run[p].call \in Invocation
    BY <1>1, <1>2, RunFields, CallAssumption DEF CommandInv, Maybe
  <1>4. kept \in Availability
    BY CapturedAssumption DEF Availability
  <1>5. db' = RecordObservation(db, run[p].hash, kept, run[p].call, None)
    BY <1>1, Zenon DEF RecordCapture
  <1> HIDE DEF kept, claimed
  <1>6. None \in Maybe(ObservationId)
    BY DEF Maybe
  <1> QED  BY <1>1, <1>3, <1>4, <1>5, <1>6 DEF Records

\* ... of a 304, which is recorded against the capture it confirms ...
LEMMA ConfirmRecords ==
    ASSUME IInv, HistoryInv, NEW p \in Process, NEW redacted,
           ConfirmUnchanged(p, redacted)
    PROVE  Records(db, db') \/ db' = db
  <1> DEFINE old == run[p].snapshot
             prior == IF old.observation = None THEN None
                      ELSE db.observations[old.observation]
             availability == IF redacted /\ prior.availability = "recoverable"
                             THEN "redacted" ELSE prior.availability
  <1>1. run[p].pc = "answered" /\ run[p].answer = "not_modified"
    BY Zenon DEF ConfirmUnchanged
  <1>2. run[p] \in Run /\ CommandInv(db, run[p]) /\ db \in Store
    BY Known
  <1>3. /\ old \in Entry /\ old # None /\ old.hash \in Hash
        /\ old.observation \in Maybe(ObservationId)
        /\ run[p].call \in Invocation
    BY <1>1, <1>2, RunFields, CallAssumption DEF CommandInv, Maybe, Entry
  <1>4. SUFFICES ASSUME db' # db PROVE Records(db, db')
    OBVIOUS
  <1>5. /\ prior # None /\ db.observationsIssued < MaxObservation
        /\ db' = RecordObservation(db, old.hash, availability, run[p].call,
                                   old.observation)
    BY <1>4, Zenon DEF ConfirmUnchanged
  <1>6. /\ old.observation # None /\ prior = db.observations[old.observation]
    BY <1>5
  <1>7. prior.hash = old.hash
    BY <1>3, <1>5, <1>6 DEF HistoryInv, SnapshotHolds
  <1>8. availability \in Availability
    <2>1. prior \in Observation
      BY <1>2, <1>3, <1>5, StoreFields DEF Maybe
    <2> QED  BY <2>1 DEF Observation, Availability, Live
  <1> HIDE DEF availability
  <1> QED  BY <1>3, <1>5, <1>6, <1>7, <1>8 DEF Records

\* ... and of a task.
LEMMA RecordTaskRecords ==
    ASSUME IInv, NEW p \in Process, NEW availability \in Captured,
           RecordTask(p, availability)
    PROVE  Records(db, db')
  <1> DEFINE claimed == IF run[p].answer = "error" THEN "unavailable"
                        ELSE availability
  <1>1. /\ run[p].pc = "stored" /\ run[p].task # None
        /\ db.observationsIssued < MaxObservation
        /\ db' = RecordObservation(db, run[p].hash, claimed, run[p].task, None)
    BY Zenon DEF RecordTask
  <1>2. run[p] \in Run /\ CommandInv(db, run[p])
    BY Known
  <1>3. run[p].hash \in Hash /\ run[p].task \in Invocation
    BY <1>1, <1>2, RunFields, TaskAssumption DEF CommandInv, Maybe
  <1>4. claimed \in Availability
    BY CapturedAssumption DEF Availability
  <1> HIDE DEF claimed
  <1>5. None \in Maybe(ObservationId)
    BY DEF Maybe
  <1> QED  BY <1>1, <1>3, <1>4, <1>5 DEF Records

\* Every step forgets, records one capture, erases everything or mints a
\* cursor: nothing else happens to the history.
LEMMA CallStepKinds ==
    ASSUME IInv, HistoryInv, NEW p \in Process, CallStep(p)
    PROVE  Forgets(db, db') \/ Records(db, db') \/ Issues(db, db')
  <1>0. StoreInv(db)
    BY Known
  <1>1. ASSUME NEW c \in Call, NEW refresh \in BOOLEAN,
               NEW mayCache \in CacheModes, StartCall(p, c, refresh, mayCache)
        PROVE  Forgets(db, db')
    <2>1. db' = db \/ db' = LookUpEntry(db, c, now)
      BY <1>1, Zenon DEF StartCall
    <2> QED  BY <1>0, <2>1, LookUpsForget, NothingForgets
  <1>2. ASSUME \/ \E answer \in Replies, h \in Hash : SourceAnswers(p, answer, h)
               \/ SourceFails(p)
        PROVE  Forgets(db, db')
    <2>1. db' = db
      BY <1>2, Zenon DEF SourceAnswers, SourceFails
    <2> QED  BY <2>1, NothingForgets
  <1>3. ASSUME StorePayload(p) PROVE Forgets(db, db')
    <2>1. db' = db \/ db' = PutPayload(db, run[p].hash)
      BY <1>3, Zenon DEF StorePayload
    <2> QED  BY <1>0, <2>1, WritesForget, NothingForgets
  <1>4. ASSUME \E availability \in Captured : RecordCall(p, availability)
        PROVE  Records(db, db')
    BY <1>4, RecordCallRecords
  <1>5. ASSUME NEW redacted, ConfirmUnchanged(p, redacted)
        PROVE  Records(db, db') \/ Forgets(db, db')
    BY <1>5, ConfirmRecords, NothingForgets
  <1>6. ASSUME InsertEntry(p) PROVE Forgets(db, db')
    <2>1. db' = PutEntryRow(db, run[p].key, run[p].entry)
      BY <1>6, Zenon DEF InsertEntry
    <2> QED  BY <1>0, <2>1, WritesForget
  <1>7. ASSUME EnforceAge(p) PROVE Forgets(db, db')
    <2>1. \E keys : db' = PurgeEntries(db, keys, {})
      BY <1>7, Zenon DEF EnforceAge
    <2> QED  BY <1>0, <2>1, PurgesForget
  <1>8. ASSUME MarkAged(p) PROVE Forgets(db, db')
    <2>1. db' = MarkExpired(db, run[p].marks)
      BY <1>8, Zenon DEF MarkAged
    <2> QED  BY <1>0, <2>1, MarkExpiredForgets
  <1>9. ASSUME EnforcePayloadQuota(p) PROVE Forgets(db, db')
    <2>1. db' = db \/ db' = EnforceQuota(db, db.budget.maxBytes)
      BY <1>9, Zenon DEF EnforcePayloadQuota
    <2> QED  BY <1>0, <2>1, PurgesForget, NothingForgets
  <1>10. ASSUME ReadBack(p) PROVE Forgets(db, db')
    <2>1. db' = LookUpEntry(db, run[p].key, now)
      BY <1>10, Zenon DEF ReadBack
    <2> QED  BY <1>0, <2>1, LookUpsForget
  <1>11. ASSUME MintCursor(p) PROVE Issues(db, db')
    BY <1>0, <1>11, Shown, CreatingIssues
  <1> QED
    BY <1>1, <1>2, <1>3, <1>4, <1>5, <1>6, <1>7, <1>8, <1>9, <1>10, <1>11,
       Zenon
    DEF CallStep

LEMMA StepKinds ==
    ASSUME IInv, HistoryInv, [Next]_vars
    PROVE  \/ Forgets(db, db') \/ Records(db, db')
           \/ Issues(db, db') \/ db' = PurgeAll(db)
  <1>0. StoreInv(db)
    BY Zenon DEF IInv
  <1>1. ASSUME NEW p \in Process, TaskStep(p)
        PROVE  Forgets(db, db') \/ Records(db, db')
    <2>1. db' = db \/ \E availability \in Captured : RecordTask(p, availability)
      BY <1>1, Zenon DEF TaskStep, StartTask
    <2> QED  BY <2>1, RecordTaskRecords, NothingForgets
  <1>2. ASSUME NEW p \in Process, CacheStep(p) PROVE Forgets(db, db')
    <2>1. \/ \E b : db' = SetBudget(db, b)
          \/ \E keys : db' = PurgeEntries(db, keys, {})
          \/ db' = MarkExpired(db, run[p].marks)
      BY <1>2, Zenon DEF CacheStep, SetRetention, PurgeExpired, MarkPurged
    <2> QED  BY <1>0, <2>1, WritesForget, PurgesForget, MarkExpiredForgets
  <1>3. ASSUME NEW p \in Process, Crash(p) PROVE Forgets(db, db')
    BY <1>3, NothingForgets DEF Crash
  <1>4. ASSUME SharedStep PROVE Forgets(db, db') \/ db' = PurgeAll(db)
    <2>1. \/ \E keys, sources : db' = PurgeEntries(db, keys, sources)
          \/ db' = PurgeAll(db)
          \/ \E maxBytes : db' = EnforceQuota(db, maxBytes)
          \/ \E k, time : db' = LookUpEntry(db, k, time)
          \/ \E t, time : db' = LookUpCursor(db, t, time)
          \/ db' = db
      BY <1>4, Zenon DEF SharedStep, PurgeSource, PurgeStore, PurgeToBudget,
                         ReadCursor, Tick
    <2> QED  BY <1>0, <2>1, PurgesForget, LookUpsForget, NothingForgets
  <1>5. ASSUME UNCHANGED vars PROVE Forgets(db, db')
    BY <1>5, NothingForgets DEF vars
  <1> QED
    BY <1>1, <1>2, <1>3, <1>4, <1>5, CallStepKinds, Zenon DEF Next

\* What an identifier that was issued names is never rewritten, only erased.
LEMMA CapturesOnlyAge ==
    ASSUME IInv, HistoryInv, [Next]_vars, NEW o \in ObservationId,
           o <= db.observationsIssued
    PROVE  /\ o <= db'.observationsIssued
           /\ db'.observations[o] # None =>
                 /\ db.observations[o] # None
                 /\ db'.observations[o].hash = db.observations[o].hash
  <1>1. db \in Store /\ db.observationsIssued \in Nat
    BY StoreFields DEF IInv, TypeOK
  <1>2. CASE Forgets(db, db') \/ Issues(db, db')
    BY <1>2 DEF Forgets, Issues, SameCaptures
  <1>3. CASE Records(db, db')
    BY <1>1, <1>3, RecordingAges
  <1>4. CASE db' = PurgeAll(db)
    BY <1>4 DEF PurgeAll, EmptyStore
  <1> QED  BY <1>2, <1>3, <1>4, StepKinds

\* The command p drops the entry its lookup found, keeps it, or finds one
\* that is stored at that moment; the entry it is about to insert is dropped,
\* kept, new, or the one its lookup found.
Carries(p, r) ==
    /\ \/ r.snapshot \in {None, run[p].snapshot}
       \/ \E k \in Key : db.entries[k] # None /\ r.snapshot = db.entries[k]
    /\ \/ r.entry \in {None, run[p].entry}
       \/ r.entry.created = now
       \/ /\ run[p].snapshot # None
          /\ r.entry.created = run[p].snapshot.created

LEMMA LocalSteps ==
    ASSUME IInv, [Next]_vars, NEW q \in Process
    PROVE  Carries(q, run'[q])
  <1>1. /\ run \in [Process -> Run]
        /\ \A p \in Process : run[p] \in Run
    BY DEF IInv, TypeOK
  <1>2. ASSUME NEW p \in Process, NEW r, Become(p, r), Carries(p, r)
        PROVE  Carries(q, run'[q])
    <2>1. run'[q] = r \/ run'[q] = run[q]
      BY <1>1, <1>2 DEF Become
    <2> QED  BY <1>1, <1>2, <2>1 DEF Become, Carries
  <1>3. ASSUME NEW p \in Process,
               \/ Become(p, Idle)
               \/ \E r : /\ Become(p, r) /\ r.snapshot = None
                        /\ r.entry \in {None, run[p].entry}
        PROVE  Carries(q, run'[q])
    <2>1. Idle.snapshot = None /\ Idle.entry = None
      BY DEF Idle
    <2>2. PICK r : /\ Become(p, r) /\ r.snapshot = None
                   /\ r.entry \in {None, run[p].entry}
      BY <1>3, <2>1
    <2>3. Carries(p, r)
      BY <2>2 DEF Carries
    <2> QED  BY <1>2, <2>2, <2>3
  <1>4. CASE run' = run
    BY <1>4 DEF Carries
  <1>5. ASSUME NEW p \in Process, CallStep(p) PROVE Carries(q, run'[q])
    <2>1. ASSUME NEW c \in Call, NEW refresh, NEW mayCache,
                 StartCall(p, c, refresh, mayCache)
          PROVE  Carries(q, run'[q])
      <3> DEFINE found == IF mayCache THEN EntryAt(db, c, now) ELSE None
                 r == [Idle EXCEPT !.call = c, !.refresh = refresh,
                                   !.mayCache = mayCache, !.key = c]
                 asked == [r EXCEPT !.pc = "upstream", !.snapshot = found]
                 hit == [r EXCEPT !.pc = "mint", !.hash = found.hash]
      <3>1. Become(p, asked) \/ Become(p, hit) \/ run' = run
        BY <2>1, Zenon DEF StartCall
      <3>2. /\ asked.snapshot = found /\ hit.snapshot = None
            /\ asked.entry = None /\ hit.entry = None
        BY DEF Idle
      <3>3. found = None \/ (found = db.entries[c] /\ db.entries[c] # None)
        BY DEF EntryAt, Unexpired
      <3>4. c \in Key
        BY CallAssumption
      <3> HIDE DEF asked, hit, found
      <3>5. Carries(p, asked) /\ Carries(p, hit)
        BY <3>2, <3>3, <3>4 DEF Carries
      <3> QED  BY <1>2, <1>4, <3>1, <3>5, Zenon
    <2>2. ASSUME NEW a, NEW h, SourceAnswers(p, a, h) PROVE Carries(q, run'[q])
      <3> DEFINE r == [run[p] EXCEPT !.pc = "answered", !.answer = a,
                                     !.hash = h]
      <3>1. Become(p, r)
        BY <2>2, Zenon DEF SourceAnswers
      <3>2. r.snapshot = run[p].snapshot /\ r.entry = run[p].entry
        BY <1>1 DEF Run
      <3> HIDE DEF r
      <3>3. Carries(p, r)
        BY <3>2 DEF Carries
      <3> QED  BY <1>2, <3>1, <3>3
    <2>3. ASSUME \/ SourceFails(p) \/ MintCursor(p)
          PROVE  Carries(q, run'[q])
      BY <1>3, <2>3, Zenon DEF SourceFails, MintCursor, Finish
    <2>4. ASSUME StorePayload(p) PROVE Carries(q, run'[q])
      <3>1. \E k : Become(p, [run[p] EXCEPT !.pc = "stored",
                                           !.snapshot = None, !.key = k])
        BY <2>4, Zenon DEF StorePayload
      <3>2. PICK r, k : /\ r = [run[p] EXCEPT !.pc = "stored",
                                             !.snapshot = None, !.key = k]
                        /\ Become(p, r)
        BY <3>1, Zenon
      <3>3. r.snapshot = None /\ r.entry = run[p].entry
        BY <1>1, <3>2 DEF Run
      <3> QED  BY <1>3, <3>2, <3>3, Zenon
    <2>5. ASSUME NEW a, RecordCall(p, a) PROVE Carries(q, run'[q])
      <3> DEFINE e == NewEntry(run[p], db'.latest)
                 r == [run[p] EXCEPT !.pc = "entry", !.entry = e]
      <3>1. Become(p, Idle) \/ Become(p, r)
        BY <2>5, Zenon DEF RecordCall, Finish
      <3>2. e.created = now
        BY DEF NewEntry
      <3> HIDE DEF e
      <3>3. r.snapshot = run[p].snapshot /\ r.entry = e
        BY <1>1 DEF Run
      <3> HIDE DEF r
      <3>4. Carries(p, r)
        BY <3>2, <3>3 DEF Carries
      <3> QED  BY <1>2, <1>3, <3>1, <3>4, Zenon
    <2>6. ASSUME NEW a, ConfirmUnchanged(p, a) PROVE Carries(q, run'[q])
      <3> DEFINE old == run[p].snapshot
                 e == [old EXCEPT !.observation = db'.latest, !.failed = FALSE]
                 r == [run[p] EXCEPT !.pc = "entry", !.snapshot = None,
                                     !.entry = e]
      <3>1. /\ run[p].pc = "answered" /\ run[p].answer = "not_modified"
            /\ Become(p, Idle) \/ Become(p, r)
        BY <2>6, Zenon DEF ConfirmUnchanged
      <3>2. old # None /\ old \in Entry
        BY <1>1, <3>1, Known, RunFields DEF CommandInv, Maybe
      <3>3. e.created = old.created
        BY <3>2 DEF Entry
      <3> HIDE DEF e
      <3>4. r.snapshot = None /\ r.entry = e
        BY <1>1 DEF Run
      <3> HIDE DEF r
      <3>5. Carries(p, r)
        BY <3>2, <3>3, <3>4 DEF Carries
      <3> QED  BY <1>2, <1>3, <3>1, <3>5, Zenon
    <2>7. ASSUME InsertEntry(p) PROVE Carries(q, run'[q])
      <3> DEFINE r == [run[p] EXCEPT !.pc = "age", !.entry = None]
      <3>1. Become(p, r)
        BY <2>7, Zenon DEF InsertEntry
      <3>2. r.snapshot = run[p].snapshot /\ r.entry = None
        BY <1>1 DEF Run
      <3> HIDE DEF r
      <3>3. Carries(p, r)
        BY <3>2 DEF Carries
      <3> QED  BY <1>2, <3>1, <3>3
    <2>8. ASSUME EnforceAge(p) \/ MarkAged(p) PROVE Carries(q, run'[q])
      <3>1. \E c, m : Become(p, [run[p] EXCEPT !.pc = c, !.marks = m])
        BY <2>8, Zenon DEF EnforceAge, MarkAged
      <3>2. PICK r, c, m : /\ r = [run[p] EXCEPT !.pc = c, !.marks = m]
                           /\ Become(p, r)
        BY <3>1, Zenon
      <3>3. r.snapshot = run[p].snapshot /\ r.entry = run[p].entry
        BY <1>1, <3>2 DEF Run
      <3>4. Carries(p, r)
        BY <3>3 DEF Carries
      <3> QED  BY <1>2, <3>2, <3>4
    <2>9. ASSUME EnforcePayloadQuota(p) \/ ReadBack(p) PROVE Carries(q, run'[q])
      <3>1. Become(p, Idle) \/ \E c : Become(p, [run[p] EXCEPT !.pc = c])
        BY <2>9, Zenon DEF EnforcePayloadQuota, ReadBack, Finish
      <3>2. ASSUME NEW c, NEW r, r = [run[p] EXCEPT !.pc = c]
            PROVE  Carries(p, r)
        <4>1. r.snapshot = run[p].snapshot /\ r.entry = run[p].entry
          BY <1>1, <3>2 DEF Run
        <4> QED  BY <4>1 DEF Carries
      <3> QED  BY <1>2, <1>3, <3>1, <3>2, Zenon
    <2> QED
      BY <1>5, <2>1, <2>2, <2>3, <2>4, <2>5, <2>6, <2>7, <2>8, <2>9, Zenon
      DEF CallStep
  <1>6. ASSUME NEW p \in Process, TaskStep(p) \/ CacheStep(p) \/ Crash(p)
        PROVE  Carries(q, run'[q])
    <2>1. \/ Become(p, Idle)
          \/ \E i : Become(p, [Idle EXCEPT !.pc = "upstream", !.task = i,
                                          !.mayCache = TRUE])
          \/ Become(p, [Idle EXCEPT !.pc = "age"])
          \/ \E m : Become(p, [Idle EXCEPT !.pc = "purged", !.marks = m])
      BY <1>6, Zenon
      DEF TaskStep, CacheStep, Crash, StartTask, RecordTask, SetRetention,
          PurgeExpired, MarkPurged, Finish
    <2>2. ASSUME NEW r, \/ \E i : r = [Idle EXCEPT !.pc = "upstream", !.task = i,
                                                !.mayCache = TRUE]
                        \/ r = [Idle EXCEPT !.pc = "age"]
                        \/ \E m : r = [Idle EXCEPT !.pc = "purged", !.marks = m]
          PROVE  r.snapshot = None /\ r.entry = None
      <3>1. ASSUME NEW i, r = [Idle EXCEPT !.pc = "upstream", !.task = i,
                                           !.mayCache = TRUE]
            PROVE  r.snapshot = None /\ r.entry = None
        BY <3>1 DEF Idle
      <3>2. CASE r = [Idle EXCEPT !.pc = "age"]
        BY <3>2 DEF Idle
      <3>3. ASSUME NEW m, r = [Idle EXCEPT !.pc = "purged", !.marks = m]
            PROVE  r.snapshot = None /\ r.entry = None
        BY <3>3 DEF Idle
      <3> QED  BY <2>2, <3>1, <3>2, <3>3, Zenon
    <2>3. Become(p, Idle) \/ \E r : /\ Become(p, r) /\ r.snapshot = None
                                   /\ r.entry \in {None, run[p].entry}
      BY <2>1, <2>2, Zenon
    <2> QED  BY <1>3, <2>3
  <1>7. ASSUME SharedStep \/ UNCHANGED vars PROVE run' = run
    BY <1>7, Zenon DEF SharedStep, PurgeSource, PurgeStore, PurgeToBudget,
                       ReadCursor, Tick, Alone, vars
  <1> QED  BY <1>4, <1>5, <1>6, <1>7, Zenon DEF Next

LEMMA InitialHistory == Init => HistoryInv
  <1> SUFFICES ASSUME Init PROVE HistoryInv  OBVIOUS
  <1>1. HistoryHolds(db)
    BY NoHistory DEF Init, EmptyStore
  <1>2. \A p \in Process : run[p].snapshot = None
    BY IdleCommand DEF Init
  <1> QED  BY <1>1, <1>2 DEF HistoryInv, SnapshotHolds

LEMMA StepKeepsHistory == IInv /\ HistoryInv /\ [Next]_vars => HistoryInv'
  <1> SUFFICES ASSUME IInv, HistoryInv, [Next]_vars PROVE HistoryInv'  OBVIOUS
  <1>1. StoreInv(db) /\ db \in Store /\ HistoryHolds(db)
    BY Zenon DEF IInv, TypeOK, HistoryInv
  <1>2. db' \in Store
    BY StepPreserves, Zenon DEF IInv, TypeOK
  <1>3. HistoryHolds(db')
    <2>1. CASE Forgets(db, db') \/ Issues(db, db')
      BY <1>1, <1>2, <2>1, ForgettingKeepsHistory DEF Forgets, Issues
    <2>2. CASE Records(db, db')
      BY <1>1, <2>2, RecordingKeepsHistory DEF Records
    <2>3. CASE db' = PurgeAll(db)
      BY <2>3, NoHistory DEF PurgeAll, EmptyStore
    <2> QED  BY <2>1, <2>2, <2>3, StepKinds
  <1>4. ASSUME NEW q \in Process PROVE SnapshotHolds(db', run'[q])
    <2>1. CASE run'[q].snapshot = None
      BY <2>1 DEF SnapshotHolds
    <2>2. ASSUME NEW e \in Entry, run'[q].snapshot = e, SnapshotHolds(db, [snapshot |-> e])
          PROVE  SnapshotHolds(db', run'[q])
      <3>1. e.observation \in Maybe(ObservationId)
        BY DEF Entry
      <3> QED
        BY <2>2, <3>1, CapturesOnlyAge, NoneAssumption DEF SnapshotHolds, Maybe
    <2>3. CASE run'[q].snapshot = run[q].snapshot /\ run[q].snapshot # None
      <3>1. run[q].snapshot \in Entry
        BY <2>3, Known, RunFields DEF Maybe
      <3>2. SnapshotHolds(db, [snapshot |-> run[q].snapshot])
        BY DEF HistoryInv, SnapshotHolds
      <3> QED  BY <2>2, <2>3, <3>1, <3>2
    <2>4. ASSUME NEW k \in Key, db.entries[k] # None,
                 run'[q].snapshot = db.entries[k]
          PROVE  SnapshotHolds(db', run'[q])
      <3>1. db.entries[k] \in Entry
        BY <1>1, <2>4, StoreFields DEF Maybe
      <3>2. EntryBacked(db, db.entries[k])
        BY <1>1, <2>4 DEF StoreInv, AllEntriesBacked
      <3>3. SnapshotHolds(db, [snapshot |-> db.entries[k]])
        BY <1>1, <3>1, <3>2
        DEF StoreInv, IdentifiersFresh, EntryBacked, Captures, SnapshotHolds,
            Entry, Maybe
      <3> QED  BY <2>2, <2>4, <3>1, <3>3
    <2> QED  BY <2>1, <2>3, <2>4, LocalSteps DEF Carries
  <1> QED  BY <1>3, <1>4 DEF HistoryInv

\* The history of the captures is sound in every reachable state: pointers
\* name the newest capture of their invocation, links the one before, and what
\* a command read before its await it can still rely on.
THEOREM HistoryInvariant == Spec => []HistoryInv
  BY InitialHistory, StepKeepsHistory, CaptureInvariant, PTL DEF Spec

\* record_observation: "the run before this one" is a chain of each
\* invocation's captures, however the captures of several processes overlap.
THEOREM ChainOfCaptures == Spec => []LineageIsAChain
  <1>1. ASSUME IInv, HistoryInv PROVE LineageIsAChain
    <2>1. /\ LinksHold(db) /\ db \in Store
      BY <1>1, Zenon DEF HistoryInv, HistoryHolds, IInv, TypeOK
    <2>2. \A o \in ObservationId : db.observations[o] # None =>
             db.observations[o].supersedes \in Maybe(ObservationId)
      BY <2>1, StoreFields DEF Maybe, Observation
    <2>3. ASSUME NEW o \in ObservationId, db.observations[o] # None,
                 db.observations[o].supersedes # None
          PROVE  LET b == db.observations[o].supersedes
                 IN  /\ b \in ObservationId /\ db.observations[b] # None
                     /\ b < o
                     /\ db.observations[b].invocation
                           = db.observations[o].invocation
      BY <2>1, <2>2, <2>3 DEF LinksHold, Maybe
    <2>4. ASSUME NEW o \in ObservationId, db.observations[o] # None,
                 NEW q \in ObservationId, db.observations[q] # None,
                 db.observations[o].invocation = db.observations[q].invocation,
                 db.observations[o].supersedes = db.observations[q].supersedes
          PROVE  ~(o < q)
      <3> SUFFICES ASSUME o < q PROVE FALSE
        OBVIOUS
      <3>1. /\ db.observations[q].supersedes # None
            /\ o <= db.observations[q].supersedes
        BY <2>1, <2>4 DEF LinksHold
      <3>2. db.observations[o].supersedes < o
        BY <2>3, <2>4, <3>1
      <3>3. db.observations[q].supersedes \in Nat
        BY <2>2, <2>4, <3>1 DEF Maybe, ObservationId
      <3> QED  BY <2>4, <3>1, <3>2, <3>3 DEF ObservationId
    <2>5. \A o, q \in ObservationId : o < q \/ q < o \/ o = q
      BY DEF ObservationId
    <2> QED  BY <2>3, <2>4, <2>5, Zenon DEF LineageIsAChain
  <1> QED  BY <1>1, CaptureInvariant, HistoryInvariant, PTL

-----------------------------------------------------------------------------
(* The store implements the evidence ledger.                               *)

\* A row of the ledger, as the ledger sees the observation c.
RowOf(c) == [hash |-> c.hash, invocation |-> c.invocation,
             supersedes |-> c.supersedes, revalidates |-> c.revalidates]

\* The ledger has a row for every observation of the store, and no others.
LEMMA LedgerRows ==
    ASSUME NEW d \in Store, NEW o \in ObservationId
    PROVE  /\ d.observations[o] = None => LedgerOf(d)[o] = None
           /\ d.observations[o] # None =>
                 /\ LedgerOf(d)[o] = RowOf(d.observations[o])
                 /\ LedgerOf(d)[o] \in Ledger!Capture
                 /\ LedgerOf(d)[o] # None
                 /\ LedgerOf(d)[o].hash = d.observations[o].hash
                 /\ LedgerOf(d)[o].invocation = d.observations[o].invocation
  <1>1. CASE d.observations[o] = None
    BY <1>1 DEF LedgerOf
  <1>2. CASE d.observations[o] # None
    <2>1. d.observations[o] \in Observation
      BY <1>2, StoreFields DEF Maybe
    <2>2. LedgerOf(d)[o] = RowOf(d.observations[o])
      BY <1>2 DEF LedgerOf, RowOf
    <2>3. RowOf(d.observations[o]) \in Ledger!Capture
      BY <2>1 DEF RowOf, Observation, Maybe, Ledger!Capture,
                  Ledger!ObservationId, ObservationId
    <2> QED  BY <1>2, <2>2, <2>3, LedgerAssumption DEF RowOf
  <1> QED  BY <1>1, <1>2

\* A transaction that records nothing leaves the ledger as it is.
LEMMA SameLedger ==
    ASSUME NEW d \in Store, NEW e \in Store, SameCaptures(d, e)
    PROVE  /\ LedgerOf(e) = LedgerOf(d)
           /\ LiveIn(e) \in SUBSET LiveIn(d)
           /\ e.observationsIssued = d.observationsIssued
  <1>1. \A o \in ObservationId : LedgerOf(e)[o] = LedgerOf(d)[o]
    BY DEF LedgerOf, SameCaptures
  <1>2. LedgerOf(e) = LedgerOf(d)
    BY <1>1 DEF LedgerOf
  <1>3. LiveIn(e) \in SUBSET LiveIn(d)
    BY DEF LiveIn, SameCaptures
  <1> QED  BY <1>2, <1>3 DEF SameCaptures

\* Tokens are revoked, or one is issued.
LEMMA PromisesForgotten ==
    ASSUME NEW d \in Store, NEW e \in Store, Forgets(d, e)
    PROVE  /\ IssuedBy(e) = IssuedBy(d)
           /\ PromiseOf(e) =
                 [t \in Token |-> IF e.cursors[t] = None THEN None
                                 ELSE PromiseOf(d)[t]]
  <1>1. \A t \in Token : e.cursors[t] # None =>
           PromiseOf(e)[t] = PromiseOf(d)[t]
    BY DEF PromiseOf, Forgets
  <1>2. \A t \in Token : e.cursors[t] = None => PromiseOf(e)[t] = None
    BY DEF PromiseOf
  <1>3. PromiseOf(e) = [t \in Token |-> PromiseOf(e)[t]]
    BY DEF PromiseOf
  <1>4. PromiseOf(e) = [t \in Token |-> IF e.cursors[t] = None THEN None
                                       ELSE PromiseOf(d)[t]]
    BY <1>1, <1>2, <1>3
  <1>5. IssuedBy(e) = IssuedBy(d)
    BY DEF IssuedBy, Forgets, SameCaptures
  <1> QED  BY <1>4, <1>5

LEMMA PromiseIssued ==
    ASSUME NEW d \in Store, NEW e, StoreInv(e), Issues(d, e)
    PROVE  LET t == d.tokensIssued + 1
               o == e.cursors[t].observation
           IN  /\ IssuedBy(e) = [IssuedBy(d) EXCEPT !.tokens = t]
               /\ PromiseOf(e) = [PromiseOf(d) EXCEPT ![t] = o]
               /\ o \in ObservationId \cup {None}
               /\ o # None => LedgerOf(e)[o] # None
  <1> DEFINE t == d.tokensIssued + 1
             o == e.cursors[t].observation
  <1>1. /\ t \in Token /\ e.tokensIssued = t /\ e.cursors[t] # None
        /\ e.observationsIssued = d.observationsIssued
        /\ \A u \in Token : u # t => e.cursors[u] = d.cursors[u]
    BY DEF Issues, SameCaptures
  <1> HIDE DEF t
  <1>2. e \in Store /\ e.cursors[t] \in Cursor
    BY <1>1, StoreFields DEF StoreInv, Maybe
  <1>3. o \in ObservationId \cup {None}
    BY <1>2 DEF Cursor, Maybe
  <1>4. o # None => e.observations[o] # None
    BY <1>1 DEF StoreInv, CursorsBound, Captures
  <1>5. o # None => LedgerOf(e)[o] # None
    BY <1>2, <1>3, <1>4, LedgerRows
  <1>6. PromiseOf(e) = [PromiseOf(d) EXCEPT ![t] = o]
    <2>1. /\ PromiseOf(e)[t] = o
          /\ \A u \in Token : u # t => PromiseOf(e)[u] = PromiseOf(d)[u]
      BY <1>1 DEF PromiseOf
    <2>2. /\ PromiseOf(e) = [u \in Token |-> PromiseOf(e)[u]]
          /\ PromiseOf(d) = [u \in Token |-> PromiseOf(d)[u]]
      BY DEF PromiseOf
    <2> QED  BY <2>1, <2>2
  <1>7. IssuedBy(e) = [IssuedBy(d) EXCEPT !.tokens = t]
    BY <1>1 DEF IssuedBy
  <1> QED  BY <1>3, <1>5, <1>6, <1>7 DEF t

\* Every bound token is honest.
LEMMA TokensHonest ==
    ASSUME NEW d, StoreInv(d), NEW time
    PROVE  /\ ViewOf(d, time) \in [Token -> Hash \cup {None}]
           /\ \A t \in Token : PromiseOf(d)[t] # None =>
                 ViewOf(d, time)[t]
                    \in {LedgerOf(d)[PromiseOf(d)[t]].hash, None}
  <1>1. d \in Store
    BY DEF StoreInv
  <1>2. \A t \in Token : Resolve(d, t, time) \in Hash \cup {None}
    BY <1>1, StoreFields DEF Resolve
  <1>3. ASSUME NEW t \in Token, PromiseOf(d)[t] # None
        PROVE  ViewOf(d, time)[t]
                  \in {LedgerOf(d)[PromiseOf(d)[t]].hash, None}
    <2> DEFINE o == d.cursors[t].observation
    <2>1. d.cursors[t] # None /\ PromiseOf(d)[t] = o /\ o # None
      BY <1>3 DEF PromiseOf
    <2>2. d.cursors[t] \in Cursor
      BY <1>1, <2>1, StoreFields DEF Maybe
    <2>3. o \in ObservationId
      BY <2>1, <2>2 DEF Cursor, Maybe
    <2>4. /\ d.observations[o] # None
          /\ d.observations[o].hash = d.cursors[t].shown
      BY <2>1 DEF StoreInv, CursorsBound, Captures
    <2>5. LedgerOf(d)[o].hash = d.cursors[t].shown
      BY <1>1, <2>3, <2>4, LedgerRows
    <2>6. Resolve(d, t, time) \in {d.cursors[t].shown, None}
      BY <2>1, BoundCursorResolves
    <2>7. ViewOf(d, time)[t] = Resolve(d, t, time)
      BY DEF ViewOf
    <2> QED  BY <2>1, <2>5, <2>6, <2>7
  <1> QED  BY <1>2, <1>3 DEF ViewOf

\* A capture is appended.
LEMMA LedgerRecords ==
    ASSUME NEW d, StoreInv(d), NEW h \in Hash, NEW a \in Availability,
           NEW i \in Invocation, NEW r \in Maybe(ObservationId),
           d.observationsIssued < MaxObservation, NEW e \in Store,
           e = RecordObservation(d, h, a, i, r)
    PROVE  LET o == d.observationsIssued + 1
               c == [hash |-> h, invocation |-> i,
                     supersedes |-> d.invocationLatest[i], revalidates |-> r]
           IN  /\ o \in ObservationId
               /\ IssuedBy(e) = [IssuedBy(d) EXCEPT !.captures = o]
               /\ c \in Ledger!Capture
               /\ LedgerOf(e) = [LedgerOf(d) EXCEPT ![o] = c]
               /\ LiveIn(e) \in {LiveIn(d), LiveIn(d) \cup {o}}
               /\ PromiseOf(e) = PromiseOf(d)
  <1> DEFINE o == d.observationsIssued + 1
             c == [hash |-> h, invocation |-> i,
                   supersedes |-> d.invocationLatest[i], revalidates |-> r]
             row == [hash |-> h, availability |-> a, invocation |-> i,
                     supersedes |-> d.invocationLatest[i], revalidates |-> r]
  <1>1. d \in Store
    BY DEF StoreInv
  <1>2. Recorded(d, e, h, a, i, r)
    BY <1>1, RecordingAdds
  <1>3. /\ o \in ObservationId /\ e.observations[o] = row
        /\ \A q \in ObservationId :
              q # o => e.observations[q] = d.observations[q]
        /\ e.observationsIssued = o /\ e.cursors = d.cursors
        /\ e.tokensIssued = d.tokensIssued
    BY <1>2 DEF Recorded
  <1>4. row \in Observation /\ row # None
    <2>1. row \in Observation
      BY <1>1, StoreFields DEF Observation
    <2> QED  BY <2>1, NoneAssumption
  <1>5. RowOf(row) = c
    BY DEF RowOf
  <1>6. d.observations[o] = None
    <2>1. d.observationsIssued \in Nat
      BY <1>1, StoreFields
    <2> QED  BY <1>3, <2>1 DEF StoreInv, IdentifiersFresh
  <1> HIDE DEF o, c, row
  <1>7. LedgerOf(e)[o] = c /\ c \in Ledger!Capture
    BY <1>3, <1>4, <1>5, LedgerRows
  <1>8. LedgerOf(e) = [LedgerOf(d) EXCEPT ![o] = c]
    <2>1. \A q \in ObservationId :
             q # o => LedgerOf(e)[q] = LedgerOf(d)[q]
      BY <1>3 DEF LedgerOf
    <2>2. /\ LedgerOf(e) = [q \in ObservationId |-> LedgerOf(e)[q]]
          /\ LedgerOf(d) = [q \in ObservationId |-> LedgerOf(d)[q]]
      BY Zenon DEF LedgerOf
    <2> QED  BY <1>7, <2>1, <2>2
  <1>9. LiveIn(e) \in {LiveIn(d), LiveIn(d) \cup {o}}
    <2>1. \A q \in ObservationId : q # o => (q \in LiveIn(e) <=> q \in LiveIn(d))
      BY <1>3 DEF LiveIn
    <2>2. o \notin LiveIn(d)
      BY <1>6 DEF LiveIn
    <2>3. LiveIn(e) \in SUBSET ObservationId /\ LiveIn(d) \in SUBSET ObservationId
      BY DEF LiveIn
    <2> QED  BY <2>1, <2>2, <2>3
  <1>10. PromiseOf(e) = PromiseOf(d)
    BY <1>3 DEF PromiseOf
  <1>11. IssuedBy(e) = [IssuedBy(d) EXCEPT !.captures = o]
    BY <1>3 DEF IssuedBy
  <1> QED  BY <1>3, <1>7, <1>8, <1>9, <1>10, <1>11 DEF o, c

\* The ledger's previous capture of an invocation is the one its pointer names.
LEMMA PreviousIsLatest ==
    ASSUME IInv, HistoryInv, NEW i \in Invocation
    PROVE  Ledger!Previous(i) = db.invocationLatest[i]
  <1> DEFINE earlier == {o \in ObservationId :
                           /\ LedgerOf(db)[o] # None
                           /\ LedgerOf(db)[o].invocation = i}
             last == db.invocationLatest[i]
  <1>1. db \in Store /\ PointersHold(db)
    BY Zenon DEF IInv, TypeOK, HistoryInv, HistoryHolds
  <1>2. /\ Ledger!ObservationId = ObservationId
        /\ Ledger!Previous(i) =
              IF earlier = {} THEN None
              ELSE CHOOSE o \in earlier : \A q \in earlier : q <= o
    BY DEF Ledger!Previous, Ledger!ObservationId, ObservationId
  <1>3. earlier = {o \in ObservationId : /\ db.observations[o] # None
                                        /\ db.observations[o].invocation = i}
    BY <1>1, LedgerRows
  <1>4. last \in Maybe(ObservationId)
    BY <1>1, StoreFields
  <1>5. last # None => last \in earlier
    BY <1>1, <1>3, <1>4 DEF PointersHold, Maybe
  <1>6. \A o \in earlier : last # None /\ o <= last
    BY <1>1, <1>3 DEF PointersHold
  <1>7. earlier \in SUBSET Nat
    BY DEF ObservationId
  <1> HIDE DEF earlier, last
  <1>8. CASE last = None
    <2>1. earlier = {}
      BY <1>6, <1>8
    <2> QED  BY <1>2, <1>8, <2>1 DEF last
  <1>9. CASE last # None
    <2>1. earlier # {}
      BY <1>5, <1>9
    <2>2. ASSUME NEW o \in earlier, \A q \in earlier : q <= o PROVE o = last
      <3>1. last <= o /\ o <= last
        BY <1>5, <1>6, <1>9, <2>2
      <3>2. o \in Nat /\ last \in Nat
        BY <1>5, <1>7, <1>9
      <3> QED  BY <3>1, <3>2
    <2>3. last \in earlier /\ \A q \in earlier : q <= last
      BY <1>5, <1>6, <1>9
    <2>4. (CHOOSE o \in earlier : \A q \in earlier : q <= o) = last
      BY <2>2, <2>3
    <2> QED  BY <1>2, <2>1, <2>4, Zenon DEF last
  <1> QED  BY <1>8, <1>9

LEMMA LedgerBegins == Init => Ledger!Init
  <1> SUFFICES ASSUME Init PROVE Ledger!Init  OBVIOUS
  <1>1. /\ db = EmptyStore
        /\ \A o \in ObservationId : db.observations[o] = None
        /\ \A t \in Token : db.cursors[t] = None
        /\ db.observationsIssued = 0 /\ db.tokensIssued = 0
    BY DEF Init, EmptyStore
  <1>2. \A t \in Token : Resolve(db, t, now) = None
    BY <1>1 DEF Resolve, Unexpired
  <1> QED
    BY <1>1, <1>2
    DEF Ledger!Init, Ledger!ObservationId, Ledger!Token, LedgerOf, LiveIn,
        PromiseOf, ViewOf, IssuedBy, ObservationId, Token

\* Every step is a step of the ledger, or none.
LEMMA LedgerSteps ==
    ASSUME IInv, HistoryInv, IInv', [Next]_vars
    PROVE  Ledger!Next
  <1>1. /\ StoreInv(db) /\ db \in Store /\ StoreInv(db') /\ db' \in Store
    BY Zenon DEF IInv, TypeOK
  <1>2. /\ Ledger!ObservationId = ObservationId /\ Ledger!Token = Token
    BY DEF Ledger!ObservationId, Ledger!Token, ObservationId, Token
  <1>3. /\ ViewOf(db, now)' \in [Token -> Hash \cup {None}]
        /\ Ledger!Honest'
    <2>1. /\ ViewOf(db', now') \in [Token -> Hash \cup {None}]
          /\ \A t \in Token : PromiseOf(db')[t] # None =>
                ViewOf(db', now')[t]
                   \in {LedgerOf(db')[PromiseOf(db')[t]].hash, None}
      BY <1>1, TokensHonest
    <2> QED  BY <1>2, <2>1 DEF Ledger!Honest
  <1>4. CASE Forgets(db, db')
    <2> DEFINE T == {t \in Token : db'.cursors[t] = None}
    <2>1. Ledger!Forget(T)
      <3>1. /\ LedgerOf(db') = LedgerOf(db)
            /\ LiveIn(db') \in SUBSET LiveIn(db)
            /\ IssuedBy(db') = IssuedBy(db)
            /\ PromiseOf(db') = [t \in Token |-> IF db'.cursors[t] = None
                                 THEN None ELSE PromiseOf(db)[t]]
        BY <1>1, <1>4, SameLedger, PromisesForgotten DEF Forgets
      <3>2. PromiseOf(db') = [t \in Token |-> IF t \in T THEN None
                                             ELSE PromiseOf(db)[t]]
        BY <3>1
      <3> QED  BY <1>2, <3>1, <3>2 DEF Ledger!Forget
    <2>2. T \in SUBSET Ledger!Token
      BY <1>2
    <2> HIDE DEF T
    <2> QED  BY <1>2, <1>3, <2>1, <2>2, Zenon DEF Ledger!Next
  <1>5. CASE Issues(db, db')
    <2> DEFINE o == db'.cursors[db.tokensIssued + 1].observation
               t == db.tokensIssued + 1
    <2>1. /\ LedgerOf(db') = LedgerOf(db)
          /\ LiveIn(db') \in SUBSET LiveIn(db)
          /\ IssuedBy(db') = [IssuedBy(db) EXCEPT !.tokens = t]
          /\ PromiseOf(db') = [PromiseOf(db) EXCEPT ![t] = o]
          /\ o \in ObservationId \cup {None}
          /\ o # None => LedgerOf(db')[o] # None
          /\ t \in Token
      BY <1>1, <1>5, SameLedger, PromiseIssued DEF Issues
    <2>2. IssuedBy(db).tokens + 1 = t
      BY DEF IssuedBy
    <2> HIDE DEF o, t
    <2>3. Ledger!Issue(o)
      BY <1>2, <2>1, <2>2 DEF Ledger!Issue
    <2> QED  BY <1>2, <1>3, <2>1, <2>3, Zenon DEF Ledger!Next
  <1>6. CASE Records(db, db')
    <2>1. PICK h \in Hash, a \in Availability, i \in Invocation,
               r \in Maybe(ObservationId) :
                  /\ db.observationsIssued < MaxObservation
                  /\ r # None => /\ db.observations[r] # None
                                 /\ db.observations[r].hash = h
                  /\ db' = RecordObservation(db, h, a, i, r)
      BY <1>6, Zenon DEF Records
    <2> DEFINE o == db.observationsIssued + 1
               c == [hash |-> h, invocation |-> i,
                     supersedes |-> db.invocationLatest[i],
                     revalidates |-> r]
    <2>2. /\ o \in ObservationId
          /\ IssuedBy(db') = [IssuedBy(db) EXCEPT !.captures = o]
          /\ c \in Ledger!Capture
          /\ LedgerOf(db') = [LedgerOf(db) EXCEPT ![o] = c]
          /\ LiveIn(db') \in {LiveIn(db), LiveIn(db) \cup {o}}
          /\ PromiseOf(db') = PromiseOf(db)
      BY <1>1, <2>1, LedgerRecords
    <2>3. /\ c.supersedes = Ledger!Previous(c.invocation)
          /\ c.revalidates = r /\ c.hash = h
      BY PreviousIsLatest
    <2>4. r # None => LedgerOf(db)[r] # None /\ LedgerOf(db)[r].hash = h
      BY <1>1, <2>1, LedgerRows DEF Maybe
    <2>5. IssuedBy(db).captures + 1 = o
      BY DEF IssuedBy
    <2> HIDE DEF o, c
    <2>6. Ledger!Record
      BY <1>2, <2>2, <2>3, <2>4, <2>5 DEF Ledger!Record
    <2> QED  BY <1>3, <1>2, <2>6, Zenon DEF Ledger!Next
  <1>7. CASE db' = PurgeAll(db)
    <2>1. /\ \A o \in ObservationId : db'.observations[o] = None
          /\ \A t \in Token : db'.cursors[t] = None
          /\ IssuedBy(db') = IssuedBy(db)
      BY <1>7 DEF PurgeAll, EmptyStore, IssuedBy
    <2>2. Ledger!Erase
      BY <1>2, <2>1 DEF Ledger!Erase, LedgerOf, LiveIn, PromiseOf
    <2> QED  BY <1>3, <1>2, <2>2, Zenon DEF Ledger!Next
  <1> QED  BY <1>4, <1>5, <1>6, <1>7, StepKinds

\* The store, with any number of processes that capture, confirm, purge,
\* evict and crash, implements the evidence ledger: captures are append-only
\* and linked, lost evidence stays lost, revoked tokens stay revoked, and a
\* bound token never reads anything but its capture.
THEOREM LedgerIsKept == Spec => KeepsTheLedger
  <1>1. IInv /\ HistoryInv /\ IInv' /\ [Next]_vars => [Ledger!Next]_(Ledger!vars)
    BY LedgerSteps
  <1> QED
    BY <1>1, LedgerBegins, CaptureInvariant, HistoryInvariant, PTL
    DEF Spec, KeepsTheLedger, Ledger!Spec

-----------------------------------------------------------------------------
(* The payload quota.                                                      *)

\* One blob is added, or one entry: the rest only sheds.
LEMMA StepSheds ==
    ASSUME IInv, [Next]_vars
    PROVE  \/ Sheds(db, db')
           \/ \E h : db' = PutPayload(db, h)
           \/ \E p \in Process : InsertEntry(p)
  <1>0. db \in Store
    BY Zenon DEF IInv, TypeOK
  <1>00. StoreInv(db)
    BY Zenon DEF IInv
  <1>1. ASSUME NEW p \in Process, CallStep(p)
        PROVE  \/ Sheds(db, db') \/ InsertEntry(p)
               \/ \E h : db' = PutPayload(db, h)
    <2>1. ASSUME MintCursor(p) PROVE Sheds(db, db')
      <3>1. db'.payloads = db.payloads /\ db'.entries = db.entries
        BY <1>00, <2>1, Shown, CreateCursorKeeps
      <3> QED  BY <3>1 DEF Sheds
    <2>2. \/ db' = db
          \/ \E k, time : db' = LookUpEntry(db, k, time)
          \/ \E h : db' = PutPayload(db, h)
          \/ \E h, a, i : db' = RecordCapture(db, h, a, i)
          \/ \E h, a, i, o : db' = RecordObservation(db, h, a, i, o)
          \/ InsertEntry(p) \/ MintCursor(p)
          \/ \E keys : db' = PurgeEntries(db, keys, {})
          \/ \E ids : db' = MarkExpired(db, ids)
          \/ \E m : db' = EnforceQuota(db, m)
      BY <1>1, Zenon
      DEF CallStep, StartCall, SourceAnswers, SourceFails, StorePayload,
          RecordCall, ConfirmUnchanged, EnforceAge, MarkAged,
          EnforcePayloadQuota, ReadBack
    <2> QED  BY <1>0, <2>1, <2>2, WritesShed, PurgesShed
  <1>2. ASSUME NEW p \in Process, TaskStep(p) \/ CacheStep(p) \/ Crash(p)
        PROVE  Sheds(db, db')
    <2>1. \/ db' = db
          \/ \E h, a, i : db' = RecordObservation(db, h, a, i, None)
          \/ \E b : db' = SetBudget(db, b)
          \/ \E keys : db' = PurgeEntries(db, keys, {})
          \/ \E ids : db' = MarkExpired(db, ids)
      BY <1>2, Zenon
      DEF TaskStep, CacheStep, StartTask, RecordTask, SetRetention,
          PurgeExpired, MarkPurged, Crash
    <2> QED  BY <1>0, <2>1, WritesShed, PurgesShed
  <1>3. ASSUME SharedStep \/ UNCHANGED vars PROVE Sheds(db, db')
    <2>1. \/ \E keys, sources : db' = PurgeEntries(db, keys, sources)
          \/ db' = PurgeAll(db)
          \/ \E m : db' = EnforceQuota(db, m)
          \/ \E k, time : db' = LookUpEntry(db, k, time)
          \/ \E t, time : db' = LookUpCursor(db, t, time)
          \/ db' = db
      BY <1>3, Zenon DEF SharedStep, PurgeSource, PurgeStore, PurgeToBudget,
                         ReadCursor, Tick, vars
    <2> QED  BY <1>0, <2>1, WritesShed, PurgesShed
  <1> QED  BY <1>1, <1>2, <1>3, Zenon DEF Next

\* Only a process that has the database open, or opens it, writes to it.
LEMMA WritersHold ==
    ASSUME IInv, NEW p \in Process,
           CallStep(p) \/ TaskStep(p) \/ CacheStep(p) \/ Crash(p)
    PROVE  /\ db' = db \/ handle \in {None, p}
           /\ \A q \in Process \ {p} : run'[q] = run[q]
  <1>1. db' = db \/ handle = None \/ handle = p
    BY Zenon
    DEF CallStep, StartCall, SourceAnswers, SourceFails, StorePayload,
        RecordCall, ConfirmUnchanged, InsertEntry, EnforceAge, MarkAged,
        EnforcePayloadQuota, ReadBack, MintCursor, TaskStep, StartTask,
        RecordTask, CacheStep, SetRetention, PurgeExpired, MarkPurged, Crash,
        Acquire, Holds
  <1>2. run' = run \/ \E r : run' = [run EXCEPT ![p] = r]
    BY Zenon
    DEF CallStep, StartCall, SourceAnswers, SourceFails, StorePayload,
        RecordCall, ConfirmUnchanged, InsertEntry, EnforceAge, MarkAged,
        EnforcePayloadQuota, ReadBack, MintCursor, TaskStep, StartTask,
        RecordTask, CacheStep, SetRetention, PurgeExpired, MarkPurged, Crash,
        Finish, Become
  <1>3. run \in [Process -> Run]
    BY Zenon DEF IInv, TypeOK
  <1> QED  BY <1>1, <1>2, <1>3

\* A capture whose row survived enforcement.
Retained(r) == r.pc \in {"retained", "mint"} /\ r.answer # None

\* A capture is retained by the quota enforcement of its own process; from
\* then on until it is over no other process touches the store.
LEMMA RetainedSteps ==
    ASSUME IInv, [Next]_vars, NEW q \in Process, Retained(run'[q])
    PROVE  \/ EnforcePayloadQuota(q)
           \/ /\ Retained(run[q])
              /\ db'.payloads = db.payloads /\ db'.budget = db.budget
  <1>1. /\ run \in [Process -> Run] /\ run[q] \in Run /\ db \in Store
        /\ None # q
        /\ \A p \in Process : handle = p <=> run[p].pc \in Holding
    BY FreeAssumption DEF IInv, TypeOK, Holds
  <1>2. ASSUME NEW k, NEW time
        PROVE  /\ LookUpEntry(db, k, time).payloads = db.payloads
               /\ LookUpEntry(db, k, time).budget = db.budget
    <2>1. \A ids : /\ MarkExpired(db, ids).payloads = db.payloads
                   /\ MarkExpired(db, ids).budget = db.budget
      BY <1>1 DEF MarkExpired, Store
    <2> QED  BY <2>1, Zenon DEF LookUpEntry
  <1>3. Retained(run[q]) => handle = q
    BY <1>1 DEF Retained, Holding
  <1>4. Idle.answer = None
    BY DEF Idle
  <1>5. ASSUME Become(q, Idle) PROVE FALSE
    BY <1>1, <1>4, <1>5 DEF Become, Retained
  <1>6. ASSUME CallStep(q)
        PROVE  \/ EnforcePayloadQuota(q)
               \/ /\ Retained(run[q])
                  /\ db'.payloads = db.payloads /\ db'.budget = db.budget
    <2>0. ASSUME NEW r, Become(q, r) PROVE run'[q] = r
      BY <1>1, <2>0 DEF Become
    <2>1. ASSUME NEW c, NEW refresh, NEW mayCache,
                 StartCall(q, c, refresh, mayCache)
          PROVE  FALSE
      <3> DEFINE found == IF mayCache THEN EntryAt(db, c, now) ELSE None
                 fresh == [Idle EXCEPT !.call = c, !.refresh = refresh,
                                       !.mayCache = mayCache, !.key = c]
                 asked == [fresh EXCEPT !.pc = "upstream", !.snapshot = found]
                 hit == [fresh EXCEPT !.pc = "mint", !.hash = found.hash]
      <3>1. \/ Become(q, asked) \/ Become(q, hit)
            \/ run' = run /\ run[q].pc = "idle"
        BY <2>1, Zenon DEF StartCall
      <3>2. asked.answer = None /\ hit.answer = None
        BY DEF Idle
      <3> HIDE DEF asked, hit
      <3> QED  BY <2>0, <3>1, <3>2 DEF Retained
    <2>2. ASSUME NEW a, NEW h, SourceAnswers(q, a, h) PROVE FALSE
      <3> DEFINE r == [run[q] EXCEPT !.pc = "answered", !.answer = a,
                                     !.hash = h]
      <3>1. Become(q, r)
        BY <2>2, Zenon DEF SourceAnswers
      <3>2. r.pc = "answered"
        BY <1>1 DEF Run
      <3> HIDE DEF r
      <3> QED  BY <2>0, <3>1, <3>2 DEF Retained
    <2>3. ASSUME SourceFails(q) \/ MintCursor(q) PROVE FALSE
      BY <1>5, <2>3, Zenon DEF SourceFails, MintCursor, Finish
    <2>4. ASSUME StorePayload(q) PROVE FALSE
      <3>1. \E k : Become(q, [run[q] EXCEPT !.pc = "stored",
                                           !.snapshot = None, !.key = k])
        BY <2>4, Zenon DEF StorePayload
      <3>2. PICK r, k : /\ r = [run[q] EXCEPT !.pc = "stored",
                                             !.snapshot = None, !.key = k]
                        /\ Become(q, r)
        BY <3>1, Zenon
      <3>3. r.pc = "stored"
        BY <1>1, <3>2 DEF Run
      <3> QED  BY <2>0, <3>2, <3>3 DEF Retained
    <2>5. ASSUME NEW a, RecordCall(q, a) \/ ConfirmUnchanged(q, a) PROVE FALSE
      <3>1. \/ Become(q, Idle)
            \/ \E e : Become(q, [run[q] EXCEPT !.pc = "entry", !.entry = e])
            \/ \E e : Become(q, [run[q] EXCEPT !.pc = "entry",
                                              !.snapshot = None, !.entry = e])
        BY <2>5, Zenon DEF RecordCall, ConfirmUnchanged, Finish
      <3>2. ASSUME NEW r, NEW e,
                   \/ r = [run[q] EXCEPT !.pc = "entry", !.entry = e]
                   \/ r = [run[q] EXCEPT !.pc = "entry", !.snapshot = None,
                                         !.entry = e]
            PROVE  r.pc = "entry"
        BY <1>1, <3>2 DEF Run
      <3>3. \E r : Become(q, r) /\ r.pc = "entry"
        BY <1>5, <3>1, <3>2, Zenon
      <3> QED  BY <2>0, <3>3 DEF Retained
    <2>6. ASSUME InsertEntry(q) PROVE FALSE
      <3> DEFINE r == [run[q] EXCEPT !.pc = "age", !.entry = None]
      <3>1. Become(q, r)
        BY <2>6, Zenon DEF InsertEntry
      <3>2. r.pc = "age"
        BY <1>1 DEF Run
      <3> HIDE DEF r
      <3> QED  BY <2>0, <3>1, <3>2 DEF Retained
    <2>7. ASSUME EnforceAge(q) \/ MarkAged(q) PROVE FALSE
      <3> DEFINE aged == IF db.budget.maxAge = None THEN {}
                         ELSE AgedKeys(db, now, db.budget.maxAge)
                 after == IF aged = {} THEN "quota" ELSE "mark"
      <3>1. \E m : \/ Become(q, [run[q] EXCEPT !.pc = after, !.marks = m])
                  \/ Become(q, [run[q] EXCEPT !.pc = "quota", !.marks = m])
        BY <2>7, Zenon DEF EnforceAge, MarkAged
      <3>2. after \in {"quota", "mark"}
        OBVIOUS
      <3> HIDE DEF after
      <3>3. PICK r, c, m : /\ r = [run[q] EXCEPT !.pc = c, !.marks = m]
                           /\ c \in {"quota", after} /\ Become(q, r)
        BY <3>1
      <3>4. r.pc = c
        BY <1>1, <3>3 DEF Run
      <3> QED  BY <2>0, <3>2, <3>3, <3>4 DEF Retained
    <2>8. ASSUME ReadBack(q)
          PROVE  /\ Retained(run[q])
                 /\ db'.payloads = db.payloads /\ db'.budget = db.budget
      <3> DEFINE r == [run[q] EXCEPT !.pc = "mint"]
      <3>1. /\ run[q].pc = "retained" /\ Become(q, r)
            /\ db' = LookUpEntry(db, run[q].key, now)
        BY <1>5, <2>8, Zenon DEF ReadBack, Finish
      <3>2. r.answer = run[q].answer
        BY <1>1 DEF Run
      <3> HIDE DEF r
      <3> QED  BY <1>2, <2>0, <3>1, <3>2 DEF Retained
    <2> QED
      BY <1>6, <2>1, <2>2, <2>3, <2>4, <2>5, <2>6, <2>7, <2>8, Zenon
      DEF CallStep
  <1>7. ASSUME TaskStep(q) \/ CacheStep(q) \/ Crash(q) PROVE FALSE
    <2>1. PICK r : /\ Become(q, r)
                   /\ \/ r = Idle
                      \/ \E i : r = [Idle EXCEPT !.pc = "upstream", !.task = i,
                                                !.mayCache = TRUE]
                      \/ r = [Idle EXCEPT !.pc = "age"]
                      \/ \E m : r = [Idle EXCEPT !.pc = "purged", !.marks = m]
      BY <1>7, Zenon
      DEF TaskStep, CacheStep, Crash, StartTask, RecordTask, SetRetention,
          PurgeExpired, MarkPurged, Finish
    <2>2. ASSUME NEW i, r = [Idle EXCEPT !.pc = "upstream", !.task = i,
                                         !.mayCache = TRUE]
          PROVE  r.answer = None
      BY <2>2 DEF Idle
    <2>3. CASE r = [Idle EXCEPT !.pc = "age"]
      BY <1>1, <2>1, <2>3 DEF Become, Retained, Idle
    <2>4. ASSUME NEW m, r = [Idle EXCEPT !.pc = "purged", !.marks = m]
          PROVE  r.answer = None
      BY <2>4 DEF Idle
    <2>5. r.answer = None
      BY <1>4, <2>1, <2>2, <2>3, <2>4, Zenon
    <2> QED  BY <1>1, <2>1, <2>5 DEF Become, Retained
  <1>8. ASSUME NEW p \in Process \ {q},
               CallStep(p) \/ TaskStep(p) \/ CacheStep(p) \/ Crash(p)
        PROVE  Retained(run[q]) /\ db' = db
    BY <1>1, <1>3, <1>8, WritersHold
  <1>9. ASSUME SharedStep \/ UNCHANGED vars
        PROVE  Retained(run[q]) /\ db' = db
    <2>1. run' = run /\ (db' = db \/ handle = None)
      BY <1>9, Zenon
      DEF SharedStep, PurgeSource, PurgeStore, PurgeToBudget, ReadCursor,
          Tick, Alone, vars
    <2> QED  BY <1>1, <1>3, <2>1
  <1> QED  BY <1>6, <1>7, <1>8, <1>9, Zenon DEF Next

LEMMA InitialQuota == Init => QuotaInv
  <1> SUFFICES ASSUME Init PROVE QuotaInv  OBVIOUS
  <1>1. IsFiniteSet(db.payloads)
    BY FS_EmptySet DEF Init, EmptyStore
  <1>2. CreatedBy(db, now)
    BY DEF Init, EmptyStore, CreatedBy
  <1>3. \A p \in Process : /\ run[p].snapshot = None /\ run[p].entry = None
                           /\ run[p].answer = None
    BY DEF Init, Idle
  <1> QED  BY <1>1, <1>2, <1>3 DEF QuotaInv, KeptWithinQuota

LEMMA StepKeepsQuota == IInv /\ QuotaInv /\ [Next]_vars => QuotaInv'
  <1> SUFFICES ASSUME IInv, QuotaInv, [Next]_vars PROVE QuotaInv'  OBVIOUS
  <1>1. /\ db \in Store /\ now \in Nat /\ run \in [Process -> Run]
        /\ IsFiniteSet(db.payloads) /\ CreatedBy(db, now)
    BY DEF IInv, TypeOK, QuotaInv, Time
  <1>2. db' \in Store
    BY StepPreserves, Zenon DEF IInv, TypeOK
  <1>3. now' \in Nat /\ now <= now'
    <2>1. ASSUME SharedStep \/ UNCHANGED vars
          PROVE  now' = now \/ now' = now + 1
      BY <2>1, Zenon
      DEF SharedStep, PurgeSource, PurgeStore, PurgeToBudget, ReadCursor,
          Tick, Alone, vars
    <2>2. ASSUME NEW p \in Process, CallStep(p) PROVE now' = now
      BY <2>2, Zenon
      DEF CallStep, StartCall, SourceAnswers, SourceFails, StorePayload,
          RecordCall, ConfirmUnchanged, InsertEntry, EnforceAge, MarkAged,
          EnforcePayloadQuota, ReadBack, MintCursor
    <2>3. ASSUME NEW p \in Process, TaskStep(p) \/ CacheStep(p) \/ Crash(p)
          PROVE  now' = now
      BY <2>3, Zenon
      DEF TaskStep, StartTask, RecordTask, CacheStep, SetRetention,
          PurgeExpired, MarkPurged, Crash
    <2>4. now' = now \/ now' = now + 1
      BY <2>1, <2>2, <2>3, Zenon DEF Next
    <2> QED  BY <1>1, <2>4
  <1>4. ASSUME NEW e \in Entry, e.created <= now PROVE e.created <= now'
    BY <1>1, <1>3, <1>4 DEF Entry
  <1>5. IsFiniteSet(db'.payloads) /\ CreatedBy(db', now')
    <2>1. CASE Sheds(db, db')
      <3>1. IsFiniteSet(db'.payloads)
        BY <1>1, <2>1, FS_Subset DEF Sheds
      <3>2. ASSUME NEW k \in Key, db'.entries[k] # None
            PROVE  db'.entries[k].created <= now'
        BY <1>1, <1>4, <2>1, <3>2, StoreFields DEF Sheds, CreatedBy, Maybe
      <3> QED  BY <3>1, <3>2 DEF CreatedBy
    <2>2. ASSUME NEW h, db' = PutPayload(db, h)
          PROVE  IsFiniteSet(db'.payloads) /\ CreatedBy(db', now')
      <3>1. db'.payloads = db.payloads \cup {h} /\ db'.entries = db.entries
        BY <1>1, <2>2 DEF PutPayload, Store
      <3>2. IsFiniteSet(db'.payloads)
        BY <1>1, <3>1, FS_AddElement
      <3>3. CreatedBy(db', now')
        BY <1>1, <1>4, <3>1, StoreFields DEF CreatedBy, Maybe
      <3> QED  BY <3>2, <3>3
    <2>3. ASSUME NEW p \in Process, InsertEntry(p)
          PROVE  IsFiniteSet(db'.payloads) /\ CreatedBy(db', now')
      <3> DEFINE r == run[p]
      <3>1. r.pc = "entry" /\ db' = PutEntryRow(db, r.key, r.entry)
        BY <2>3, Zenon DEF InsertEntry
      <3>2. /\ r \in Run /\ CommandInv(db, r)
            /\ r.entry # None => r.entry.created <= now
        BY Known, Zenon DEF QuotaInv
      <3>3. r.entry \in Entry /\ r.entry.created <= now /\ r.key \in Key
        BY <3>1, <3>2, RunFields DEF CommandInv, Maybe
      <3> HIDE DEF r
      <3>4. /\ db'.payloads = db.payloads
            /\ \A k \in Key : db'.entries[k] \in {db.entries[k], r.entry}
        BY <1>1, <3>1, <3>3 DEF PutEntryRow, Store
      <3>5. CreatedBy(db', now')
        BY <1>1, <1>4, <3>3, <3>4, StoreFields DEF CreatedBy, Maybe
      <3> QED  BY <1>1, <3>4, <3>5
    <2> QED  BY <2>1, <2>2, <2>3, StepSheds
  <1>6. ASSUME NEW q \in Process
        PROVE  /\ run'[q].snapshot # None => run'[q].snapshot.created <= now'
               /\ run'[q].entry # None => run'[q].entry.created <= now'
    <2>1. /\ Carries(q, run'[q]) /\ run[q] \in Run
          /\ run[q].snapshot # None => run[q].snapshot.created <= now
          /\ run[q].entry # None => run[q].entry.created <= now
      BY <1>1, LocalSteps, Zenon DEF QuotaInv
    <2>2. /\ run[q].snapshot \in Maybe(Entry) /\ run[q].entry \in Maybe(Entry)
      BY <2>1, RunFields
    <2>3. \A k \in Key : db.entries[k] # None =>
             db.entries[k].created <= now'
      BY <1>1, <1>4, StoreFields DEF CreatedBy, Maybe
    <2>4. run[q].snapshot # None => run[q].snapshot.created <= now'
      BY <1>4, <2>1, <2>2 DEF Maybe
    <2>5. run[q].entry # None => run[q].entry.created <= now'
      BY <1>4, <2>1, <2>2 DEF Maybe
    <2> QED  BY <1>3, <2>1, <2>3, <2>4, <2>5 DEF Carries
  <1>7. KeptWithinQuota'
    <2> SUFFICES ASSUME NEW q \in Process, Retained(run'[q]),
                        db'.budget.maxBytes # None
                 PROVE  Bytes(db'.payloads) <= db'.budget.maxBytes
      BY DEF KeptWithinQuota, Retained
    <2>1. CASE EnforcePayloadQuota(q)
      <3> DEFINE m == db.budget.maxBytes
      <3>1. db' = IF m = None THEN db ELSE EnforceQuota(db, m)
        BY <2>1, Zenon DEF EnforcePayloadQuota
      <3>2. db'.budget = db.budget
        <4>1. \A x : EnforceQuota(db, x).budget = db.budget
          BY <1>1 DEF EnforceQuota, Store
        <4> QED  BY <3>1, <4>1
      <3>3. m \in Nat /\ db' = EnforceQuota(db, m)
        BY <1>1, <3>1, <3>2, StoreFields DEF Budget, Maybe
      <3> HIDE DEF m
      <3>4. Bytes(db'.payloads) <= m
        BY <1>1, <3>3, QuotaEnforced
      <3> QED  BY <3>2, <3>4 DEF m
    <2>2. CASE /\ Retained(run[q])
               /\ db'.payloads = db.payloads /\ db'.budget = db.budget
      BY <2>2 DEF QuotaInv, KeptWithinQuota, Retained
    <2> QED  BY <2>1, <2>2, RetainedSteps
  <1> QED  BY <1>5, <1>6, <1>7 DEF QuotaInv

\* Everything the quota rests on holds in every reachable state, whatever the
\* policies, sizes and clocks.
THEOREM QuotaInvariant == Spec => []QuotaInv
  BY InitialQuota, StepKeepsQuota, CaptureInvariant, PTL DEF Spec

\* enforce_storage_budget: a capture that is reported as kept leaves no more
\* bytes in the store than the policy allows, also when there are blobs that
\* no entry refers to.
THEOREM KeptCapturesFit == Spec => []KeptWithinQuota
  BY QuotaInvariant, PTL DEF QuotaInv
=============================================================================
