-------------------------- MODULE CaptureProcesses --------------------------
(***************************************************************************)
(* Several prog processes that share one evidence store.  A process runs   *)
(* one command after another.  The database admits one process at a time:  *)
(* a command holds the handle from its first store operation until it      *)
(* releases it, and it releases it while it waits for an upstream source,  *)
(* so that is where the other processes get in.  A process may crash       *)
(* between any two transactions; what it committed stays.                  *)
(*                                                                         *)
(* Modelled: `prog call` (hit, miss, refresh, 304, failed refresh, no      *)
(* cache), `prog mcp-task`, cursor reads, the cache purges and the         *)
(* retention policy, each transaction by transaction.                      *)
(***************************************************************************)
EXTENDS StoreTables

CONSTANTS
    Process,    \* prog processes
    Call,       \* source-call identities: ordinary cache keys
    Task,       \* invocation fingerprints of MCP task operations
    SourceOf,   \* SourceOf[c]: the source a call reads
    ErrorKey,   \* ErrorKey[c][t]: the key of a refresh of c that failed at t
    Replies,    \* the kinds of answer sources give
    Captured,   \* availabilities a kept capture is recorded with
    CacheModes, \* whether a call may cache: TRUE, FALSE (--no-cache) or both
    Policies,   \* retention policies a user may set
    TTL,        \* seconds an entry and its cursor live
    MaxTime     \* bound on the clock

ASSUME CallAssumption == Call \subseteq Key /\ Call \subseteq Invocation
ASSUME TaskAssumption == Task \subseteq Invocation
ASSUME SourceAssumption == SourceOf \in [Call -> Source]
ASSUME TimeAssumption == TTL \in Nat /\ MaxTime \in Nat \ {0}
Time == 1 .. MaxTime
ASSUME ErrorKeyAssumption == ErrorKey \in [Call -> [Time -> Key]]
Answers == {"body", "error", "not_modified"}
ASSUME RepliesAssumption == Replies \subseteq Answers
ASSUME CapturedAssumption == Captured \subseteq Live
ASSUME CacheModesAssumption == CacheModes \subseteq BOOLEAN
ASSUME PolicyAssumption == Policies \subseteq Budget
ASSUME FreeAssumption == None \notin Process

VARIABLES
    db,        \* the store, as last committed
    now,       \* the wall clock
    handle,    \* the process that has the database open, None if none has
    run        \* run[p]: the command p is executing and its locals

vars == <<db, now, handle, run>>

(* A command's program counter and locals.                                *)
(*   snapshot   the entry the lookup found, read before the await          *)
(*   answer     what the source answered, with its content in hash         *)
(*   key, entry the row the command inserts                                *)
(*   marks      observations that enforcement is about to mark expired     *)
(* A local that no later step reads is reset.                              *)
Steps == {"idle", "upstream", "answered", "stored", "entry", "age", "mark",
          "quota", "retained", "mint", "purged"}

Run == [pc : Steps, call : Maybe(Call), task : Maybe(Task),
        refresh : BOOLEAN, mayCache : BOOLEAN, snapshot : Maybe(Entry),
        answer : Maybe(Answers), hash : Maybe(Hash), key : Maybe(Key),
        entry : Maybe(Entry), marks : SUBSET ObservationId]

Idle == [pc |-> "idle", call |-> None, task |-> None,
         refresh |-> FALSE, mayCache |-> FALSE, snapshot |-> None,
         answer |-> None, hash |-> None, key |-> None,
         entry |-> None, marks |-> {}]

Init == /\ db = EmptyStore
        /\ now = 1
        /\ handle = None
        /\ run = [p \in Process |-> Idle]

Holds(p) == handle = p
Acquire(p) == handle = None /\ handle' = p
Become(p, r) == run' = [run EXCEPT ![p] = r]

\* The command ends, with a result or an error; the process exits or releases.
Finish(p) == Become(p, Idle) /\ handle' = None

-----------------------------------------------------------------------------
(* prog call: lookup, await, persist.                                      *)

\* call_source up to the await.  A hit goes on to mint a cursor with the
\* handle held; a miss or a refresh gives the handle up and asks the source.
StartCall(p, c, refresh, mayCache) ==
    LET found == IF mayCache THEN EntryAt(db, c, now) ELSE None
        r == [Idle EXCEPT !.call = c, !.refresh = refresh,
                          !.mayCache = mayCache, !.key = c]
        isHit == found # None /\ ~refresh
    IN  /\ run[p].pc = "idle" /\ handle = None
        /\ db' = IF mayCache THEN LookUpEntry(db, c, now) ELSE db
        /\ IF ~isHit
           THEN /\ Become(p, [r EXCEPT !.pc = "upstream", !.snapshot = found])
                /\ UNCHANGED handle
           ELSE IF found.hash \in db.payloads
           THEN /\ Become(p, [r EXCEPT !.pc = "mint", !.hash = found.hash])
                /\ handle' = p
           ELSE UNCHANGED <<run, handle>>
        /\ UNCHANGED now

\* The source, whose content may have become anything meanwhile, answers with
\* a body, an error response with data, or 304 when the request carried the
\* validator of the snapshot's observation and the content is still that.
SourceAnswers(p, answer, h) ==
    LET r == run[p]
    IN  /\ r.pc = "upstream"
        /\ answer = "not_modified" =>
              r.refresh /\ r.snapshot # None /\ r.snapshot.hash = h
        /\ Become(p, [r EXCEPT !.pc = "answered", !.answer = answer,
                               !.hash = h])
        /\ UNCHANGED <<db, handle, now>>

\* The transport fails: nothing is persisted.
SourceFails(p) ==
    /\ run[p].pc = "upstream"
    /\ Become(p, Idle)
    /\ UNCHANGED <<db, handle, now>>

\* A failed refresh keeps the entry the lookup saw and goes to its own key.
PersistenceKey(r) ==
    IF r.refresh /\ r.answer = "error" /\ r.snapshot # None
    THEN ErrorKey[r.call][now] ELSE r.call

\* The answer, redacted, becomes a payload blob unless the call may not cache.
StorePayload(p) ==
    LET r == run[p]
    IN  /\ r.pc = "answered" /\ r.answer \in {"body", "error"}
        /\ Acquire(p)
        /\ db' = IF r.mayCache THEN PutPayload(db, r.hash) ELSE db
        /\ Become(p, [r EXCEPT !.pc = "stored", !.snapshot = None,
                        !.key = IF r.call = None THEN None
                                ELSE PersistenceKey(r)])
        /\ UNCHANGED now

NewEntry(r, o) ==
    [hash |-> r.hash, source |-> SourceOf[r.call], observation |-> o,
     created |-> now, expires |-> now + TTL, failed |-> r.answer = "error"]

\* record_capture and the entry that will point at the observation.
RecordCall(p, availability) ==
    LET r == run[p]
    IN  /\ r.pc = "stored" /\ r.call # None /\ Holds(p)
        /\ db.observationsIssued < MaxObservation
        /\ db' = RecordCapture(db, r.hash,
                     IF r.mayCache THEN availability ELSE "metadata_only",
                     r.call)
        /\ IF r.mayCache
           THEN /\ Become(p, [r EXCEPT !.pc = "entry",
                                !.entry = NewEntry(r, db'.latest)])
                /\ UNCHANGED handle
           ELSE Finish(p)
        /\ UNCHANGED now

\* 304 Not Modified: the prior observation and payload are read again, the
\* confirmation is recorded against them, and the snapshot of the entry is
\* written back under the new observation.
ConfirmUnchanged(p, redacted) ==
    LET r == run[p]
        prior == IF r.snapshot.observation = None THEN None
                 ELSE db.observations[r.snapshot.observation]
    IN  /\ r.pc = "answered" /\ r.answer = "not_modified"
        /\ handle = None
        /\ IF prior = None \/ r.snapshot.hash \notin db.payloads
           THEN Become(p, Idle) /\ UNCHANGED <<db, handle>>
           ELSE /\ db.observationsIssued < MaxObservation
                /\ db' = RecordObservation(db, r.snapshot.hash,
                            IF redacted /\ prior.availability = "recoverable"
                            THEN "redacted" ELSE prior.availability,
                            r.call, r.snapshot.observation)
                /\ Become(p, [r EXCEPT !.pc = "entry",
                        !.snapshot = None,
                        !.entry = [r.snapshot EXCEPT !.observation = db'.latest,
                                           !.failed = FALSE]])
                /\ handle' = p
        /\ UNCHANGED now

\* put_entry, first transaction: the row replaces whatever the key held.
InsertEntry(p) ==
    LET r == run[p]
    IN  /\ r.pc = "entry" /\ Holds(p)
        /\ db' = PutEntryRow(db, r.key, r.entry)
        /\ Become(p, [r EXCEPT !.pc = "age", !.entry = None])
        /\ UNCHANGED handle
        /\ UNCHANGED now

\* enforce_storage_budget: entries past the age limit go first ...
EnforceAge(p) ==
    LET r == run[p]
        aged == IF db.budget.maxAge = None THEN {}
                ELSE AgedKeys(db, now, db.budget.maxAge)
    IN  /\ r.pc = "age" /\ Holds(p)
        /\ db' = PurgeEntries(db, aged, {})
        /\ Become(p, [r EXCEPT !.pc = IF aged = {} THEN "quota" ELSE "mark",
                               !.marks = ObservationsOf(db, aged)])
        /\ UNCHANGED handle
        /\ UNCHANGED now

\* ... their observations are marked in a transaction of their own ...
MarkAged(p) ==
    LET r == run[p]
    IN  /\ r.pc = "mark" /\ Holds(p)
        /\ db' = MarkExpired(db, r.marks)
        /\ Become(p, [r EXCEPT !.pc = "quota", !.marks = {}])
        /\ UNCHANGED handle
        /\ UNCHANGED now

\* Faulty variant: the capture goes on although its row was evicted.
EnforceQuotaAndGoOn(p) ==
    LET r == run[p]
    IN  /\ r.pc = "quota" /\ Holds(p)
        /\ db' = IF db.budget.maxBytes = None THEN db
                 ELSE EnforceQuota(db, db.budget.maxBytes)
        /\ IF r.key # None
           THEN Become(p, [r EXCEPT !.pc = "mint"]) /\ UNCHANGED handle
           ELSE Finish(p)
        /\ UNCHANGED now

\* ... and the payload quota comes last.  A capture whose row did not survive
\* ends without a cursor, a change of policy just ends.
EnforcePayloadQuota(p) ==
    LET r == run[p]
    IN  /\ r.pc = "quota" /\ Holds(p)
        /\ db' = IF db.budget.maxBytes = None THEN db
                 ELSE EnforceQuota(db, db.budget.maxBytes)
        /\ IF r.key # None /\ db'.entries[r.key] # None
           THEN /\ Become(p, [r EXCEPT !.pc =
                        IF r.answer = "not_modified" THEN "mint"
                        ELSE "retained"])
                /\ UNCHANGED handle
           ELSE Finish(p)
        /\ UNCHANGED now

\* A new capture reads its entry back: one that has expired ends the command.
ReadBack(p) ==
    LET r == run[p]
    IN  /\ r.pc = "retained" /\ Holds(p)
        /\ db' = LookUpEntry(db, r.key, now)
        /\ IF EntryAt(db, r.key, now) # None
           THEN Become(p, [r EXCEPT !.pc = "mint"]) /\ UNCHANGED handle
           ELSE Finish(p)
        /\ UNCHANGED now

\* cursor_for_projection: the caller is shown the payload and given a cursor.
MintCursor(p) ==
    LET r == run[p]
    IN  /\ r.pc = "mint" /\ Holds(p)
        /\ db.tokensIssued < MaxToken
        /\ db' = CreateCursor(db, r.key, SourceOf[r.call], now, TTL, r.hash)
        /\ Finish(p)
        /\ UNCHANGED now

-----------------------------------------------------------------------------
(* prog mcp-task: the same await, a payload and an observation, no entry.  *)

StartTask(p, i) ==
    /\ run[p].pc = "idle" /\ handle = None
    /\ Become(p, [Idle EXCEPT !.pc = "upstream", !.task = i,
                              !.mayCache = TRUE])
    /\ UNCHANGED <<db, handle, now>>

\* A task that no longer resolves is recorded as unavailable evidence.
RecordTask(p, availability) ==
    LET r == run[p]
    IN  /\ r.pc = "stored" /\ r.task # None /\ Holds(p)
        /\ db.observationsIssued < MaxObservation
        /\ db' = RecordObservation(db, r.hash,
                     IF r.answer = "error" THEN "unavailable"
                     ELSE availability,
                     r.task, None)
        /\ Finish(p)
        /\ UNCHANGED now

-----------------------------------------------------------------------------
(* prog cache: retention policy and purges; reading through a cursor.      *)

\* set_storage_budget: the policy is committed, then enforced.
SetRetention(p, budget) ==
    /\ run[p].pc = "idle" /\ Acquire(p)
    /\ db' = SetBudget(db, budget)
    /\ Become(p, [Idle EXCEPT !.pc = "age"])
    /\ UNCHANGED now

PurgeExpired(p) ==
    LET keys == ExpiredKeys(db, now)
    IN  /\ run[p].pc = "idle" /\ Acquire(p)
        /\ db' = PurgeEntries(db, keys, {})
        /\ Become(p, [Idle EXCEPT !.pc = "purged",
                                  !.marks = ObservationsOf(db, keys)])
        /\ UNCHANGED now

MarkPurged(p) ==
    /\ run[p].pc = "purged" /\ Holds(p)
    /\ db' = MarkExpired(db, run[p].marks)
    /\ Finish(p)
    /\ UNCHANGED now

(* The commands of one transaction: purge --source, --all and              *)
(* --payload-budget-bytes, and the reads through a cursor (expand,         *)
(* inspect, search, evidence), which write when they meet an expired row.  *)

Alone == handle = None /\ UNCHANGED <<now, handle, run>>

PurgeSource(s) == Alone /\ db' = PurgeEntries(db, SourceKeys(db, s), {s})

PurgeStore == Alone /\ db' = PurgeAll(db)

PurgeToBudget(maxBytes) == Alone /\ db' = EnforceQuota(db, maxBytes)

ReadCursor(t) ==
    /\ Alone
    /\ db.cursors[t] # None
    /\ db' = IF Unexpired(db.cursors[t], now)
             THEN LookUpEntry(db, db.cursors[t].key, now)
             ELSE LookUpCursor(db, t, now)

-----------------------------------------------------------------------------
(* The environment.                                                        *)

Tick == now < MaxTime /\ now' = now + 1
        /\ UNCHANGED <<db, handle, run>>

\* A killed process drops the handle it held; committed transactions stay.
Crash(p) ==
    /\ run[p].pc # "idle"
    /\ Become(p, Idle)
    /\ handle' = IF Holds(p) THEN None ELSE handle
    /\ UNCHANGED db
    /\ UNCHANGED now

Limits == {b.maxBytes : b \in Policies} \ {None}

CallStep(p) ==
    \/ \E c \in Call, refresh \in BOOLEAN, mayCache \in CacheModes :
          StartCall(p, c, refresh, mayCache)
    \/ \E answer \in Replies, h \in Hash : SourceAnswers(p, answer, h)
    \/ SourceFails(p)
    \/ StorePayload(p)
    \/ \E availability \in Captured : RecordCall(p, availability)
    \/ \E redacted \in {r \in BOOLEAN : r => "redacted" \in Captured} :
          ConfirmUnchanged(p, redacted)
    \/ InsertEntry(p)
    \/ EnforceAge(p)
    \/ MarkAged(p)
    \/ EnforcePayloadQuota(p)
    \/ ReadBack(p)
    \/ MintCursor(p)

TaskStep(p) ==
    \/ \E i \in Task : StartTask(p, i)
    \/ \E availability \in Captured : RecordTask(p, availability)

CacheStep(p) ==
    \/ \E budget \in Policies : SetRetention(p, budget)
    \/ PurgeExpired(p)
    \/ MarkPurged(p)

SharedStep ==
    \/ \E s \in Source : PurgeSource(s)
    \/ PurgeStore
    \/ \E maxBytes \in Limits : PurgeToBudget(maxBytes)
    \/ \E t \in Token : ReadCursor(t)
    \/ Tick

Next == SharedStep
        \/ \E p \in Process : CallStep(p) \/ TaskStep(p) \/ CacheStep(p)
                              \/ Crash(p)

Spec == Init /\ [][Next]_vars

-----------------------------------------------------------------------------
(* Properties.                                                             *)

\* Every variable has its type.
TypeOK ==
    /\ db \in Store
    /\ now \in Time
    /\ handle \in Maybe(Process)
    /\ run \in [Process -> Run]

\* A cache entry never points at a payload that is gone, and the observation
\* it names exists and is a capture of that very payload -- whatever the
\* other processes purged, evicted or replaced in between.
EntriesBacked == AllEntriesBacked(db)

\* An observation that still claims recoverable evidence has its payload.
EvidenceBacked == AllEvidenceBacked(db)

\* A cursor bound to an observation resolves to the payload its caller was
\* shown or fails; a refresh of the same key never makes it drift.
BoundCursorsNeverDrift ==
    \A t \in Token : LET c == db.cursors[t] IN
        c # None /\ c.observation # None =>
            Resolve(db, t, now) \in {c.shown, None}

\* The inductive invariant behind the four above.  Besides what holds of the
\* store itself it says what a command relies on from one of its transactions
\* to the next: only the holder of the handle is between two of them, its
\* payload is stored before its entry, and the row it reads back is its own.
Holding == {"stored", "entry", "age", "mark", "quota", "retained", "mint",
            "purged"}

OwnRow(d, r) == d.entries[r.key] # None /\ d.entries[r.key].hash = r.hash

CommandInv(d, r) ==
    /\ r.pc \in {"answered", "stored"} => r.hash # None
    /\ r.pc \in {"upstream", "answered"} /\ r.snapshot # None =>
          r.call # None /\ r.key = r.call
    /\ r.pc = "answered" /\ r.answer = "not_modified" =>
          r.snapshot # None /\ r.snapshot.hash = r.hash
    /\ r.pc = "stored" => /\ r.mayCache => r.hash \in d.payloads
                          /\ r.call # None => r.key # None
    /\ r.task # None => r.mayCache
    /\ r.pc = "entry" => /\ r.entry # None /\ r.key # None /\ r.call # None
                         /\ r.entry.hash = r.hash
                         /\ EntryBacked(d, r.entry)
    /\ r.pc \in {"age", "mark", "quota"} /\ r.key # None =>
          /\ r.call # None
          /\ d.entries[r.key] # None => OwnRow(d, r)
    /\ r.pc \in {"retained", "mint"} =>
          r.call # None /\ r.key # None /\ OwnRow(d, r)

IInv == /\ TypeOK
        /\ StoreInv(db)
        /\ \A p \in Process : /\ Holds(p) <=> (run[p].pc \in Holding)
                              /\ CommandInv(db, run[p])

\* "The run before this one" is a chain: every observation supersedes an
\* older one of the same invocation, and no two supersede the same one, even
\* when the captures of two processes overlap.
LineageIsAChain ==
    LET recorded == {o \in ObservationId : db.observations[o] # None}
        Before(o) == db.observations[o].supersedes
    IN  /\ \A o \in recorded : Before(o) # None =>
              /\ Before(o) \in recorded /\ Before(o) < o
              /\ db.observations[Before(o)].invocation
                    = db.observations[o].invocation
        /\ \A o, q \in recorded :
              /\ db.observations[o].invocation = db.observations[q].invocation
              /\ Before(o) = Before(q)
              => o = q

\* The inductive invariant behind the chain: besides the history of the store,
\* an observation that a command has read before its await is still what it
\* was, or erased.
SnapshotHolds(d, r) ==
    r.snapshot # None /\ r.snapshot.observation # None =>
        LET o == r.snapshot.observation
        IN  /\ o <= d.observationsIssued
            /\ d.observations[o] # None =>
                  d.observations[o].hash = r.snapshot.hash

HistoryInv == /\ HistoryHolds(db)
              /\ \A p \in Process : SnapshotHolds(db, run[p])

\* A capture that is kept leaves the store within its retention policy: from
\* the end of enforcement to the return of its cursor the payloads fit the
\* quota, including blobs that crashed or purged commands left behind.
KeptWithinQuota ==
    \A p \in Process :
        /\ run[p].pc \in {"retained", "mint"}
        /\ run[p].answer # None
        /\ db.budget.maxBytes # None
        => Bytes(db.payloads) <= db.budget.maxBytes

\* The inductive invariant behind the quota: there are finitely many payloads
\* to weigh, and no row or local comes from the future, so the payloads have
\* an order in which they are evicted.
QuotaInv ==
    /\ IsFiniteSet(db.payloads)
    /\ CreatedBy(db, now)
    /\ \A p \in Process :
          /\ run[p].snapshot # None => run[p].snapshot.created <= now
          /\ run[p].entry # None => run[p].entry.created <= now
    /\ KeptWithinQuota

\* The cursor a command returns works: if it is bound, then in the state that
\* mints it it resolves to the payload that was shown.
FreshCursorsResolve ==
    [][\A t \in Token :
         /\ db.cursors[t] = None /\ db'.cursors[t] # None
         /\ db'.cursors[t].observation # None
         => Resolve(db', t, now) = db'.cursors[t].shown]_vars

-----------------------------------------------------------------------------
(* What the documentation says and the code does not do.                   *)

\* docs: no valid cursor ever drifts to another payload -- also those that
\* were minted when the entry of their key had just expired.
CursorsNeverDrift ==
    \A t \in Token : LET c == db.cursors[t] IN
        c # None => Resolve(db, t, now) \in {c.shown, None}

\* docs: a failed refresh does not replace the prior successful entry.
FailedRefreshKeepsPrior ==
    [][\A p \in Process :
         /\ run[p].pc = "entry" /\ run'[p].pc = "age"
         /\ run[p].refresh /\ run[p].entry.failed
         => LET prior == EntryAt(db, run[p].key, now)
            IN  prior = None \/ prior.failed]_vars

\* docs: the retention limits hold after every cache write -- when a command
\* that stored a payload ends by itself, the payloads fit the quota.
EveryWriteWithinQuota ==
    [][\A p \in Process :
         /\ run[p].pc \in {"stored", "mint"} /\ run'[p].pc = "idle"
         /\ run[p].mayCache /\ run[p].answer # None
         /\ db' # db /\ db.budget.maxBytes # None
         => Bytes(db'.payloads) <= db.budget.maxBytes]_vars

-----------------------------------------------------------------------------
\* What the ledger sees of a store.
LedgerOf(d) ==
    [o \in ObservationId |->
        IF d.observations[o] = None THEN None
        ELSE [hash |-> d.observations[o].hash,
              invocation |-> d.observations[o].invocation,
              supersedes |-> d.observations[o].supersedes,
              revalidates |-> d.observations[o].revalidates]]
LiveIn(d) == {o \in ObservationId : /\ d.observations[o] # None
                                    /\ d.observations[o].availability \in Live}
PromiseOf(d) == [t \in Token |-> IF d.cursors[t] = None THEN None
                                 ELSE d.cursors[t].observation]
ViewOf(d, time) == [t \in Token |-> Resolve(d, t, time)]
IssuedBy(d) == [captures |-> d.observationsIssued, tokens |-> d.tokensIssued]

\* The whole implements the evidence ledger: captures are append-only and
\* linked, lost evidence stays lost, revoked tokens stay revoked, and bound
\* tokens are honest at every moment.
Ledger == INSTANCE EvidenceLedger WITH
    ledger <- LedgerOf(db), live <- LiveIn(db), promise <- PromiseOf(db),
    view <- ViewOf(db, now), issued <- IssuedBy(db)

KeepsTheLedger == Ledger!Spec

ASSUME LedgerAssumption == None \notin Ledger!Capture
=============================================================================
