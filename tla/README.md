# prog in TLA+

`prog` runs sources (commands, HTTP APIs, MCP servers), keeps what they
answered in a local evidence store, and gives an agent bounded projections with
cursors back into the kept payloads. What makes it more than a cache is what it
promises about evidence: a cursor shows what was captured and never something
newer, captures of one invocation form a lineage, retention removes payloads
without leaving claims behind, a failure never passes for a success, and
`ready` means that everything declared was verified. Those promises are kept by
several short-lived processes that share one database and die at any moment.

This directory specifies that machinery. Line numbers below are those of the
commit the specification was written from; `PROJECT.json` maps every definition
to the lines it models (`map`), lists the runs, the mutants that show each
property can fail, the hazards the properties are for, and the theorems.

## 1. Inventory

### Components that carry the logic

| Component | Code | State | Operations |
|---|---|---|---|
| Evidence store | `prog-core/src/store.rs`, `contracts.rs` | redb tables: payloads (by content hash), entries (by cache key), cursors, observations, lineage pointers, storage budget, session trail, obligations, intents, receipts | put/get of each, `record_observation`, retention, five purges |
| Database handle | `store.rs` 273–287, 1698–1728 | who has the file open | open with bounded retry, `release`, exit |
| Source calls | `prog-cli/src/commands/call.rs`, `envelope.rs`, `adapters.rs` | a prior entry, a request, an answer | lookup, hit, miss, refresh, 304, failed refresh, pages |
| Page loop | `core/pagination.rs`, `commands/call.rs` 613–960 | pages kept, bytes, next arguments, resume target | fetch, keep, drop, fail, stop |
| HTTP and CLI adapters | `prog-adapters/src/http.rs`, `cli.rs` | one exchange | validate, send, redirect, read to a limit, time out, normalise |
| Command capture | `commands/run.rs`, `shim.rs`, `prog-adapters/src/process.rs`, `cli.rs` | child, two streams, caps, deadline | spawn, read, time out, cancel, store |
| MCP client and tasks | `prog-adapters/src/mcp.rs`, `commands/mcp_task.rs` | session, task handle | start, get, result, cancel |
| Source profiles | `store.rs` 1253–1300, 1738–1780, `cli/main.rs` 855–884 | `profile.json`, its lock file, its temporary file | read, join, write, rename |
| Cursor reads | `commands/expand.rs`, `navigation.rs`, `core/pointer.rs` | — | expand, inspect, search, evidence |
| Sessions and readiness | `commands/session.rs`, `verification.rs`, `core/readback.rs`, `prog-cli/src/obligation.rs`, `commands/hook.rs` | active session, trail, obligations, action intents, read-back receipts | start, declare, begin verification, read back, ready, stop gate |
| Delta | `core/delta.rs`, `commands/delta.rs`, `core/records.rs` | — (pure, over two captures) | compare, assess, resolve |
| Policy and trust | `core/policy.rs`, `importers.rs`, `commands/discover.rs`, `adapters.rs` | the stored profile, the one a discovery prepared, the one a call has read | import, author, discover, probe, call, page, learn |
| Shapes | `core/shape.rs`, `commands/profiles.rs` 17–27, `cli/main.rs` 855–884 | the shape a profile has learnt of an operation's output | infer, join, state |
| Source state | `core/source_state.rs`, `core/delta.rs` 579–616 | tokens of captures | capture a token, ask conditionally, compare two |
| Redaction | `core/redaction.rs`, `commands/run.rs` 573–695 | chunks of a stream, its two views | redact a text, a list of fragments, a value |
| Findings and navigation | `core/findings.rs`, `navigation.rs`, `commands/navigation.rs`, `paths.rs` | — (pure, over a payload) | derive, search, find, inspect, list paths |
| Disclosure | `core/disclosure.rs`, `lens.rs`, `commands/envelope.rs` | an answer being made to fit | project, view, coarsen, surrender |
| Selection and coverage | `core/select.rs`, `commands/select.rs` | the session's trail | select, show, expand, coverage |
| Update | `commands/update.rs` | installed binary, staged file | check, download, verify, replace |

`PROJECT.json` lists the remaining parts (rendering, importers, argument
parsing, integrations) with the reason each is left out.

### Interactions

All commands are separate processes. They meet in three places: the redb file,
which one process has open at a time; `profile.json`, guarded by a lock file
created with `create_new`; and the trail of the active session. A command opens
the store at its first operation and keeps it until it exits — except around an
await on an upstream source, where it calls `store.release()` first. So between
two transactions of one command no other process runs, *unless* a release lies
between them; but a process may be killed between any two.

### What is hard here

* **Reads before an await, used after it.** A call looks its entry up, gives
  the database away, waits, and decides with the old entry: whether to preserve
  the prior capture, what to write back on a 304.
* **Several transactions that belong together.** Payload, observation, entry,
  retention, cursor are five; age retention alone is two. A crash may fall
  between any of them.
* **Shared payloads.** Blobs are deduplicated by content across entries,
  sources and observations, so a purge must count references.
* **Children that leave others behind.** A command's descendants may hold its
  pipes after it has exited, inside or outside of its process group, while its
  deadline, a signal, its exit and two ends of file race.
* **Retention against evidence.** Evicting a payload must take its entries,
  their cursors and every claim of an observation on it.
* **Two locks in both orders.** A first answer is learnt into the profile
  without the database, a page with it. Only bounded retries prevent deadlock.
* **A lock file that survives its owner.**
* **Numbers at their ends**: quota sums, saturating revision and expiry.
* **Bounds that must agree.** Several traversals and several cuts, each with a
  bound of its own, decide together whether something is absent or unseen.
* **Texts redacted twice**, in pieces and as a whole.
* **Statements about a source that age**: a profile, a validator, a hint.

### What makes each component correct

* Store and calls: entries and live observations have their payloads; a bound
  cursor resolves to what was shown or to nothing; lineage is a chain; after a
  kept capture the quota holds; a fresh cursor works.
* Profiles: no reported update is lost; revisions serialize; every update ends;
  the lock file is returned unless its owner dies.
* Locks: nobody waits for a source with a lock in hand, or for itself; the
  database always comes free; every command ends if sources answer.
* Readiness: `ready` only when every required obligation has a verified receipt
  whose evidence is still there; crashes fail closed.
* Command capture: what claims to prove absence is the whole output of a command
  that exited; an interruption keeps what was read, leaves nothing of the group
  and ends; a shim hands on every byte.
* Delta: `resolved` only when the same check ran again, completely, and passed;
  records are accounted for once; equal tokens mean an unchanged source.
* Exchanges: pages are a prefix of their chain; every exchange ends; what claims
  to prove absence is all the source sent.
* Redaction: the two views of a stream hide the same; a redacted text stays
  incapable of proof when it is captured again.
* What is shown: what is not shown is named as missing, by findings, searches,
  answers that are cut, pages of records and coverage alike.
* Trust: nothing runs beyond what its adapter knows, its owner stated and its
  caller consented to; learning lifts no gate.
* Shapes: what is learnt does not depend on who learnt it first, and has room for
  every payload that was seen.

## 2. Modules

```
EvidenceLedger            what the store promises (abstract)
   ^ implements
CaptureProcesses  --EXTENDS-->  StoreTables        calls, tasks, purges; tables
   ^                                ^
CaptureProofs  ---------------> StoreProofs        theorems; lemmas
Readiness  <-- ReadinessProofs                     obligations and read-backs
CommandRun  <-- CommandRunProofs                   commands and their captures

   what prog does with its sources            what it says of its evidence
   (composed by MCSources)                    (composed by MCEvidence)
ProfileUpdates                             TestRuns <-- Delta    findings, compared
CallLocks    handle x lock file            RecordDelta           records, compared
Pages        the page loop                 SourceState           change tokens
McpSession   a request to an MCP server    Redaction             secrets in text
AdapterCalls HTTP and CLI exchanges        Payloads <-- PayloadPaths, Coverage
                                           PayloadPaths <-- Findings <-- Navigation
                                           PayloadPaths <-- Disclosure <-- Selection
                                           Trust <-- MCTrust
                                           Shapes                shapes, joined
   ^                                            ^
SourceProofs (all five)                    EvidenceProofs (Delta, RecordDelta,
                                           SourceState, Redaction, Coverage, Trust),
                                           PayloadProofs (Disclosure, Navigation);
                                           FoldLemmas

MCCapture, MCReadiness, MCCommandRun, MCSources, MCEvidence, MCTrust
                                           instances for TLC
```

**Absent** declares the one constant `None`, the value of what is not there.

**StoreTables** holds the database as one record `db` (a redb transaction is
atomic, so one transaction is one operator from store to store):
`payloads` the set of stored hashes, `entries[key]` and `cursors[token]` the
rows or `None`, `observations[id]` with hash, availability, invocation,
`supersedes` and `revalidates`, `latest` and `invocationLatest` the lineage
pointers, `budget` the retention policy, and how many identifiers were issued
(cursor tokens and observation identifiers are never reused, also not after
`purge --all`). A payload is its content hash with a size; JSON, redaction text
and shapes are abstracted. `RecordObservation`, `PutEntryRow`, `CreateCursor`,
`PurgeEntries`, `EnforceQuota`, `MarkExpired`, `LookUpEntry`, `LookUpCursor`,
`Resolve` and `PurgeAll` are the functions of the same role in `store.rs` and
`navigation.rs`.

**CaptureProcesses** runs commands over those tables, one transaction per
action. `run[p]` is the command of process `p`: a program counter and exactly
the locals that survive from one transaction to the next, above all `snapshot`,
the entry the lookup saw before the await. `handle` is the owner of the
database. A call goes `StartCall` (hit: mint; otherwise release) →
`SourceAnswers`/`SourceFails` → `StorePayload` → `RecordCall` or
`ConfirmUnchanged` (304) → `InsertEntry` → `EnforceAge` → `MarkAged` →
`EnforcePayloadQuota` → `ReadBack` → `MintCursor`. Tasks, `cache` commands and
cursor reads interleave wherever the handle is free, the clock ticks, and
`Crash` can hit between any two actions. Asking for a handle somebody holds is
waiting here; that it is bounded is `CallLocks`.

**EvidenceLedger** is the abstract specification: an append-only ledger, live
evidence that is lost once, tokens that read their capture's payload or
nothing. `CaptureProcesses!Ledger` is the refinement mapping; the abstract
`view` of a token is what `cursor_context` resolves it to at that moment.

**ProfileUpdates** is `Store::update_profile` with `ProfileLock`: `create_new`
on the lock file, read, write the temporary file in two steps (opened, hence
torn, then written), rename, unlock, under crashes. The join of shapes is union
of a set of facts; that the real join may be taken for one is what `Shapes`
shows (`INVARIANTS.md` I5).
`MaxRevision` is `u64::MAX`, reached because an authored profile may carry it.

**CallLocks** is only about who waits for whom: the steps of a call and its
pages with the handle, the lock file and the bounded retries of both.

**Readiness** is what `prog status` rests on. `db` has the tables a readiness
report reads: payloads and observations, obligations by session and name,
intents, receipts, and the current session. `verification begin` is two
transactions, `BeginVerification` (the required obligation) and `StoreIntent`;
`verification readback` is `StartReadback` (the intent is read, the database
released), `CaptureAnswer`, `JudgeAnswer` (the receipt) or `FailReadback`, and
`AttachReceipt`. What they share with other commands is evidence, abstracted
from `CaptureProcesses`: a capture is one step, `LosePayload` and `Expire` take
evidence away, `PurgeStore` everything. `Evaluated`, `Judged`,
`EvidenceAvailable`, `CheckStanding`, `Standing` and `Ready` are the pure
functions of `core/readback.rs` and `prog-cli/src/obligation.rs`. A payload is
what the paths of an intent select in it (identity, version, state, or nothing)
or the outcome of a command. An obligation has one receipt, and the one attached
last counts: of two read-backs at once it may be that of the earlier question.
Both then speak of evidence that exists, which is what is promised.
The constants `Answers` and `Other` are what sources may say, `Deadline` when
consistency windows may close, `Declarable` which checks may be declared.

**CommandRun** is how a command is run before anything is stored: by `prog run`
and by a CLI source (both through `capture_process`) and by a shim
(`capture_passthrough`), with one pipe per stream or, with `2>&1`, one for both;
`kind` says which. The operating system's side is explicit: the child and what
it forks write (`Write`), inherit pipes, stay in the group or leave it (`Fork`)
and end (`Exit`); a consumer of a shim goes away (`CloseDownstream`); a deadline
passes. The readers are `Read`, `ReadEnd`, `ReadFails` and `RelayFails`; prog's
own thread sees a signal, the deadline, the exit and each reader in the order
the `select!` prefers them (`SeeSignal`, `SeeDeadline`, `SeeExit`, `SeeReader`),
then either completes or kills the group (`Interrupt`), gives up on a reader
whose pipe a stranger holds (`GiveUpReading`) and records (`Conclude`). A source
that is interrupted is dropped as a future (`DropCall`). A byte is its position,
so that counts are prefixes; `Recorded` is `run_capture_completeness` and
`adapter_capture` with what `record_capture` adds, `Contents` what redaction or
a windowed derivation may do to them. What happens to the record afterwards is a
capture with its own key in `CaptureProcesses`.

**Pages** is the loop of `call --pages`. A source has `paged.count` pages of
some sizes and continues by a token, a page number, an offset, or a URL in the
body or a header; `BodyOf` and `Index` are the source, `ExtractHints` and
`NextTarget` the code. `loop` is the loop's own state: pages kept, their bytes,
the arguments of the next request. It starts with the hints of page 1 or, if that
has none, with those a probe once stored in the profile (`paged.probed`,
`StoredHints`), which may name a page of another chain (`Astray`). `FetchPage`,
`DropPage`, `FailPage`, `ErrorPage`, `RefuseUrl` and `StopLoop` are its turns,
`CallAgain` the later call that asks whether the prefetch it finds satisfies it.

**McpSession** is one request to a stdio server, from spawn to shutdown: `mcp`
is prog's side, `peer` the server and a helper it may start, `errors` the
standard error both may hold and the task that drains it, `group` whether the
process group is owned, killed or let go. Every wait may end by its timeout
(`HandshakeFails`, `RequestFails`, `Close`, `Collect`); the server owes nothing.
`Normalize` and `ProvesAbsence` say what the capture of its result claims.

**AdapterCalls** is one call through the HTTP or the CLI adapter: arguments are
validated against the operation (a placeholder that is the whole of a string of an
HTTP body takes any JSON value, every other one needs a scalar), the answer arrives in chunks of two streams
(one for HTTP) that are read to a limit, while redirects, errors, the deadline
and a helper that outlives the command interfere; then it is normalised and
`AdapterCapture` says what it may prove.

**TestRuns** and **Delta**: a run is what really happened to each test;
`Lines`, `Summary` and `Exit` are what the runner prints of it, the rest what
the coding providers conclude. `captures` are what `record_capture` keeps of
successive runs, payloads get lost (`LoseCapture`), and `Compare` is the delta.
Since the truth stays in the state, `ResolvedRanAgain` can relate the two.

**RecordDelta** compares collections. A record has its fields as the source sent
them, `Stored` is their redacted form and all the comparison sees.

**SourceState**: `origin` is a source with a version, the second of its last
edit and a scope; `Observe` is a capture with its token, `CallSource` a call
that may ask conditionally with the token of the entry it holds
(`Validator`, `NotModified`). An answer is content or an error, and either may
carry the validators of the version there is. `PairValidity` is what a delta says of two tokens.

**Redaction**: a text is a sequence of tokens (names, separators, quotes, values,
line ends, the marker). `Write` appends a piece to a stream or lets the other
stream write in between; `CaptureStream` redacts the stream as a whole and chunk
by chunk, `CaptureAgain` what was stored of it. Positions stand for byte offsets.
The loops of `redaction.rs` are turns: `QuotedTurn` is one of
`next_quoted_sensitive_value`, `ValueTurn` of `next_sensitive_text_value`,
`NameValueTurn` of `name_value_text_ranges`, `MergeRanges` of `merge_text_ranges`,
`RedactRange` and `RedactNext` of `redact_sensitive_text_fragments`. Each gets as
many turns as the text has positions or ranges (a turn that has nothing to do
leaves things as they are).

**Payloads** has a stored payload as a tree and **PayloadPaths** the paths into
it, level by level; **Findings**, **Navigation**, **Disclosure** and **Coverage**
read one. `Walk` is the traversal that derives findings: it keeps what the
recursion of `collect_generic_signals` has yet to visit as a sequence of places, of
which `VisitFirst` visits the first and puts what is below it in its place.
`DerivationIsComplete` is the other traversal, the one that vouches for it. `Search`
and `CollectPaths` go through a tree in the same way (`SearchFirst`, `CollectFirst`),
each with bounds of its own, and `Bounded` cuts their answers to a limit and to a
budget of bytes (the `fits` of a question).
`Project` is the projection: `Projector` recurses over the tree, and `Drawing`
keeps what that recursion has yet to draw as a sequence of nodes, of which
`DrawFirst` draws the first and puts its children in its place, so the nodes come
in the order of the code and use up its one budget. `EnvelopeFor` tries coarser
policies and `Compact` surrenders the parts of an answer in the order of `Steps`.
What of a document is projected is **Selection**'s: the fields asked for, or what
a lens selects; `Disclosure` knows it as the constant `SubjectOf`. `SelectRows` reads a
collection in pages, `ShowItems` is a call or an expansion of it, which records as
covered all items its preview has a place for, also those of which it shows no more
than a marker and those the compact form leaves out (`given` and `placed` remember
which is which); `Position` is the counter of matches that the loop of `select_rows` runs with, `Event` and `Recorded` are the bounded trail, `Counted` and
`Returned` what coverage reads back from it.

**Trust** has the stored profile of one operation, the discovery under way and a
call per process, each with the profile it has read. `Import`, `Author`,
`Prepare`, `Probe`, `Merge` state what the operation does; `Execute`, `NextPage`
and `Finish` are a call: `Harden` tightens the profile by what the adapter
knows, `CallAllowed` and `PaginationAllowed` gate, `Learn` adds to the profile
that is stored by then.

**Shapes** is the join itself, behind the sets of facts of `ProfileUpdates`:
`LearnOutput` joins what one payload shows into what is stored, `StateOutput`
merges a statement and its probe. A union is a set of variants; the sorting that
makes the code's list one is left out. `Describes` says, by itself, what it means
that a shape has room for a payload.

Definitions under a comment "Faulty variant" are used by no specification: they
are the plausible mistakes that `PROJECT.json` lists as mutants.

## 3. Runs

| Run | Instance | Shows |
|---|---|---|
| `Calls` | 2 processes, 1 call, success/error/304, 2 payloads, 2 observations, 1 cursor, 2 instants | `BoundCursorsNeverDrift`, `LineageIsAChain`, `KeepsTheLedger` (refinement) |
| `Retention` | 2 processes, quota 2 and age 1; 2 calls of 2 sources, answers that may be the same payload; or tasks next to a call with or without cache | `IInv` (entries and live observations keep their payloads, and everything else the proof rests on), `KeptWithinQuota`, `FreshCursorsResolve` |
| `Readiness` | 2 processes, 1 intent and 1 check in 1 session, 3 observations, 2 receipts, 2 trees, 2 instants | `PassInv` (the inductive invariant of the proofs), `ReadyMeansVerified`, `PassIsEarned` |
| `CommandRun` | all four kinds, a child and a descendant, 2 bytes of stdout and 1 of stderr, cap 1 | `AbsenceIsProved`, `InterruptionKeepsEvidence`, `NothingOutlives`, `ShimIsTransparent`, `CapturesEnd` |
| `Sources` | one part per behaviour: profile updates, locks, pages, MCP, adapters | profiles: `ReportedIsKept`, `RevisionSerializes`, `EveryUpdateEnds`; locks: `WaitsEmptyHanded`, `HandleReturns`, `AskingEnds`, `CommandsEnd`; pages: `PrefetchIsAPrefix`; MCP: `DiagnosticsAreWhole`, `ProvenResultsAreWhole`; adapters: `ProvenAnswersAreWhole`; both: `ExchangesEnd` |
| `Evidence` | one part per behaviour: test deltas, record deltas, source states, redaction, findings, navigation, disclosure, coverage, trust, shapes | `ResolvedRanAgain`; `RecordsAreAccounted`; `ConfirmedIsUnchanged`; `ViewsAgree`, `RedactedStaysEvidence`; `CompleteMissesNothing`; `NavigationAccounts`; `NothingIsHiddenSilently`; `SelectPagesCover`, `NeverOvercounts`; `CallsAreGrounded`, `ProbesOnlyRead`, `OnlyStatementsRelax`; `LearningForgetsOrder` |
| `Drift` | violated | see findings |
| `FailedRefresh` | violated | see findings |
| `UnboundedTask` | violated | see findings |
| `Unstarted` | violated | see findings |
| `Knob` | violated | see findings |
| `Counted` | violated | see findings |

*Bounds.* Two processes suffice for every race in the list: each has one
process that reads, one that writes, and the handle excludes the rest. Two
payloads of sizes 1 and 2 with a quota of 2 (1 in `UnboundedTask`) make the quota evict the other
payload, the own payload, both, or none. Two observations give a chain with a
link and a lost race for it; the clock has the instant a capture is made and
the instant its TTL of 1 is over. `TTL`, `MaxTime`, `MaxObservation` and
`MaxToken` are constants, and what holds for all of their values is proved.
`STORE_OPEN_ATTEMPTS` (200) and the 100 lock tries are 2: retries differ only
in number. Processes are symmetric in the runs without liveness. The state
constraint of `Retention` keeps two kinds of states apart: calls that cache, of which
one may be refreshing, to the second instant; and tasks with at most one call at a
time that does not refresh, in the first instant and without cursors, which is where
payloads without an entry meet the quota. Its two calls, each with its source, are
exchanged by a symmetry of their own.

In `Readiness` three observations are the capture before the mutation, the
answer and one more (a second answer, the mutation's response, or the same
content again after it was lost); two receipts let two read-backs overlap. The
state constraint `Apart` explores parts one at a time: a check with its two
trees next to an intent up to the first receipt, or two receipts without a
check; a mutation response in one read-back, or two that overlap; one payload
lost at a time. After a purge only commands that were running continue. The
theorems need no such cut.

In `CommandRun` a cap of 1 with 2 bytes has a stream below, at and above its
cap, read at once or in two reads; stderr has one byte (a shim's merged pipe
has the cap of both). One descendant is enough to hold either pipe after the
child, in the group or out of it. Exit codes are only copied: one stands for
all. What child and descendant do after the capture has ended is left out.

`Sources` and `Evidence` each hold several small specifications that share no
state. A variable `part` chooses one when a behaviour starts; the others rest in
a state in which they may rest for ever, so the state space is the sum of the
parts and not their product. What two parts do together is no question here:
what they share is modelled inside of one part (a call's locks in `CallLocks`,
its profile in `Trust`).

In `Sources`: two processes update a profile with 2 tries, one crash, and an
authored revision 2 of 3, so that the largest revision is reached; two commands
follow 2 pages with 2 tries for each lock and one kill. Three pages of sizes 1
and 2 under limits of 4 pages, 4 bytes and one tick, and a chain of one page,
reach every stop reason for each way to continue; the profile has no hint, or that
of a probe which was on page 1 or in another chain. An MCP server writes up to 2
bytes of diagnostics with a cap of 1; results are below and above the cap of
their content. A body limit of 3 with answers of up to 4 lines ends below, at
and above the limit; windows of 2 and 1 lines cut what is kept.

In `Evidence`: two tests of different suites with every outcome, two runs, one
payload lost (`OneTool` compares captures of one tool, which is what a delta of
one command does); collections of two records whose identifiers may be secrets,
contain one, or be missing; three versions in two seconds and three captures,
of answers, errors among them, with each kind of validator, malformed, cut or
expired; texts of four pieces out of 14, with names, separators, quotes, markers,
line ends and a vendor's token; trees
with as many nodes and levels as the bounds (8 and 4) and one more; documents
under budgets from one in which nothing fits to one in which all does; lists of
three records and of two, read in pages of at most two, by two cursors, with a trail
of two events and up to four places of records in answers (`FewAnswers`); one caller, for which all profiles an import, a seed or an owner gives
are tried (two effect sets and two trusts; the theorems have all), where a
command stated to need no shell is not followed further than to its profile
(`ShellUnstated`: one of which nothing is stated and that needs none is); three
contributions of shapes, from 14 payloads with redacted, missing and mixed values
and three statements in canonical form, with enumerations of up to two texts
(eight in the code), so that every kind meets every other and the cap is crossed.
`Disclosure` leaves out that a note of what was given up is cut at 200 characters
(`envelope.rs` 1246–1259): what may be lost of it is the end of its last part, that all
findings went, which the part before says as well.

*Deadlock checking.* It is on where a process may always start or fail a
command. One request, one call, one comparison or one answer ends, and the
specification with it: `Sources`, `Evidence` and `Knob` do not check it.

*Fairness.* `CommandRun` assumes it of prog's thread and of each reader that
has something to read; the child, its descendants, signals, the deadline and
failing reads owe nothing: a child may run for ever, and `CapturesEnd` speaks of
captures that were interrupted or whose processes are gone. `ProfileUpdates`
and `CallLocks` assume that a running process takes its next step (`WF` of its
own steps): the operating system schedules it. Beginning a command is never forced, crashes are never required, and sources owe no
answer: `HandleReturns` and `AskingEnds` hold without one. `CommandsEnd` alone
assumes that sources answer, which the deadlines of the adapters give. No
strong fairness on locks is assumed, for the code has none: a process that
always finds the lock taken gives up after its last try, and that is why the
waits end. `McpSession` assumes that one of prog's own steps is taken while some
are enabled, for each of its waits has a timeout; `AdapterCalls` that a call
begins and that its deadline fires: neither a server's nor a helper's step is
ever owed. `CaptureProcesses` has no liveness: a process that waits
for the handle is allowed to crash instead.

## 4. Findings

1. **A cursor can drift** (`Drift`). `create_cursor_with_extra` asks for the
   entry a second time to learn the observation to bind. If the entry expires
   between the first lookup and the second (a hit at the end of its TTL, or a
   304 written back with its old expiry), the lookup returns nothing, the
   cursor is stored unbound with a fresh TTL, and after the next capture it
   reads the new payload. `INVARIANTS.md` I9 says valid cursors never drift.
   For bound cursors the promise holds and is proved.
2. **A failed refresh can replace a success** (`FailedRefresh`): whether the
   prior entry must be preserved is decided with the entry seen before the
   await. `docs/cache.md` says it never happens.
3. **One write escapes the quota** (`UnboundedTask`): the payload of an MCP
   task observation is stored without enforcement. `docs/cache.md` and
   `README.md` say every write is bounded.
4. **A command that never ran proves absence** (`Unstarted`): when the spawn
   fails, `prog run` records an observation with two empty streams, complete and
   able to prove absence, for only timeouts and cancellations are excluded.
   `docs/delta.md` says incompletely executed captures cannot; with scopes that
   are declared exhaustive, a delta may call the findings of the run before
   resolved.
5. **The owner's knob does not reach discovery** (`Knob`): whether a probe may
   run is decided with the trust that the same discovery has just prepared, in
   which `auto_upgrade` is on, and merging then replaces the owner's. After the
   owner has turned it off, `discover --probe` of an MCP source executes a proven
   read-only tool and leaves the knob on. `docs/safety.md` says discovery skips
   it, without re-importing.
6. **Coverage counts records of which nothing was shown** (`Counted`): the event
   of a call or an expansion covers as many items as its preview has elements,
   also those that are only a marker, at the depth limit or after the budget of nodes,
   and those the compact form does not print (it prints two). `docs/agent-reference.md` says
   coverage reports which records were returned, to be used before claiming that
   every record was reviewed. What holds, and is proved, is `NeverOvercounts`: the
   cursor was given the record or an answer to it had a place for it.

*Smaller disagreements*, stated as properties of their modules but not as runs
of their own; TLC finds a state that violates each in the instance `MCEvidence`
or `MCSources`:

* `FindReportsItsLimits` (`Navigation`): `find` takes the foremost findings, up
  to a number of its own, from a derivation with bounds of its own, and names no
  omission for what these left out (`core/navigation.rs` 342–367), while
  `docs/evidence-navigation.md` 22–24 has it report partial results. Under the
  condition that the derivation was complete and within that number it does:
  that is part of `NavigationAccounts`.
* `ExpansionsAreCounted` (`Coverage`): an expansion whose answer has no overview of
  the collection shows records for which coverage counts nothing
  (`prog-cli/src/main.rs` 762–793, `commands/select.rs` 170–187);
  `docs/agent-reference.md` 84–86 says coverage reports which records were returned.
* `OmittedIsExpandable` (`Disclosure`): the regions that a view omits are named by
  their place in the view, also where that is no place in the payload
  (`core/lens.rs` 225–273); `docs/contracts.md` 213 says to expand paths from
  `omitted`.
* `NoMoreIsTheEnd` (`Pages`): the loop ends with `no_more` also where the page that
  was named failed, or is a URL and the source a command or an MCP server, which the
  comment on the stop reason, "No next page was reported", does not say
  (`core/pagination.rs` 66–67).
* `PagesAreOfOneChain` (`Pages`): where the first answer has no hint the loop starts
  with that of the profile, which `discover --probe` took from an answer to other
  arguments (`commands/call.rs` 627–629, `discover.rs` 539–546). Such a token or URL
  leads into another chain, whose pages are then stored as those that follow page 1;
  `README.md` 286 says that `--pages` follows continuation hints. For page numbers
  and offsets, and wherever page 1 has a hint, it is one chain (`PrefetchIsAPrefix`).
* `AnyRedactionStaysEvidence` (`Redaction`): the marker of a vendor's token stands by
  itself, without a sensitive name, and a second capture does not count it, while the
  comment in `core/redaction.rs` 629–630 says that a capture of an already redacted
  log must not regain its rights, and `docs/safety.md` 135–136 makes no difference
  either. For secrets after a name, also with tokens next to them, the promise holds:
  that is `RedactedStaysEvidence`.

*Observations without a promise that they break*: markers that cross lines are
recognized in a text only if no single line shows one; the identity of a finding
is cut at 1024 characters; `find --kind error` leaves out findings of the kind
`log_fatal`; `inspect --kind` filters after it has taken four times its limit of
findings; `seen`, of which a test's name says that it counts, is joined by maximum, so
that it stays 1 for whatever was learnt from payloads, and each such field that is
optional reads "rarely present". An error that repeats the validator of the content
before it is compared as a capture of an unchanged source, which it is: the comment in
`core/delta.rs` 583–586 is about signals of the capture itself, a failed refresh above
all, and those win (`ConfirmedIsUnchanged` has both).

## 5. Proofs

TLAPS checks, for every number of processes, keys, payloads, calls and tasks,
every policy, TTL and bound:

* `CaptureInvariant`: `Spec => []IInv`. `IInv` is the store's invariant
  (`StoreInv`: types, identifiers not yet issued are unused, entries and live
  observations backed, bound cursors bound to what was shown) together with
  what a command relies on between two transactions: the handle is held exactly
  in the steps after the first write, the payload is there until its entry is,
  the entry under construction is backed, and the row that is read back, if
  any, is the command's own. Without the second half the first is not
  inductive: `InsertEntry` is right only because nobody else could purge since
  `StorePayload`.
* From it `TypeCorrect`, `EntriesStayBacked`, `EvidenceStaysBacked`,
  `BoundCursorsAreHonest`, and `FreshCursorsAreGood` (for a positive TTL, an
  action property).
* `ProfileInvariant`: mutual exclusion by the lock file, and that the update in
  hand is that of the profile still on disk; hence `NoLostUpdate` and
  `Serialized`, however many processes crash.

* `ReadinessInvariant`: `Spec => []RInv`. `RInv` says of the store that
  what was not issued is unused, live evidence has its payload, an obligation of
  an intent is required and has evidence only through a receipt, which is its
  own, and that a `verified` receipt still describes its intent and its
  read-back (`VerdictsHold`). Of a command (`Knows`) it says what the snapshot
  taken before the await is worth: the intent it remembers is the stored one,
  or a purge has taken everything it could name. `Grows` is what any other
  step leaves a waiting command; without it an old read-back could attach a
  receipt to something else.
* From it `IntentsStayDeclared` and `ReadyIsVerified`: a ready session has, for
  each announced mutation, readable evidence of the changed entity, for any
  number of processes, sessions, intents and captures.

* `CommandInvariant`: `Spec => []CInv`. Of a reader (`ReadersHold`,
  `EndsHold`): it has a prefix within its cap, knows if that is not all it has
  read, and when it has ended uncut nobody holds the write end; that stays so,
  for only who holds it can pass it on. Of prog (`ExitHolds`, `StepsHold`): it
  joins only such readers and the exit it saw is the child's. Hence
  `ProofsAreWhole`: what may prove absence is the whole output.
* `NothingIsLeft`: from that and `GroupIsGone`: a killed group stays empty while
  the readers are drained, since only its members could add to it.

* `TrustInvariant`: `Spec => []TrustInv` of `Trust`. Its parts are that profiles
  are well formed, that what a discovery prepared of a request which changes
  something says so (`Honest`: a seed's declaration is tightened before it is
  kept), and that every call and probe under way is admitted. `HardenIsTighter`
  and `UpgradeLiftsOnly` say, for every profile whatever its text says, what
  hardening adds and what evidence may lift; `CallIsGrounded`, `PageIsGrounded`
  and `ProbeReads` follow, one for each gate. Hence `CallsStayGrounded` and
  `ProbesStayReads`. `CallsRelaxNothing` rests on `LearningLiftsNothing`: a call
  changes nothing of a stored profile that a gate reads.

* `HistoryInvariant`: `Spec => []HistoryInv` of `CaptureProcesses`. For each
  invocation the pointer names its newest capture, whatever is later than a
  capture supersedes one that is at least as late, and what a command read
  before its await is no later than what is there now. Hence `ChainOfCaptures`
  (`LineageIsAChain`): "the run before this one" is a chain, also when two
  processes capture one invocation at once.
* `LedgerIsKept`: `Spec => KeepsTheLedger`, the refinement of `EvidenceLedger`.
  The initial states map to its initial state, and each action to a capture, a
  loss, a mint, a revocation, a purge or a stutter; `BoundCursorsNeverDrift` and
  the history are what the mapping of a token's view rests on.
* `QuotaInvariant` and `KeptCapturesFit` (`KeptWithinQuota`): what is stored beyond
  the quota is what a process that holds the handle is about to prune. How much
  a set of payloads weighs is a fold; `FoldLemmas` proves what it needs of folds.

* `PassInvariant`: `Spec => []PassInv` adds to `RInv` that what a pass rests on
  had been issued when it was named (`NamesHold`). Hence `PassesAreEarned`
  (`PassIsEarned`): `Wanes` is what any step leaves of the obligations that keep
  their receipt, and under it no standing improves (`PassesWane`). Without
  `NamesHold` a capture could come to be where a check already pointed.

* `EvidenceSurvives` (`InterruptionKeepsEvidence`): the chunks a reader hands
  over, joined, are the prefix it has read; how many bytes several chunks have is
  a fold, again. `ShimsAreTransparent` (`ShimIsTransparent`).

* `LocksInvariant` of `CallLocks`: who holds the handle and who the lock file is
  read off each command's step; hence `NobodyWaitsWithALock`
  (`WaitsEmptyHanded`), for any number of commands, pages, tries and kills.
* `McpInvariant` of `McpSession`: what the drain has taken is what was written less
  what is on its way, a truncation is remembered, and nobody writes when the end
  has been seen by itself. Hence `DiagnosticsAreComplete` and `ProvenResults`.
* `FetchInvariant` of `AdapterCalls`: what the reader has is the beginning of what
  the source sent, and more than the limit is known as such. Hence
  `ProvenAnswers`.
* `PagesInvariant` of `Pages`: the caps hold; and page `n` of what is kept is page `n`
  of the chain and the next request is the one after the last kept page, unless a page
  failed or a token or URL that a probe left in the profile was followed (`Astray`).
  Hence `PrefetchesAPrefix`.

* `SourceInvariant` of `SourceState`: every capture's token, if it is of any use,
  names the version (or the second of the edit) there was at the source, and a
  confirmation comes only from a token; errors may carry validators like any
  answer. Hence `ConfirmedMeansUnchanged`.
* `ComparisonAccounts` (`RecordsAreAccounted`): the pairs of a comparison are
  one-to-one because its key tells records apart on both sides, so the counts of
  changed, same, added and removed add up; where redaction made two different
  records the same text, it is reported.
* `ViewsAlike` (`ViewsAgree` of `Redaction`), for all pieces a command may write and
  however its streams alternate: both views are compared with one that depends on
  neither. `KeptTo` keeps a text position by position, a marker for each position
  of a range. `SensitiveRangesInOrder`: whatever the scans find, the merged ranges
  are in order and do not overlap, so that a position is in at most one of them.
  The walk over a fragment, what was before it included, is at each turn `Alike`
  to `KeptTo` its cursor (`InWalk`, `WalkTurns`), also where a range comes out of
  the fragment before or goes on in the next, for the ranges before the next one
  end where the fragment starts and no later (`IsNext`); `Alike` texts differ in
  how many markers are next to each other. So is one fragment after the other
  (`PartsWalked`), and hence any two ways to cut a text (`FragmentsKeepTheText`).
* `DeltaInvariant` of `Delta`: a capture records what its run gives and a report
  compares two captures as they are. Hence `ResolvedMeansRanAgain`, whichever
  provider read the output and whatever was lost between the two runs.
* `AnswersHideNothing` (`NothingIsHiddenSilently` of `Disclosure`), for every
  payload, selection, policy, budget and whatever else an answer carries. Its
  first half is `ProjectCovers`: at each turn of a projection, every place of the
  tree either has a path that is shown or under a region named so far, or it is
  below a node that is left to draw (`Accounted`). A turn keeps that whatever it
  meets, a string cut off, a list too long, a level too deep, the budget of nodes
  used up (`DrawNodeCovers`, `DrawnCoversOrLeaves`, `DrawFirstAccounts`), and each
  turn uses either the budget or what is left (`StepsLeft`, `DrawFirstUses`), so
  that after `MostDrawn` turns nothing is. Its second half is
  `SurrenderedInOrder`: after the `i`th step of the second ladder an answer that
  is still too large has nothing of what the first `i` steps give up (`Gone`), so
  findings go when nothing else is there, and every loss is said (`Kept`).
  `DisclosureInvariant` puts the halves together: an answer `IsSound` whether a
  rung fitted, the last was compacted, or a recipe compacted it again.
* `CompleteDerivations` (`CompleteMissesNothing` of `Findings`), for every payload
  and bounds: two pieces of code count the nodes of a payload, and the one that
  says "complete" must not count less than the one that stops. At each turn of the
  traversal every string of the payload is reported, in a copy of what is
  reported, or in what is left to visit (`Settled`); what is left are places apart
  from each other and from those taken (`AllApart`, `Untaken`), so no place is
  counted twice; and the count so far is at most the size of what was taken
  (`WalkInv`). A derivation `IsWhole` if its size is within the bound, and then
  there is room for each place that was not taken (`RoomIsLeft`), so that no line
  of a text and no field is met with the bound reached (`TurnSettles`); after as
  many turns as there are places nothing is left.
* `SearchesAccount` (`NavigationAccounts` of `Navigation`), for every payload, scope,
  question and bounds. A search, a listing and a derivation go through a tree alike:
  a turn gives up all that is below a node, and says so, or leaves what is below it
  to the next ones (`Goes`); so of every place it is done with it or it is ahead, and
  after as many turns as there are places none is ahead (`GoesOn`, `WalkEnds`,
  `SearchHits`, `ListsAll`). A find joins a search of what is at a path with the
  findings derived from there, while it is the whole payload whose derivation is
  complete: what is at a path is at that depth of the payload (`NodesAtPlaces`), so
  its places are some of the payload's, within the same bounds (`PartOfPayload`).
  Nothing that is asked for is then without its finding (`AskedFound`). Of the
  findings, which are finitely many (`RankedFinite`), there are always the foremost
  (`ForemostExist`), so an inspection that shows fewer than its limit shows them all
  (`FewerAreAll`).
* `CoverageInvariant` of `Coverage`: the `n`th record a reader has is the one with
  `n - 1` matching records before it, and the offset it goes on with is the
  number it has (`ReadSoFar`); what the events of the trail count for a cursor was
  given to it or had a place in an answer to it (`TrailIsTrue`). `PositionFacts` says that the positions of the
  matching records are 0, 1, 2 and so on, without gaps. Hence `PagesCover` and
  `CoverageNeverOvercounts`.

`StoreProofs` proves once per transaction that it keeps `StoreInv`;
`CaptureProofs` has one lemma per action, a frame lemma (`StepOfCommand`) for
the processes that do not move — none of them is between two transactions,
because the mover holds or takes the handle — and a final case split. The other
proof modules are laid out alike: what each operator returns, one lemma per
action, the invariant, what follows from it.

*Induction.* Facts about all subsets of a finite set (that the equations of a
fold determine it, that a nonempty set of numbers has a least element) are
proved in `FoldLemmas` from a least counterexample, since no induction theorem
with an operator parameter can be used. So that a fold can be reasoned about,
`InChunks` of `CommandRun` sums a function over a set, `FirstIn` of `RecordDelta`
asks `SelectInSeq` for the first match, `Page` of `Coverage` asks for the record at
a position, and completions, scopes and validities
in `TestRuns`, `Delta` and `SourceState` choose by `IF` in the code's order.

*Assumptions.* The named `ASSUME`s of the modules, which TLC evaluates in the
runs: typing of the constants; `None` is not a value of the types it completes;
the forms of answers a source may give (`SourceState`), of the requests and
payloads to compare (`RecordDelta`: a collection is a list of records, paths are
listed) and to read (`Coverage`: a collection is an array), the
strategies a source may page by (`Pages`), and that what a command writes are
sequences of the tokens there are (`Redaction`).
`Disclosure` and `Findings` take the nodes of payloads as a set that has the
children of each, under keys of their own (`NodesAssumption`), of trees with at
most `Deepest` levels (serde_json reads no more than 128), and what is selected
and derived from as some of them (`SelectionsAssumption`, `FindingsAssumption`);
in the run they are the stored payloads, what `Selection` selects of each
document, and all below. `FindingsAssumption` has `MaxDepth < Deepest`: the depth
at which a derivation gives up is one a payload can have, and so
`NavigationAssumption` of searches and listings. `DeltaAssumption` says of
runs what is true of them outside of prog: a run has a population, and a check
that declares its scopes looks at those and no other (a declaration that is not
true is not prog's to find out). `FreshCursorsAreGood` needs `TTL > 0`.

*Only model-checked.* All liveness, which is beyond this prover:
`EveryUpdateEnds`, `HandleReturns`, `AskingEnds`, `CommandsEnd`, `ExchangesEnd`,
`CapturesEnd`. And two invariants. `RedactedStaysEvidence` needs that the scans of a redacted text find a name whose
value is there again, in spite of the quotes that markers were wrapped in and of what
was taken out next to it.
`LearningForgetsOrder` is about a join that recurses over the fields and items of
shapes. Every other invariant and action property of the passing runs is a theorem.

`EntriesBacked`, `EvidenceBacked`, `IntentsAreDeclared` and the inductive
invariants `ProfileInv`, `RInv`, `CInv`, `HistoryInv`, `QuotaInv`, `LocksInv`,
`McpInv`, `FetchInv`, `PagesInv`, `SourceInv`, `DeltaInv`, `CoverageInv` and `DisclosureInvariant` are proved and no run
names them: some are parts of what `IInv` and `PassInv` say, which runs check, the
others stand behind properties that runs check, and held in those runs when they
were added as invariants.

## 6. Not modelled

The content of JSON payloads, except for what a property tells apart; the
patterns of vendors' tokens, escapes in text; rendering and argument parsing;
the protocols of HTTP and MCP below their requests; file-system failures other
than a process's death (a full disk, an fsync that lies); redb itself, taken as
atomic durable transactions. `Trust` has one operation per source and leaves out
the effects of MCP resources and prompts. The wording of hints, files and logs
that are observed, hooks and receipts, the update of the binary, generated
configuration and the identity of the workspace are not modelled; their
components in `PROJECT.json` say why. The parts of `Sources` and of `Evidence`
are not composed with each other or with `CaptureProcesses`.

## 7. Plan

1. Proofs about shapes and redacted texts. `LearningForgetsOrder` needs an
   induction over a shape's fields and items, which the join as turns over a
   sequence of places would allow, as in `Findings` and `Disclosure`.
   `RedactedStaysEvidence` needs a lemma on what the scans do with a text that has
   markers for the values they found in it.
2. What `Readiness` leaves out: obligations that compare an origin with their
   evidence, now that `Delta` says what a comparison may claim, and the stop gate
   that reads the report.
3. `Update`, `Observe`, the schema reset of the store at open.
