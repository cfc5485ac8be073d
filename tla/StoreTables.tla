---------------------------- MODULE StoreTables ----------------------------
(***************************************************************************)
(* The persistent tables of the evidence store (crates/prog-core/src/      *)
(* store.rs) as one value, and every write transaction on them as an       *)
(* operator that maps a store to the store the transaction commits.  The   *)
(* database commits one transaction atomically, so an operator here is the *)
(* unit a crash cannot split; a handler that commits several of them is a  *)
(* sequence of actions in the modules that use this one.                   *)
(*                                                                         *)
(* A payload is its content hash.  Times are seconds.  Identifiers are     *)
(* issued in increasing order: the UUIDs of the code are never reused, and *)
(* the numbers that stand for them are not either, even after a purge.     *)
(***************************************************************************)
EXTENDS Naturals, FiniteSetsExt

CONSTANTS
    Key,             \* cache keys: one per source-call identity
    Hash,            \* content hashes of redacted payloads
    Source,          \* source ids
    Invocation,      \* invocation fingerprints
    MaxObservation,  \* bound: how many observations may be recorded
    MaxToken,        \* bound: how many cursor tokens may be minted
    Size,            \* Size[h]: bytes of the payload with hash h
    None             \* an absent row, identifier or limit

ObservationId == 1 .. MaxObservation
Token == 1 .. MaxToken

ASSUME HashAssumption == Hash \subseteq Nat
ASSUME SizeAssumption == Size \in [Hash -> Nat]
ASSUME BoundAssumption == MaxObservation \in Nat /\ MaxToken \in Nat

(* EvidenceAvailability.  The Live states are the ones both retention     *)
(* paths may still downgrade.                                              *)
Live == {"recoverable", "capture_truncated", "redacted"}
Availability == Live \cup {"expired", "metadata_only", "unavailable"}

Maybe(S) == S \cup {None}

(* Rows.  An entry's observation and a cursor's observation are optional  *)
(* in the code too; `failed` is the received_error mark of its provenance.   *)
(* `shown` is not in the code: it remembers the payload the command that    *)
(* minted the cursor had just shown to its caller.                         *)
Entry == [hash : Hash, source : Source, observation : Maybe(ObservationId),
          created : Nat, expires : Nat, failed : BOOLEAN]
Cursor == [key : Key, source : Source, observation : Maybe(ObservationId),
           expires : Nat, shown : Hash]
Observation == [hash : Hash, availability : Availability,
                invocation : Invocation,
                supersedes : Maybe(ObservationId),
                revalidates : Maybe(ObservationId)]
Budget == [maxBytes : Maybe(Nat), maxAge : Maybe(Nat)]
ASSUME NoneAssumption ==
    /\ None \notin Nat /\ None \notin Key /\ None \notin Invocation
    /\ None \notin Entry /\ None \notin Cursor /\ None \notin Observation

Unbounded == [maxBytes |-> None, maxAge |-> None]

Store == [payloads : SUBSET Hash,
          entries : [Key -> Maybe(Entry)],
          cursors : [Token -> Maybe(Cursor)],
          observations : [ObservationId -> Maybe(Observation)],
          invocationLatest : [Invocation -> Maybe(ObservationId)],
          latest : Maybe(ObservationId),
          budget : Budget,
          observationsIssued : 0 .. MaxObservation,
          tokensIssued : 0 .. MaxToken]

EmptyStore ==
    [payloads |-> {},
     entries |-> [k \in Key |-> None],
     cursors |-> [t \in Token |-> None],
     observations |-> [o \in ObservationId |-> None],
     invocationLatest |-> [i \in Invocation |-> None],
     latest |-> None,
     budget |-> Unbounded,
     observationsIssued |-> 0,
     tokensIssued |-> 0]

-----------------------------------------------------------------------------
(* Reads.                                                                  *)

Unexpired(row, now) == row # None /\ row.expires > now

\* get_entry: the entry of k unless it has expired.
EntryAt(d, k, now) ==
    IF Unexpired(d.entries[k], now) THEN d.entries[k] ELSE None

EntriesOf(d, h) == {k \in Key : d.entries[k] # None /\ d.entries[k].hash = h}

\* Faulty variant: the cursor is resolved through its key alone.
ResolveByKey(d, t, now) ==
    LET c == d.cursors[t]
        e == IF c = None THEN None ELSE EntryAt(d, c.key, now)
    IN  IF Unexpired(c, now) /\ e # None /\ e.hash \in d.payloads
        THEN e.hash ELSE None

\* The cursors' payload as cursor_context and expand_cursor resolve it: the
\* cursor's own observation when it names one, else the entry of its key.
\* None stands for the errors, all of which fail closed.
Resolve(d, t, now) ==
    LET c == d.cursors[t]
        e == IF c = None THEN None ELSE EntryAt(d, c.key, now)
        own == IF c = None \/ c.observation = None THEN None
               ELSE d.observations[c.observation]
        h == IF e = None THEN None ELSE IF own = None THEN e.hash ELSE own.hash
    IN  IF Unexpired(c, now) /\ h \in d.payloads THEN h ELSE None

-----------------------------------------------------------------------------
(* Capture transactions.                                                   *)

PutPayload(d, h) == [d EXCEPT !.payloads = @ \cup {h}]

\* Faulty variants: the invocation's pointer is not advanced; the link is to
\* whatever was recorded last.
RecordUnlinked(d, h, availability, i, revalidates) ==
    LET o == d.observationsIssued + 1
    IN  [d EXCEPT !.observations[o] =
                        [hash |-> h, availability |-> availability,
                         invocation |-> i,
                         supersedes |-> d.invocationLatest[i],
                         revalidates |-> revalidates],
                  !.latest = o, !.observationsIssued = o]

RecordAfterLatest(d, h, availability, i, revalidates) ==
    LET o == d.observationsIssued + 1
    IN  [d EXCEPT !.observations[o] =
                        [hash |-> h, availability |-> availability,
                         invocation |-> i, supersedes |-> d.latest,
                         revalidates |-> revalidates],
                  !.latest = o, !.observationsIssued = o]

\* record_observation: the observation is linked to the previous capture of
\* its invocation inside the transaction that records it.
RecordObservation(d, h, availability, i, revalidates) ==
    LET o == d.observationsIssued + 1
    IN  [d EXCEPT !.observations[o] =
                        [hash |-> h, availability |-> availability,
                         invocation |-> i,
                         supersedes |-> d.invocationLatest[i],
                         revalidates |-> revalidates],
                  !.invocationLatest[i] = o,
                  !.latest = o,
                  !.observationsIssued = o]

\* record_capture: a capture whose payload is gone is recorded unavailable.
RecordCapture(d, h, availability, i) ==
    RecordObservation(d, h,
        IF availability = "metadata_only" \/ h \in d.payloads
        THEN availability ELSE "unavailable",
        i, None)

PutEntryRow(d, k, e) == [d EXCEPT !.entries[k] = e]

SetBudget(d, b) == [d EXCEPT !.budget = b]

-----------------------------------------------------------------------------
(* Retention transactions.                                                 *)

\* The observations of d with those of `affected` that are still live set to
\* `availability`.
Downgrade(d, affected, availability) ==
    [o \in ObservationId |->
        IF /\ d.observations[o] # None
           /\ d.observations[o].availability \in Live
           /\ o \in affected
        THEN [d.observations[o] EXCEPT !.availability = availability]
        ELSE d.observations[o]]

\* The observations that name one of the payloads.
Naming(d, hashes) ==
    {o \in ObservationId : /\ d.observations[o] # None
                           /\ d.observations[o].hash \in hashes}

\* mark_observations_expired: only while the payload is still stored.
MarkExpired(d, ids) ==
    [d EXCEPT !.observations =
                Downgrade(d, ids \cap Naming(d, d.payloads), "expired")]

\* mark_payloads_metadata_only
MetadataOnly(d, hashes) == Downgrade(d, Naming(d, hashes), "metadata_only")

WithoutEntries(d, keys) ==
    [k \in Key |-> IF k \in keys THEN None ELSE d.entries[k]]

\* retain_cursors: drops the cursors of the keys and those of the sources.
WithoutCursors(d, keys, sources) ==
    [t \in Token |->
        IF d.cursors[t] # None
           /\ (d.cursors[t].key \in keys \/ d.cursors[t].source \in sources)
        THEN None ELSE d.cursors[t]]

ReferencedBy(d, keys) ==
    {d.entries[k].hash : k \in {j \in keys : d.entries[j] # None}}

\* Faulty variant: payloads are not reference-counted.
PurgeUncounted(d, keys, sources) ==
    [d EXCEPT !.entries = WithoutEntries(d, keys),
              !.payloads = @ \ ReferencedBy(d, keys),
              !.cursors = WithoutCursors(d, keys, sources),
              !.observations = MetadataOnly(d, ReferencedBy(d, keys))]

\* purge_entries_and_cursors: a payload goes with the entries only when no
\* surviving entry shares it.
PurgeEntries(d, keys, sources) ==
    LET orphaned == ReferencedBy(d, keys) \ ReferencedBy(d, Key \ keys)
    IN  [d EXCEPT !.entries = WithoutEntries(d, keys),
                  !.payloads = @ \ orphaned,
                  !.cursors = WithoutCursors(d, keys, sources),
                  !.observations = MetadataOnly(d, orphaned)]

\* purge_all keeps the retention policy and the issued identifiers' history.
PurgeAll(d) ==
    [EmptyStore EXCEPT !.budget = d.budget,
                       !.observationsIssued = d.observationsIssued,
                       !.tokensIssued = d.tokensIssued]

ExpiredKeys(d, now) ==
    {k \in Key : d.entries[k] # None /\ d.entries[k].expires <= now}

\* entries_created_at_or_before the cutoff now - maxAge
AgedKeys(d, now, maxAge) ==
    {k \in Key : d.entries[k] # None /\ d.entries[k].created + maxAge <= now}

ObservationsOf(d, keys) ==
    {d.entries[k].observation : k \in {j \in keys : d.entries[j] # None}}
        \ {None}

SourceKeys(d, s) ==
    {k \in Key : d.entries[k] # None /\ d.entries[k].source = s}

-----------------------------------------------------------------------------
(* The payload quota.                                                      *)

Bytes(hashes) == MapThenSumSet(LAMBDA h : Size[h], hashes)

\* The creation second of the newest entry that holds h.  The code compares
\* an empty timestamp when no entry does; clocks that start at 1 keep 0 for it.
NewestUse(d, h) ==
    IF EntriesOf(d, h) = {} THEN 0
    ELSE Max({d.entries[k].created : k \in EntriesOf(d, h)})

\* The order of eviction: oldest newest use first, then by hash.
EvictedBefore(d, g, h) ==
    \/ NewestUse(d, g) < NewestUse(d, h)
    \/ NewestUse(d, g) = NewestUse(d, h) /\ g < h

\* Faulty variant: payloads no entry refers to do not count.
EvictedByReferencedBytes(d, maxBytes) ==
    {h \in d.payloads :
        Bytes({g \in d.payloads : EntriesOf(d, g) # {}
                                  /\ ~EvictedBefore(d, g, h)}) > maxBytes}

\* The loop stops at the first payload that finds the rest within the quota.
EvictedByQuota(d, maxBytes) ==
    {h \in d.payloads :
        Bytes({g \in d.payloads : ~EvictedBefore(d, g, h)}) > maxBytes}

\* Faulty variant: the observations are not downgraded.
EvictSilently(d, maxBytes) ==
    LET evicted == EvictedByQuota(d, maxBytes)
        keys == UNION {EntriesOf(d, h) : h \in evicted}
    IN  [d EXCEPT !.entries = WithoutEntries(d, keys),
                  !.payloads = @ \ evicted,
                  !.cursors = WithoutCursors(d, keys, {})]

\* enforce_payload_quota: each evicted payload takes the entries that hold it,
\* their cursors and the availability of every observation that names it.
EnforceQuota(d, maxBytes) ==
    LET evicted == EvictedByQuota(d, maxBytes)
        keys == UNION {EntriesOf(d, h) : h \in evicted}
    IN  [d EXCEPT !.entries = WithoutEntries(d, keys),
                  !.payloads = @ \ evicted,
                  !.cursors = WithoutCursors(d, keys, {}),
                  !.observations = MetadataOnly(d, evicted)]

-----------------------------------------------------------------------------
(* Lookups that write: an expired row marks its observation.               *)

\* get_entry_at
LookUpEntry(d, k, now) ==
    IF d.entries[k] # None /\ ~Unexpired(d.entries[k], now)
    THEN MarkExpired(d, {d.entries[k].observation} \ {None})
    ELSE d

\* get_cursor_at
LookUpCursor(d, t, now) ==
    IF d.cursors[t] # None /\ ~Unexpired(d.cursors[t], now)
    THEN MarkExpired(d, {d.cursors[t].observation} \ {None})
    ELSE d

\* Faulty variant: the cursor is bound to whatever was recorded last.
CreateCursorForLatest(d, k, s, now, ttl, shown) ==
    LET t == d.tokensIssued + 1
    IN  [LookUpEntry(d, k, now) EXCEPT
            !.cursors[t] =
                [key |-> k, source |-> s, observation |-> d.latest,
                 expires |-> now + ttl, shown |-> shown],
            !.tokensIssued = t]

\* create_cursor_with_extra: the cursor is bound to the observation of the
\* unexpired entry of its key, and to none when that entry has expired.  (A
\* crash between the lookup's mark and the cursor's row leaves what another
\* lookup of the key would leave.)
CreateCursor(d, k, s, now, ttl, shown) ==
    LET e == EntryAt(d, k, now)
        t == d.tokensIssued + 1
    IN  [LookUpEntry(d, k, now) EXCEPT
            !.cursors[t] =
                [key |-> k, source |-> s,
                 observation |-> IF e = None THEN None ELSE e.observation,
                 expires |-> now + ttl, shown |-> shown],
            !.tokensIssued = t]

-----------------------------------------------------------------------------
(* What every committed store satisfies; no transaction may break it.      *)

\* The observation o is a capture of the payload h.
Captures(d, o, h) ==
    o # None /\ d.observations[o] # None /\ d.observations[o].hash = h

EntryBacked(d, e) == e.hash \in d.payloads /\ Captures(d, e.observation, e.hash)

AllEntriesBacked(d) ==
    \A k \in Key : d.entries[k] # None => EntryBacked(d, d.entries[k])

AllEvidenceBacked(d) ==
    \A o \in ObservationId :
        /\ d.observations[o] # None
        /\ d.observations[o].availability \in Live
        => d.observations[o].hash \in d.payloads

\* A bound cursor names a capture of the payload its caller was shown.
CursorsBound(d) ==
    \A t \in Token :
        /\ d.cursors[t] # None
        /\ d.cursors[t].observation # None
        => Captures(d, d.cursors[t].observation, d.cursors[t].shown)

\* Identifiers are fresh: nothing is recorded under one not yet issued.
IdentifiersFresh(d) ==
    \A o \in ObservationId :
        d.observations[o] # None => o <= d.observationsIssued

StoreInv(d) == /\ d \in Store
               /\ IdentifiersFresh(d)
               /\ AllEntriesBacked(d)
               /\ AllEvidenceBacked(d)
               /\ CursorsBound(d)

\* The pointer of an invocation is its newest capture.
PointersHold(d) ==
    /\ \A i \in Invocation : d.invocationLatest[i] # None =>
          LET last == d.observations[d.invocationLatest[i]]
          IN  last # None /\ last.invocation = i
    /\ \A o \in ObservationId : d.observations[o] # None =>
          LET last == d.invocationLatest[d.observations[o].invocation]
          IN  last # None /\ o <= last

\* An observation supersedes an older one of its invocation, and one at least
\* as late as every older one.
LinksHold(d) ==
    \A o \in ObservationId : d.observations[o] # None =>
        LET before == d.observations[o].supersedes
            i == d.observations[o].invocation
        IN  /\ before # None => /\ before < o
                                /\ d.observations[before] # None
                                /\ d.observations[before].invocation = i
            /\ \A q \in ObservationId :
                  /\ d.observations[q] # None
                  /\ d.observations[q].invocation = i /\ q < o
                  => before # None /\ q <= before

HistoryHolds(d) == PointersHold(d) /\ LinksHold(d)

\* No entry was created after the time.
CreatedBy(d, time) ==
    \A k \in Key : d.entries[k] # None => d.entries[k].created <= time
============================================================================
