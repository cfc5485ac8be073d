----------------------------- MODULE StoreProofs -----------------------------
(***************************************************************************)
(* Every transaction of the store preserves StoreInv, whatever keys, hash  *)
(* sizes, sources and bounds: entries stay backed by their payload and by  *)
(* an observation of it, evidence that is claimed stays stored, and bound  *)
(* cursors stay bound to a capture of what their caller was shown.         *)
(***************************************************************************)
EXTENDS StoreTables, FoldLemmas

\* The fields of a store have their types.
LEMMA StoreFields ==
    ASSUME NEW d \in Store
    PROVE  /\ d.payloads \in SUBSET Hash
           /\ d.entries \in [Key -> Maybe(Entry)]
           /\ d.cursors \in [Token -> Maybe(Cursor)]
           /\ d.observations \in [ObservationId -> Maybe(Observation)]
           /\ d.invocationLatest \in [Invocation -> Maybe(ObservationId)]
           /\ d.latest \in Maybe(ObservationId)
           /\ d.budget \in Budget
           /\ d.observationsIssued \in 0 .. MaxObservation
           /\ d.tokensIssued \in 0 .. MaxToken
  BY DEF Store

\* The empty store.
LEMMA EmptyStoreInv == StoreInv(EmptyStore)
  <1>1. EmptyStore \in Store
    <2>1. Unbounded \in Budget
      BY DEF Unbounded, Budget, Maybe
    <2>2. 0 \in 0 .. MaxObservation /\ 0 \in 0 .. MaxToken
      BY BoundAssumption
    <2> QED  BY <2>1, <2>2 DEF EmptyStore, Store, Maybe
  <1>2. /\ \A k \in Key : EmptyStore.entries[k] = None
        /\ \A t \in Token : EmptyStore.cursors[t] = None
        /\ \A o \in ObservationId : EmptyStore.observations[o] = None
    BY DEF EmptyStore
  <1> QED
    BY <1>1, <1>2
    DEF StoreInv, IdentifiersFresh, AllEntriesBacked, AllEvidenceBacked,
        CursorsBound

-----------------------------------------------------------------------------
(* Transactions that only take away.                                       *)

\* e has no row that d has not, and no observation of e claims more.
Weakens(d, e) ==
    /\ \A k \in Key : e.entries[k] \in {None, d.entries[k]}
    /\ \A t \in Token : e.cursors[t] \in {None, d.cursors[t]}
    /\ \A o \in ObservationId :
          /\ (e.observations[o] = None) <=> (d.observations[o] = None)
          /\ d.observations[o] # None =>
                /\ e.observations[o].hash = d.observations[o].hash
                /\ e.observations[o].availability \in Live =>
                      /\ d.observations[o].availability \in Live
                      /\ d.observations[o].hash \in e.payloads
    /\ \A k \in Key : e.entries[k] # None => e.entries[k].hash \in e.payloads
    /\ e.observationsIssued = d.observationsIssued

\* A store that is weaker than a good one is good.
LEMMA WeakerIsGood ==
    ASSUME NEW d, StoreInv(d), NEW e \in Store,
           IdentifiersFresh(d), Weakens(d, e)
    PROVE  StoreInv(e)
  <1>1. IdentifiersFresh(e)
    BY DEF IdentifiersFresh, Weakens
  <1>2. \A o, h : o \in ObservationId /\ Captures(d, o, h) => Captures(e, o, h)
    BY DEF Captures, Weakens
  <1>3. AllEntriesBacked(e)
    BY <1>2, StoreFields, NoneAssumption
    DEF StoreInv, AllEntriesBacked, EntryBacked, Captures, Weakens, Maybe, Entry
  <1>4. AllEvidenceBacked(e)
    BY DEF AllEvidenceBacked, Weakens
  <1>5. CursorsBound(e)
    BY <1>2, StoreFields DEF StoreInv, CursorsBound, Weakens, Maybe, Cursor
  <1> QED  BY <1>1, <1>3, <1>4, <1>5 DEF StoreInv

\* Downgrading rewrites availabilities only, and only of live observations.
LEMMA DowngradeWeakens ==
    ASSUME NEW d \in Store, NEW affected,
           NEW availability \in {"expired", "metadata_only"}
    PROVE  LET after == Downgrade(d, affected, availability) IN
           /\ after \in [ObservationId -> Maybe(Observation)]
           /\ \A o \in ObservationId :
                 /\ (after[o] = None) <=> (d.observations[o] = None)
                 /\ d.observations[o] # None =>
                       /\ after[o].hash = d.observations[o].hash
                       /\ after[o].availability \in Live =>
                             /\ d.observations[o].availability \in Live
                             /\ o \notin affected
  <1> DEFINE after == Downgrade(d, affected, availability)
             down(o) == [d.observations[o] EXCEPT !.availability = availability]
  <1>1. \A o \in ObservationId : d.observations[o] \in Maybe(Observation)
    BY StoreFields
  <1>2. ASSUME NEW o \in ObservationId, d.observations[o] # None
        PROVE  /\ down(o) \in Observation
               /\ down(o).hash = d.observations[o].hash
               /\ down(o).availability \notin Live
    BY <1>1, <1>2 DEF Maybe, Observation, Availability, Live
  <1>3. ASSUME NEW o \in ObservationId
        PROVE  after[o] = IF /\ d.observations[o] # None
                             /\ d.observations[o].availability \in Live
                             /\ o \in affected
                          THEN down(o) ELSE d.observations[o]
    BY Zenon DEF Downgrade
  <1>4. \A o \in ObservationId : after[o] \in Maybe(Observation)
    BY <1>1, <1>2, <1>3, Zenon DEF Maybe
  <1>5. after \in [ObservationId -> Maybe(Observation)]
    BY <1>4, Zenon DEF Downgrade
  <1>6. ASSUME NEW o \in ObservationId
        PROVE  /\ (after[o] = None) <=> (d.observations[o] = None)
               /\ d.observations[o] # None =>
                     /\ after[o].hash = d.observations[o].hash
                     /\ after[o].availability \in Live =>
                           /\ d.observations[o].availability \in Live
                           /\ o \notin affected
    BY <1>2, <1>3, NoneAssumption
  <1> QED  BY <1>5, <1>6

\* MarkExpired, and the lookups that use it.
LEMMA MarkExpiredKeeps ==
    ASSUME NEW d, StoreInv(d), NEW ids
    PROVE  /\ StoreInv(MarkExpired(d, ids))
           /\ MarkExpired(d, ids).entries = d.entries
           /\ MarkExpired(d, ids).payloads = d.payloads
           /\ MarkExpired(d, ids).cursors = d.cursors
           /\ MarkExpired(d, ids).tokensIssued = d.tokensIssued
  <1> DEFINE after == Downgrade(d, ids \cap Naming(d, d.payloads), "expired")
             e == MarkExpired(d, ids)
  <1>0. d \in Store
    BY DEF StoreInv
  <1>1. /\ after \in [ObservationId -> Maybe(Observation)]
        /\ \A o \in ObservationId :
              /\ (after[o] = None) <=> (d.observations[o] = None)
              /\ d.observations[o] # None =>
                    /\ after[o].hash = d.observations[o].hash
                    /\ after[o].availability \in Live =>
                          d.observations[o].availability \in Live
    BY <1>0, DowngradeWeakens
  <1> HIDE DEF after
  <1>2. e = [d EXCEPT !.observations = after]
    BY DEF MarkExpired, after
  <1>3. /\ e \in Store
        /\ e.entries = d.entries /\ e.payloads = d.payloads
        /\ e.cursors = d.cursors /\ e.tokensIssued = d.tokensIssued
        /\ e.observationsIssued = d.observationsIssued
        /\ e.observations = after
    BY <1>0, <1>1, <1>2 DEF Store
  <1>4. Weakens(d, e)
    BY <1>1, <1>3
    DEF Weakens, StoreInv, AllEntriesBacked, EntryBacked, AllEvidenceBacked
  <1>5. StoreInv(e)
    BY <1>3, <1>4, WeakerIsGood DEF StoreInv
  <1> QED  BY <1>3, <1>5

LEMMA LookUpsKeep ==
    ASSUME NEW d, StoreInv(d), NEW now, NEW k, NEW t
    PROVE  /\ StoreInv(LookUpEntry(d, k, now))
           /\ LookUpEntry(d, k, now).entries = d.entries
           /\ LookUpEntry(d, k, now).payloads = d.payloads
           /\ LookUpEntry(d, k, now).cursors = d.cursors
           /\ LookUpEntry(d, k, now).tokensIssued = d.tokensIssued
           /\ StoreInv(LookUpCursor(d, t, now))
           /\ LookUpCursor(d, t, now).cursors = d.cursors
  <1>1. \A ids : /\ StoreInv(MarkExpired(d, ids))
                 /\ MarkExpired(d, ids).entries = d.entries
                 /\ MarkExpired(d, ids).payloads = d.payloads
                 /\ MarkExpired(d, ids).cursors = d.cursors
                 /\ MarkExpired(d, ids).tokensIssued = d.tokensIssued
    BY MarkExpiredKeeps
  <1> QED  BY <1>1, Zenon DEF LookUpEntry, LookUpCursor

\* Removing entries with the payloads no other entry holds, and cursors.
LEMMA RemovalIsGood ==
    ASSUME NEW d, StoreInv(d), NEW keys, NEW hashes, NEW cursorKeys,
           NEW sources, NEW e,
           e = [d EXCEPT !.entries = WithoutEntries(d, keys),
                         !.payloads = @ \ hashes,
                         !.cursors = WithoutCursors(d, cursorKeys, sources),
                         !.observations = MetadataOnly(d, hashes)],
           \A k \in Key : d.entries[k] # None /\ d.entries[k].hash \in hashes
                            => k \in keys
    PROVE  /\ StoreInv(e)
           /\ \A k \in Key : e.entries[k] \in {None, d.entries[k]}
           /\ \A t \in Token : e.cursors[t] \in {None, d.cursors[t]}
  <1>0. d \in Store
    BY DEF StoreInv
  <1> DEFINE entries == WithoutEntries(d, keys)
             cursors == WithoutCursors(d, cursorKeys, sources)
             observations == MetadataOnly(d, hashes)
             payloads == d.payloads \ hashes
  <1>1. /\ entries \in [Key -> Maybe(Entry)]
        /\ \A k \in Key : entries[k] = IF k \in keys THEN None
                                        ELSE d.entries[k]
    BY <1>0, StoreFields DEF WithoutEntries, Maybe
  <1>2. /\ cursors \in [Token -> Maybe(Cursor)]
        /\ \A t \in Token : cursors[t] \in {None, d.cursors[t]}
    BY <1>0, StoreFields DEF WithoutCursors, Maybe
  <1>3. /\ observations \in [ObservationId -> Maybe(Observation)]
        /\ \A o \in ObservationId :
              /\ (observations[o] = None) <=> (d.observations[o] = None)
              /\ d.observations[o] # None =>
                    /\ observations[o].hash = d.observations[o].hash
                    /\ observations[o].availability \in Live =>
                          /\ d.observations[o].availability \in Live
                          /\ d.observations[o].hash \notin hashes
    BY <1>0, DowngradeWeakens DEF MetadataOnly, Naming
  <1>4. payloads \in SUBSET Hash
    BY <1>0, StoreFields
  <1> HIDE DEF entries, cursors, observations, payloads
  <1>5. /\ e \in Store
        /\ e.entries = entries /\ e.payloads = payloads
        /\ e.cursors = cursors /\ e.observations = observations
        /\ e.observationsIssued = d.observationsIssued
    <2> DEFINE f == [d EXCEPT !.entries = entries, !.payloads = payloads,
                              !.cursors = cursors,
                              !.observations = observations]
    <2>1. e = f
      BY Zenon DEF entries, cursors, observations, payloads
    <2>2. /\ f \in Store
          /\ f.entries = entries /\ f.payloads = payloads
          /\ f.cursors = cursors /\ f.observations = observations
          /\ f.observationsIssued = d.observationsIssued
      BY <1>0, <1>1, <1>2, <1>3, <1>4 DEF Store
    <2> QED  BY <2>1, <2>2, Zenon
  <1>6. \A k \in Key : e.entries[k] # None => e.entries[k].hash \in e.payloads
    BY <1>1, <1>5 DEF StoreInv, AllEntriesBacked, EntryBacked, payloads
  <1>7. \A o \in ObservationId :
           /\ d.observations[o] # None
           /\ e.observations[o].availability \in Live
           => d.observations[o].hash \in e.payloads
    BY <1>3, <1>5 DEF StoreInv, AllEvidenceBacked, payloads
  <1>8. Weakens(d, e)
    BY <1>1, <1>2, <1>3, <1>5, <1>6, <1>7 DEF Weakens
  <1>9. StoreInv(e)
    BY <1>5, <1>8, WeakerIsGood DEF StoreInv
  <1> QED  BY <1>8, <1>9 DEF Weakens

\* The purges and the eviction.
LEMMA PurgeEntriesKeeps ==
    ASSUME NEW d, StoreInv(d), NEW keys \in SUBSET Key, NEW sources
    PROVE  LET e == PurgeEntries(d, keys, sources) IN
           /\ StoreInv(e)
           /\ \A k \in Key : e.entries[k] \in {None, d.entries[k]}
           /\ \A t \in Token : e.cursors[t] \in {None, d.cursors[t]}
  <1> DEFINE orphaned == ReferencedBy(d, keys) \ ReferencedBy(d, Key \ keys)
             e == PurgeEntries(d, keys, sources)
  <1>1. \A k \in Key : d.entries[k] # None /\ d.entries[k].hash \in orphaned
                        => k \in keys
    BY DEF ReferencedBy
  <1> HIDE DEF orphaned
  <1>2. e = [d EXCEPT !.entries = WithoutEntries(d, keys),
                      !.payloads = @ \ orphaned,
                      !.cursors = WithoutCursors(d, keys, sources),
                      !.observations = MetadataOnly(d, orphaned)]
    BY Zenon DEF PurgeEntries, orphaned
  <1> HIDE DEF e
  <1>3. /\ StoreInv(e)
        /\ \A k \in Key : e.entries[k] \in {None, d.entries[k]}
        /\ \A t \in Token : e.cursors[t] \in {None, d.cursors[t]}
    BY <1>1, <1>2, RemovalIsGood, ZenonT(60)
  <1> QED  BY <1>3 DEF e

LEMMA EnforceQuotaKeeps ==
    ASSUME NEW d, StoreInv(d), NEW maxBytes
    PROVE  LET e == EnforceQuota(d, maxBytes) IN
           /\ StoreInv(e)
           /\ \A k \in Key : e.entries[k] \in {None, d.entries[k]}
           /\ \A t \in Token : e.cursors[t] \in {None, d.cursors[t]}
  <1> DEFINE evicted == EvictedByQuota(d, maxBytes)
             keys == UNION {EntriesOf(d, h) : h \in evicted}
             e == EnforceQuota(d, maxBytes)
  <1> HIDE DEF evicted
  <1>1. \A k \in Key : d.entries[k] # None /\ d.entries[k].hash \in evicted
                        => k \in keys
    BY DEF EntriesOf
  <1> HIDE DEF keys
  <1>2. e = [d EXCEPT !.entries = WithoutEntries(d, keys),
                      !.payloads = @ \ evicted,
                      !.cursors = WithoutCursors(d, keys, {}),
                      !.observations = MetadataOnly(d, evicted)]
    BY Zenon DEF EnforceQuota, evicted, keys
  <1> HIDE DEF e
  <1>3. /\ StoreInv(e)
        /\ \A k \in Key : e.entries[k] \in {None, d.entries[k]}
        /\ \A t \in Token : e.cursors[t] \in {None, d.cursors[t]}
    BY <1>1, <1>2, RemovalIsGood, ZenonT(60)
  <1> QED  BY <1>3 DEF e

LEMMA PurgeAllKeeps ==
    ASSUME NEW d, StoreInv(d)
    PROVE  /\ StoreInv(PurgeAll(d))
           /\ \A t \in Token : PurgeAll(d).cursors[t] = None
  <1> DEFINE e == PurgeAll(d)
  <1>1. /\ d.budget \in Budget
        /\ d.observationsIssued \in 0 .. MaxObservation
        /\ d.tokensIssued \in 0 .. MaxToken
    BY StoreFields DEF StoreInv
  <1>2. EmptyStore \in Store
    BY EmptyStoreInv DEF StoreInv
  <1>3. /\ e \in Store
        /\ e.entries = EmptyStore.entries
        /\ e.cursors = EmptyStore.cursors
        /\ e.observations = EmptyStore.observations
    BY <1>1, <1>2 DEF PurgeAll, Store
  <1>4. /\ \A k \in Key : EmptyStore.entries[k] = None
        /\ \A t \in Token : EmptyStore.cursors[t] = None
        /\ \A o \in ObservationId : EmptyStore.observations[o] = None
    BY DEF EmptyStore
  <1>5. StoreInv(e)
    BY <1>3, <1>4
    DEF StoreInv, IdentifiersFresh, AllEntriesBacked, AllEvidenceBacked,
        CursorsBound
  <1> QED  BY <1>3, <1>4, <1>5

-----------------------------------------------------------------------------
(* Transactions that add.                                                  *)

LEMMA PutPayloadKeeps ==
    ASSUME NEW d, StoreInv(d), NEW h \in Hash
    PROVE  LET e == PutPayload(d, h) IN
           /\ StoreInv(e)
           /\ h \in e.payloads
           /\ e.cursors = d.cursors
  <1> DEFINE payloads == d.payloads \cup {h}
             e == [d EXCEPT !.payloads = payloads]
  <1>1. d \in Store /\ payloads \in SUBSET Hash
    BY StoreFields DEF StoreInv
  <1> HIDE DEF payloads
  <1>2. /\ e \in Store /\ e.payloads = payloads
        /\ e.entries = d.entries /\ e.cursors = d.cursors
        /\ e.observations = d.observations
        /\ e.observationsIssued = d.observationsIssued
    BY <1>1 DEF Store
  <1> HIDE DEF e
  <1>3. StoreInv(e)
    BY <1>2
    DEF StoreInv, IdentifiersFresh, AllEntriesBacked, AllEvidenceBacked,
        CursorsBound, EntryBacked, Captures, payloads
  <1> QED  BY <1>2, <1>3 DEF PutPayload, e, payloads

\* A capture is recorded under a fresh identifier, so the captures that
\* entries and cursors name stay what they were.
LEMMA RecordObservationKeeps ==
    ASSUME NEW d, StoreInv(d), NEW h \in Hash,
           NEW availability \in Availability, NEW i \in Invocation,
           NEW revalidates \in Maybe(ObservationId),
           availability \in Live => h \in d.payloads,
           d.observationsIssued < MaxObservation
    PROVE  LET e == RecordObservation(d, h, availability, i, revalidates) IN
           /\ StoreInv(e)
           /\ e.latest \in ObservationId /\ Captures(e, e.latest, h)
           /\ e.payloads = d.payloads /\ e.entries = d.entries
           /\ e.cursors = d.cursors
  <1> DEFINE o == d.observationsIssued + 1
             row == [hash |-> h, availability |-> availability,
                     invocation |-> i, supersedes |-> d.invocationLatest[i],
                     revalidates |-> revalidates]
             observations == [d.observations EXCEPT ![o] = row]
             newest == [d.invocationLatest EXCEPT ![i] = o]
             e == [d EXCEPT !.observations = observations,
                            !.invocationLatest = newest,
                            !.latest = o, !.observationsIssued = o]
  <1>1. d \in Store
    BY DEF StoreInv
  <1>2. /\ o \in ObservationId /\ o \in 0 .. MaxObservation
        /\ ~(o <= d.observationsIssued)
        /\ \A q \in ObservationId : q <= d.observationsIssued => q <= o
    BY <1>1, StoreFields, BoundAssumption DEF ObservationId
  <1>3. row \in Observation /\ row.hash = h /\ row.availability = availability
    BY <1>1, StoreFields DEF Observation
  <1>4. d.observations[o] = None
    BY <1>2 DEF StoreInv, IdentifiersFresh
  <1> HIDE DEF o, row
  <1>5. /\ observations \in [ObservationId -> Maybe(Observation)]
        /\ observations[o] = row
        /\ \A q \in ObservationId \ {o} : observations[q] = d.observations[q]
    BY <1>1, <1>2, <1>3, StoreFields DEF Maybe
  <1>6. newest \in [Invocation -> Maybe(ObservationId)]
    BY <1>1, <1>2, StoreFields DEF Maybe
  <1> HIDE DEF observations, newest
  <1>7. o \in Maybe(ObservationId)
    BY <1>2 DEF Maybe
  <1>8. /\ e \in Store /\ e.payloads = d.payloads /\ e.entries = d.entries
        /\ e.cursors = d.cursors /\ e.observations = observations
        /\ e.latest = o /\ e.observationsIssued = o
    BY <1>1, <1>2, <1>5, <1>6, <1>7 DEF Store
  <1>9. e = RecordObservation(d, h, availability, i, revalidates)
    BY Zenon DEF RecordObservation, o, row, observations, newest
  <1> HIDE DEF e
  <1>10. row # None
    BY <1>3, NoneAssumption
  <1>11. \A q, g : Captures(d, q, g) /\ q \in ObservationId => Captures(e, q, g)
    BY <1>4, <1>5, <1>8 DEF Captures
  <1>12. IdentifiersFresh(e)
    BY <1>2, <1>5, <1>8 DEF StoreInv, IdentifiersFresh
  <1>13. AllEntriesBacked(e)
    BY <1>1, <1>8, <1>11, StoreFields, NoneAssumption
    DEF StoreInv, AllEntriesBacked, EntryBacked, Captures, Maybe, Entry
  <1>14. AllEvidenceBacked(e)
    BY <1>3, <1>5, <1>8 DEF StoreInv, AllEvidenceBacked
  <1>15. CursorsBound(e)
    BY <1>1, <1>8, <1>11, StoreFields DEF StoreInv, CursorsBound, Maybe, Cursor
  <1>16. Captures(e, o, h)
    BY <1>2, <1>3, <1>5, <1>8, <1>10, NoneAssumption
    DEF Captures, ObservationId
  <1>17. StoreInv(e)
    BY <1>8, <1>12, <1>13, <1>14, <1>15 DEF StoreInv
  <1> QED  BY <1>2, <1>8, <1>9, <1>16, <1>17

\* record_capture never claims evidence that is not stored.
LEMMA RecordCaptureKeeps ==
    ASSUME NEW d, StoreInv(d), NEW h \in Hash,
           NEW availability \in Live \cup {"metadata_only"},
           NEW i \in Invocation, d.observationsIssued < MaxObservation
    PROVE  LET e == RecordCapture(d, h, availability, i) IN
           /\ StoreInv(e)
           /\ e.latest \in ObservationId /\ Captures(e, e.latest, h)
           /\ e.payloads = d.payloads /\ e.entries = d.entries
           /\ e.cursors = d.cursors
  <1> DEFINE kept == IF availability = "metadata_only" \/ h \in d.payloads
                     THEN availability ELSE "unavailable"
  <1>1. kept \in Availability /\ (kept \in Live => h \in d.payloads)
    BY DEF Availability, Live
  <1>2. None \in Maybe(ObservationId)
    BY DEF Maybe
  <1> HIDE DEF kept
  <1>3. RecordCapture(d, h, availability, i) =
           RecordObservation(d, h, kept, i, None)
    BY Zenon DEF RecordCapture, kept
  <1> QED  BY <1>1, <1>2, <1>3, RecordObservationKeeps

LEMMA PutEntryRowKeeps ==
    ASSUME NEW d, StoreInv(d), NEW k \in Key, NEW row \in Entry,
           EntryBacked(d, row)
    PROVE  LET e == PutEntryRow(d, k, row) IN
           /\ StoreInv(e)
           /\ e.entries[k] = row
           /\ e.cursors = d.cursors
  <1> DEFINE entries == [d.entries EXCEPT ![k] = row]
             e == [d EXCEPT !.entries = entries]
  <1>1. d \in Store
    BY DEF StoreInv
  <1>2. /\ entries \in [Key -> Maybe(Entry)]
        /\ entries[k] = row
        /\ \A j \in Key \ {k} : entries[j] = d.entries[j]
    BY <1>1, StoreFields DEF Maybe
  <1> HIDE DEF entries
  <1>3. /\ e \in Store /\ e.entries = entries
        /\ e.payloads = d.payloads /\ e.cursors = d.cursors
        /\ e.observations = d.observations
        /\ e.observationsIssued = d.observationsIssued
    BY <1>1, <1>2 DEF Store
  <1>4. e = PutEntryRow(d, k, row)
    BY Zenon DEF PutEntryRow, entries
  <1> HIDE DEF e
  <1>5. \A r : EntryBacked(d, r) => EntryBacked(e, r)
    BY <1>3 DEF EntryBacked, Captures
  <1>6. AllEntriesBacked(e)
    BY <1>2, <1>3, <1>5 DEF StoreInv, AllEntriesBacked
  <1>7. StoreInv(e)
    BY <1>3, <1>6
    DEF StoreInv, IdentifiersFresh, AllEvidenceBacked, CursorsBound, Captures
  <1> QED  BY <1>2, <1>3, <1>4, <1>7

LEMMA SetBudgetKeeps ==
    ASSUME NEW d, StoreInv(d), NEW b \in Budget
    PROVE  StoreInv(SetBudget(d, b)) /\ SetBudget(d, b).cursors = d.cursors
  <1> DEFINE e == SetBudget(d, b)
  <1>1. /\ e \in Store /\ e.entries = d.entries
        /\ e.payloads = d.payloads /\ e.cursors = d.cursors
        /\ e.observations = d.observations
        /\ e.observationsIssued = d.observationsIssued
    BY DEF SetBudget, StoreInv, Store
  <1> HIDE DEF e
  <1>2. StoreInv(e)
    BY <1>1
    DEF StoreInv, IdentifiersFresh, AllEntriesBacked, AllEvidenceBacked,
        CursorsBound, EntryBacked, Captures
  <1> QED  BY <1>1, <1>2 DEF e

\* A cursor is minted for what its caller was shown: the payload of the row of
\* its key.  Bound or not, it disturbs nothing else.
LEMMA CreateCursorKeeps ==
    ASSUME NEW d, StoreInv(d), NEW k \in Key, NEW s \in Source, NEW now \in Nat,
           NEW ttl \in Nat, NEW shown \in Hash,
           d.entries[k] # None => d.entries[k].hash = shown,
           d.tokensIssued < MaxToken
    PROVE  LET e == CreateCursor(d, k, s, now, ttl, shown) IN
           /\ StoreInv(e)
           /\ e.payloads = d.payloads /\ e.entries = d.entries
           /\ d.tokensIssued + 1 \in Token
           /\ \A t \in Token \ {d.tokensIssued + 1} :
                 e.cursors[t] = d.cursors[t]
           /\ e.cursors[d.tokensIssued + 1].observation # None =>
                 EntryAt(d, k, now) # None
           /\ e.cursors[d.tokensIssued + 1].key = k
           /\ e.cursors[d.tokensIssued + 1].shown = shown
           /\ e.cursors[d.tokensIssued + 1].expires = now + ttl
  <1> DEFINE f == LookUpEntry(d, k, now)
             t == d.tokensIssued + 1
             found == EntryAt(d, k, now)
             bound == IF found = None THEN None ELSE found.observation
             row == [key |-> k, source |-> s, observation |-> bound,
                     expires |-> now + ttl, shown |-> shown]
             cursors == [f.cursors EXCEPT ![t] = row]
             e == [f EXCEPT !.cursors = cursors, !.tokensIssued = t]
  <1>1. d \in Store
    BY DEF StoreInv
  <1>2. t \in Token /\ t \in 0 .. MaxToken
    BY <1>1, StoreFields, BoundAssumption DEF Token
  <1>3. /\ StoreInv(f) /\ f.entries = d.entries /\ f.payloads = d.payloads
        /\ f.cursors = d.cursors /\ f.tokensIssued = d.tokensIssued
    BY <1>2, LookUpsKeep
  <1>4. /\ bound \in Maybe(ObservationId)
        /\ bound # None => found # None /\ Captures(f, bound, shown)
    <2>1. CASE found = None
      BY <2>1 DEF Maybe
    <2>2. CASE found # None
      <3>1. found = d.entries[k] /\ d.entries[k] # None
        BY <2>2 DEF EntryAt, Unexpired
      <3>2. d.entries[k] \in Entry
        BY <1>1, <3>1, StoreFields DEF Maybe
      <3>3. EntryBacked(f, d.entries[k])
        BY <1>3, <3>1 DEF StoreInv, AllEntriesBacked
      <3> QED  BY <2>2, <3>1, <3>2, <3>3 DEF EntryBacked, Entry
    <2> QED  BY <2>1, <2>2
  <1>5. now + ttl \in Nat
    OBVIOUS
  <1> HIDE DEF f, t, found, bound
  <1>6. row \in Cursor /\ row.observation = bound /\ row.shown = shown
        /\ row.key = k /\ row.expires = now + ttl
    BY <1>4, <1>5 DEF Cursor
  <1> HIDE DEF row
  <1>7. /\ cursors \in [Token -> Maybe(Cursor)]
        /\ cursors[t] = row
        /\ \A u \in Token \ {t} : cursors[u] = d.cursors[u]
    BY <1>1, <1>2, <1>3, <1>6, StoreFields DEF Maybe
  <1> HIDE DEF cursors
  <1>8. f \in Store
    BY <1>3 DEF StoreInv
  <1>9. /\ e \in Store /\ e.cursors = cursors /\ e.entries = f.entries
        /\ e.payloads = f.payloads /\ e.observations = f.observations
        /\ e.observationsIssued = f.observationsIssued
    BY <1>2, <1>7, <1>8 DEF Store
  <1>10. e = CreateCursor(d, k, s, now, ttl, shown)
    BY Zenon DEF CreateCursor, f, t, found, bound, row, cursors
  <1> HIDE DEF e
  <1>11. \A q, g : Captures(f, q, g) => Captures(e, q, g)
    BY <1>9 DEF Captures
  <1>12. CursorsBound(e)
    BY <1>3, <1>4, <1>6, <1>7, <1>9, <1>11 DEF StoreInv, CursorsBound
  <1>13. StoreInv(e)
    BY <1>3, <1>9, <1>11, <1>12
    DEF StoreInv, IdentifiersFresh, AllEntriesBacked, AllEvidenceBacked,
        EntryBacked
  <1> QED
    BY <1>2, <1>3, <1>4, <1>6, <1>7, <1>9, <1>10, <1>13 DEF t, found

-----------------------------------------------------------------------------
(* What a transaction does to the history of the captures.                 *)

\* e has the captures of d with the same links; evidence may have been lost.
SameCaptures(d, e) ==
    /\ \A o \in ObservationId :
          /\ (e.observations[o] = None) <=> (d.observations[o] = None)
          /\ d.observations[o] # None =>
                /\ e.observations[o].hash = d.observations[o].hash
                /\ e.observations[o].invocation = d.observations[o].invocation
                /\ e.observations[o].supersedes = d.observations[o].supersedes
                /\ e.observations[o].revalidates
                      = d.observations[o].revalidates
                /\ e.observations[o].availability \in Live =>
                      d.observations[o].availability \in Live
    /\ e.invocationLatest = d.invocationLatest
    /\ e.observationsIssued = d.observationsIssued

\* Only evidence is lost and cursors dropped.
Forgets(d, e) ==
    /\ SameCaptures(d, e)
    /\ \A t \in Token : e.cursors[t] \in {None, d.cursors[t]}
    /\ e.tokensIssued = d.tokensIssued

\* One cursor is added, under the next token.
Issues(d, e) ==
    /\ SameCaptures(d, e)
    /\ d.tokensIssued + 1 \in Token
    /\ \A t \in Token \ {d.tokensIssued + 1} : e.cursors[t] = d.cursors[t]
    /\ e.cursors[d.tokensIssued + 1] # None
    /\ e.tokensIssued = d.tokensIssued + 1

LEMMA NothingForgets == ASSUME NEW d PROVE Forgets(d, d)
  BY DEF Forgets, SameCaptures

\* Losing evidence changes nothing else of an observation.
LEMMA DowngradeForgets ==
    ASSUME NEW d \in Store, NEW affected,
           NEW availability \in {"expired", "metadata_only"},
           NEW e, e.observations = Downgrade(d, affected, availability),
           \A t \in Token : e.cursors[t] \in {None, d.cursors[t]},
           e.invocationLatest = d.invocationLatest,
           e.observationsIssued = d.observationsIssued,
           e.tokensIssued = d.tokensIssued
    PROVE  Forgets(d, e)
  <1> DEFINE down(o) == [d.observations[o] EXCEPT !.availability = availability]
  <1>1. availability \notin Live
    BY DEF Live
  <1>2. ASSUME NEW o \in ObservationId, d.observations[o] # None
        PROVE  /\ down(o) # None
               /\ down(o).hash = d.observations[o].hash
               /\ down(o).invocation = d.observations[o].invocation
               /\ down(o).supersedes = d.observations[o].supersedes
               /\ down(o).revalidates = d.observations[o].revalidates
               /\ down(o).availability = availability
    <2>1. d.observations[o] \in Observation
      BY <1>2, StoreFields DEF Maybe
    <2>2. down(o) \in Observation
      BY <2>1 DEF Observation, Availability
    <2> QED  BY <2>1, <2>2, NoneAssumption DEF Observation
  <1> HIDE DEF down
  <1>3. \A o \in ObservationId :
           \/ e.observations[o] = d.observations[o]
           \/ d.observations[o] # None /\ e.observations[o] = down(o)
    BY Zenon DEF Downgrade, down
  <1> QED  BY <1>1, <1>2, <1>3 DEF Forgets, SameCaptures

LEMMA MarkExpiredForgets ==
    ASSUME NEW d, StoreInv(d), NEW ids
    PROVE  Forgets(d, MarkExpired(d, ids))
  <1> DEFINE affected == ids \cap Naming(d, d.payloads)
             after == Downgrade(d, affected, "expired")
             e == MarkExpired(d, ids)
  <1>1. d \in Store
    BY DEF StoreInv
  <1>2. e = [d EXCEPT !.observations = after]
    BY Zenon DEF MarkExpired
  <1> HIDE DEF after, affected, e
  <1>3. /\ e.observations = after /\ e.cursors = d.cursors
        /\ e.invocationLatest = d.invocationLatest
        /\ e.observationsIssued = d.observationsIssued
        /\ e.tokensIssued = d.tokensIssued
    BY <1>1, <1>2 DEF Store
  <1>4. Forgets(d, e)
    BY <1>1, <1>3, DowngradeForgets DEF after
  <1> QED  BY <1>4 DEF e

LEMMA LookUpsForget ==
    ASSUME NEW d, StoreInv(d), NEW now, NEW k, NEW t
    PROVE  Forgets(d, LookUpEntry(d, k, now)) /\ Forgets(d, LookUpCursor(d, t, now))
  BY MarkExpiredForgets, NothingForgets, Zenon DEF LookUpEntry, LookUpCursor

LEMMA RemovalForgets ==
    ASSUME NEW d, StoreInv(d), NEW keys, NEW hashes, NEW cursorKeys,
           NEW sources, NEW e,
           e = [d EXCEPT !.entries = WithoutEntries(d, keys),
                         !.payloads = @ \ hashes,
                         !.cursors = WithoutCursors(d, cursorKeys, sources),
                         !.observations = MetadataOnly(d, hashes)]
    PROVE  Forgets(d, e)
  <1> DEFINE entries == WithoutEntries(d, keys)
             cursors == WithoutCursors(d, cursorKeys, sources)
             observations == MetadataOnly(d, hashes)
             payloads == d.payloads \ hashes
  <1>1. d \in Store
    BY DEF StoreInv
  <1>2. \A t \in Token : cursors[t] \in {None, d.cursors[t]}
    BY DEF WithoutCursors
  <1>3. e = [d EXCEPT !.entries = entries, !.payloads = payloads,
                      !.cursors = cursors, !.observations = observations]
    BY Zenon
  <1>4. observations = Downgrade(d, Naming(d, hashes), "metadata_only")
    BY Zenon DEF MetadataOnly
  <1> HIDE DEF entries, cursors, observations, payloads
  <1>5. /\ e.observations = observations /\ e.cursors = cursors
        /\ e.invocationLatest = d.invocationLatest
        /\ e.observationsIssued = d.observationsIssued
        /\ e.tokensIssued = d.tokensIssued
    BY <1>1, <1>3 DEF Store
  <1>6. /\ e.observations = Downgrade(d, Naming(d, hashes), "metadata_only")
        /\ \A t \in Token : e.cursors[t] \in {None, d.cursors[t]}
    BY <1>2, <1>4, <1>5
  <1> QED  BY <1>1, <1>5, <1>6, DowngradeForgets

LEMMA PurgesForget ==
    ASSUME NEW d, StoreInv(d), NEW keys, NEW sources, NEW maxBytes
    PROVE  /\ Forgets(d, PurgeEntries(d, keys, sources))
           /\ Forgets(d, EnforceQuota(d, maxBytes))
  <1> DEFINE orphaned == ReferencedBy(d, keys) \ ReferencedBy(d, Key \ keys)
             evicted == EvictedByQuota(d, maxBytes)
             holders == UNION {EntriesOf(d, h) : h \in evicted}
  <1>1. PurgeEntries(d, keys, sources)
           = [d EXCEPT !.entries = WithoutEntries(d, keys),
                       !.payloads = @ \ orphaned,
                       !.cursors = WithoutCursors(d, keys, sources),
                       !.observations = MetadataOnly(d, orphaned)]
    BY Zenon DEF PurgeEntries
  <1>2. EnforceQuota(d, maxBytes)
           = [d EXCEPT !.entries = WithoutEntries(d, holders),
                       !.payloads = @ \ evicted,
                       !.cursors = WithoutCursors(d, holders, {}),
                       !.observations = MetadataOnly(d, evicted)]
    BY Zenon DEF EnforceQuota
  <1> HIDE DEF orphaned, evicted, holders
  <1> QED  BY <1>1, <1>2, RemovalForgets, Zenon

LEMMA WritesForget ==
    ASSUME NEW d, StoreInv(d), NEW h, NEW k, NEW row, NEW b
    PROVE  /\ Forgets(d, PutPayload(d, h)) /\ Forgets(d, PutEntryRow(d, k, row))
           /\ Forgets(d, SetBudget(d, b))
  BY DEF StoreInv, Store, Forgets, SameCaptures, PutPayload, PutEntryRow, SetBudget

\* create_cursor_with_extra
LEMMA CreatingIssues ==
    ASSUME NEW d, StoreInv(d), NEW k \in Key, NEW s \in Source, NEW now \in Nat,
           NEW ttl \in Nat, NEW shown \in Hash, d.tokensIssued < MaxToken
    PROVE  Issues(d, CreateCursor(d, k, s, now, ttl, shown))
  <1> DEFINE f == LookUpEntry(d, k, now)
             t == d.tokensIssued + 1
             found == EntryAt(d, k, now)
             bound == IF found = None THEN None ELSE found.observation
             row == [key |-> k, source |-> s, observation |-> bound,
                     expires |-> now + ttl, shown |-> shown]
             cursors == [f.cursors EXCEPT ![t] = row]
             e == [f EXCEPT !.cursors = cursors, !.tokensIssued = t]
  <1>1. d \in Store
    BY DEF StoreInv
  <1>2. t \in Token
    BY <1>1, StoreFields, BoundAssumption DEF Token
  <1>3. /\ StoreInv(f) /\ f.cursors = d.cursors
        /\ f.tokensIssued = d.tokensIssued /\ Forgets(d, f)
    BY <1>2, LookUpsKeep, LookUpsForget
  <1>4. bound \in Maybe(ObservationId)
    BY <1>1, StoreFields DEF EntryAt, Unexpired, Maybe, Entry
  <1>5. now + ttl \in Nat
    OBVIOUS
  <1> HIDE DEF f, t, bound
  <1>6. row # None
    <2>1. row \in Cursor
      BY <1>4, <1>5 DEF Cursor
    <2> QED  BY <2>1, NoneAssumption
  <1> HIDE DEF row
  <1>7. cursors[t] = row /\ \A u \in Token \ {t} : cursors[u] = d.cursors[u]
    BY <1>1, <1>2, <1>3, StoreFields
  <1> HIDE DEF cursors
  <1>8. f \in Store
    BY <1>3 DEF StoreInv
  <1>9. /\ e.cursors = cursors /\ e.observations = f.observations
        /\ e.invocationLatest = f.invocationLatest
        /\ e.observationsIssued = f.observationsIssued
        /\ e.tokensIssued = t
    BY <1>8 DEF Store
  <1>10. e = CreateCursor(d, k, s, now, ttl, shown)
    BY Zenon DEF CreateCursor, f, t, bound, row, cursors
  <1> HIDE DEF e
  <1>11. SameCaptures(d, e)
    BY <1>3, <1>9 DEF Forgets, SameCaptures
  <1>12. Issues(d, e)
    BY <1>2, <1>6, <1>7, <1>9, <1>11 DEF Issues, t
  <1> QED  BY <1>10, <1>12

\* Such a transaction keeps the history as it is.
LEMMA ForgettingKeepsHistory ==
    ASSUME NEW d, StoreInv(d), HistoryHolds(d), NEW e \in Store,
           SameCaptures(d, e)
    PROVE  HistoryHolds(e)
  <1>1. \A i \in Invocation : d.invocationLatest[i] \in Maybe(ObservationId)
    BY StoreFields DEF StoreInv
  <1>2. \A o \in ObservationId : d.observations[o] # None =>
           d.observations[o] \in Observation
    BY StoreFields DEF StoreInv, Maybe
  <1>3. \A o \in ObservationId : d.observations[o] # None =>
           /\ d.observations[o].invocation \in Invocation
           /\ d.observations[o].supersedes \in Maybe(ObservationId)
    BY <1>2 DEF Observation
  <1>4. PointersHold(e)
    BY <1>1, <1>3 DEF HistoryHolds, PointersHold, SameCaptures, Maybe
  <1>5. LinksHold(e)
    BY <1>1, <1>3 DEF HistoryHolds, LinksHold, SameCaptures, Maybe
  <1> QED  BY <1>4, <1>5 DEF HistoryHolds

\* After a purge of everything, and at the beginning, there is none.
LEMMA NoHistory ==
    ASSUME NEW d, \A o \in ObservationId : d.observations[o] = None,
           \A i \in Invocation : d.invocationLatest[i] = None
    PROVE  HistoryHolds(d)
  BY DEF HistoryHolds, PointersHold, LinksHold

\* e is d with this capture under the next identifier.
Recorded(d, e, h, a, i, r) ==
    /\ d.observationsIssued + 1 \in ObservationId
    /\ e.observations[d.observationsIssued + 1] =
          [hash |-> h, availability |-> a, invocation |-> i,
           supersedes |-> d.invocationLatest[i], revalidates |-> r]
    /\ \A q \in ObservationId :
          q # d.observationsIssued + 1 =>
             e.observations[q] = d.observations[q]
    /\ e.invocationLatest[i] = d.observationsIssued + 1
    /\ \A j \in Invocation :
          j # i => e.invocationLatest[j] = d.invocationLatest[j]
    /\ e.observationsIssued = d.observationsIssued + 1
    /\ e.cursors = d.cursors /\ e.tokensIssued = d.tokensIssued

\* record_observation: what it adds to the history, and that it keeps it.
LEMMA RecordingAdds ==
    ASSUME NEW d \in Store, NEW h \in Hash, NEW a \in Availability,
           NEW i \in Invocation, NEW r \in Maybe(ObservationId),
           d.observationsIssued < MaxObservation,
           NEW e, e = RecordObservation(d, h, a, i, r)
    PROVE  Recorded(d, e, h, a, i, r)
  <1> DEFINE o == d.observationsIssued + 1
             row == [hash |-> h, availability |-> a, invocation |-> i,
                     supersedes |-> d.invocationLatest[i], revalidates |-> r]
             observations == [d.observations EXCEPT ![o] = row]
             pointers == [d.invocationLatest EXCEPT ![i] = o]
             f == [d EXCEPT !.observations = observations,
                            !.invocationLatest = pointers,
                            !.latest = o, !.observationsIssued = o]
  <1>1. f = e
    BY Zenon DEF RecordObservation
  <1>2. o \in ObservationId
    BY StoreFields, BoundAssumption DEF ObservationId
  <1>3. /\ observations[o] = row
        /\ \A q \in ObservationId :
              q # o => observations[q] = d.observations[q]
        /\ pointers[i] = o
        /\ \A j \in Invocation :
              j # i => pointers[j] = d.invocationLatest[j]
    BY <1>2, StoreFields
  <1> HIDE DEF observations, pointers, row, o
  <1>4. /\ f.observations = observations /\ f.invocationLatest = pointers
        /\ f.observationsIssued = o /\ f.cursors = d.cursors
        /\ f.tokensIssued = d.tokensIssued
    BY DEF Store
  <1> HIDE DEF f
  <1> QED  BY <1>1, <1>2, <1>3, <1>4 DEF Recorded, o, row

LEMMA RecordingKeepsHistory ==
    ASSUME NEW d, StoreInv(d), HistoryHolds(d), NEW h \in Hash,
           NEW a \in Availability, NEW i \in Invocation,
           NEW r \in Maybe(ObservationId), d.observationsIssued < MaxObservation
    PROVE  HistoryHolds(RecordObservation(d, h, a, i, r))
  <1> DEFINE o == d.observationsIssued + 1
             e == RecordObservation(d, h, a, i, r)
             prior == d.invocationLatest[i]
             row == [hash |-> h, availability |-> a, invocation |-> i,
                     supersedes |-> prior, revalidates |-> r]
  <1>1. d \in Store
    BY DEF StoreInv
  <1>2. /\ o \in ObservationId /\ e.observations[o] = row
        /\ \A q \in ObservationId \ {o} : e.observations[q] = d.observations[q]
        /\ e.invocationLatest[i] = o
        /\ \A j \in Invocation \ {i} :
              e.invocationLatest[j] = d.invocationLatest[j]
    <2>1. Recorded(d, e, h, a, i, r)
      BY <1>1, RecordingAdds
    <2> QED  BY <2>1 DEF Recorded
  <1>3. row # None /\ row.invocation = i /\ row.supersedes = prior
    <2>1. row \in Observation
      BY <1>1, StoreFields DEF Observation
    <2> QED  BY <2>1, NoneAssumption
  <1>4. /\ \A q \in ObservationId : d.observations[q] # None => q < o
        /\ d.observations[o] = None
    BY <1>1, <1>2, StoreFields DEF StoreInv, IdentifiersFresh, ObservationId
  <1>5. /\ \A j \in Invocation : d.invocationLatest[j] \in Maybe(ObservationId)
        /\ \A q \in ObservationId : d.observations[q] # None =>
              /\ d.observations[q].invocation \in Invocation
              /\ d.observations[q].supersedes \in Maybe(ObservationId)
    <2>1. \A q \in ObservationId : d.observations[q] # None =>
             d.observations[q] \in Observation
      BY <1>1, StoreFields DEF Maybe
    <2> QED  BY <1>1, <2>1, StoreFields DEF Observation
  <1>6. prior \in Maybe(ObservationId)
    BY <1>5
  <1> HIDE DEF o, e, row, prior
  <1>7. None \notin ObservationId
    BY NoneAssumption DEF ObservationId
  <1>8. PointersHold(e)
    <2>1. ASSUME NEW j \in Invocation, e.invocationLatest[j] # None
          PROVE  /\ e.observations[e.invocationLatest[j]] # None
                 /\ e.observations[e.invocationLatest[j]].invocation = j
      BY <1>2, <1>3, <1>4, <1>5, <2>1
      DEF HistoryHolds, PointersHold, Maybe
    <2>2. ASSUME NEW q \in ObservationId, e.observations[q] # None
          PROVE  LET j == e.observations[q].invocation
                 IN  e.invocationLatest[j] # None /\ q <= e.invocationLatest[j]
      <3>1. CASE q = o
        BY <1>2, <1>3, <1>7, <3>1 DEF ObservationId
      <3>2. CASE q # o /\ d.observations[q].invocation = i
        BY <1>2, <1>4, <1>5, <1>7, <2>2, <3>2 DEF ObservationId
      <3>3. CASE q # o /\ d.observations[q].invocation # i
        BY <1>2, <1>5, <2>2, <3>3 DEF HistoryHolds, PointersHold
      <3> QED  BY <3>1, <3>2, <3>3
    <2> QED  BY <2>1, <2>2 DEF PointersHold
  <1>9. LinksHold(e)
    <2> SUFFICES ASSUME NEW q \in ObservationId, e.observations[q] # None
                 PROVE  LET before == e.observations[q].supersedes
                            j == e.observations[q].invocation
                        IN  /\ before # None =>
                                  /\ before < q
                                  /\ e.observations[before] # None
                                  /\ e.observations[before].invocation = j
                            /\ \A g \in ObservationId :
                                  /\ e.observations[g] # None
                                  /\ e.observations[g].invocation = j /\ g < q
                                  => before # None /\ g <= before
      BY DEF LinksHold
    <2>1. CASE q = o
      <3>1. prior # None => /\ prior \in ObservationId /\ prior < o
                           /\ d.observations[prior] # None
                           /\ d.observations[prior].invocation = i
        BY <1>4, <1>6 DEF HistoryHolds, PointersHold, Maybe, prior
      <3>2. \A g \in ObservationId :
               d.observations[g] # None /\ d.observations[g].invocation = i
               => prior # None /\ g <= prior
        BY <1>5 DEF HistoryHolds, PointersHold, prior
      <3>3. /\ e.observations[q].supersedes = prior
            /\ e.observations[q].invocation = i
        BY <1>2, <1>3, <2>1
      <3>4. prior # None => e.observations[prior] = d.observations[prior]
        BY <1>2, <3>1 DEF ObservationId
      <3>5. \A g \in ObservationId : g < q => e.observations[g] = d.observations[g]
        BY <1>2, <2>1 DEF ObservationId
      <3> QED  BY <2>1, <3>1, <3>2, <3>3, <3>4, <3>5
    <2>2. CASE q # o
      <3>1. e.observations[q] = d.observations[q] /\ q < o
        BY <1>2, <1>4, <2>2
      <3>2. ~(o < q)
        BY <1>2, <3>1 DEF ObservationId
      <3> QED  BY <1>2, <1>4, <1>5, <3>1, <3>2
               DEF HistoryHolds, LinksHold, Maybe
    <2> QED  BY <2>1, <2>2
  <1>10. HistoryHolds(e)
    BY <1>8, <1>9 DEF HistoryHolds
  <1> QED  BY <1>10 DEF e

\* e is d with one more capture, which revalidates none or one of its payload.
Records(d, e) ==
    \E h \in Hash, a \in Availability, i \in Invocation,
       r \in Maybe(ObservationId) :
          /\ d.observationsIssued < MaxObservation
          /\ r # None => /\ d.observations[r] # None
                         /\ d.observations[r].hash = h
          /\ e = RecordObservation(d, h, a, i, r)

\* Recording leaves what was recorded before as it is.
LEMMA RecordingAges ==
    ASSUME NEW d \in Store, NEW e, Records(d, e), NEW o \in ObservationId,
           o <= d.observationsIssued
    PROVE  /\ o <= e.observationsIssued
           /\ e.observations[o] = d.observations[o]
  <1>1. PICK h \in Hash, a \in Availability, i \in Invocation,
             r \in Maybe(ObservationId) :
                /\ d.observationsIssued < MaxObservation
                /\ e = RecordObservation(d, h, a, i, r)
    BY Zenon DEF Records
  <1>2. /\ e.observationsIssued = d.observationsIssued + 1
        /\ \A q \in ObservationId : q # d.observationsIssued + 1 =>
              e.observations[q] = d.observations[q]
    <2>1. Recorded(d, e, h, a, i, r)
      BY <1>1, RecordingAdds
    <2> QED  BY <2>1 DEF Recorded
  <1>3. d.observationsIssued \in Nat
    BY StoreFields
  <1> QED  BY <1>2, <1>3 DEF ObservationId

-----------------------------------------------------------------------------
(* The payload quota.                                                      *)

\* Payloads weigh what their sizes sum up to.
LEMMA BytesSum == ASSUME NEW hashes PROVE Bytes(hashes) = SumOver(Size, hashes)
  BY DEF Bytes, SumOver

\* The age of a payload is a number, so eviction has an order.
LEMMA NewestUseType ==
    ASSUME NEW d \in Store, NEW time \in Nat, CreatedBy(d, time), NEW h
    PROVE  NewestUse(d, h) \in Nat
  <1> DEFINE N == {d.entries[k].created : k \in EntriesOf(d, h)}
  <1>1. CASE EntriesOf(d, h) = {}
    BY <1>1 DEF NewestUse
  <1>2. CASE EntriesOf(d, h) # {}
    <2>1. \A k \in EntriesOf(d, h) : /\ d.entries[k].created \in Nat
                                     /\ d.entries[k].created <= time
      BY StoreFields DEF EntriesOf, CreatedBy, Maybe, Entry
    <2>2. N \in SUBSET Nat /\ N # {} /\ \A n \in N : n <= time
      BY <1>2, <2>1
    <2>3. NewestUse(d, h) = Max(N)
      BY <1>2 DEF NewestUse
    <2> HIDE DEF N
    <2>4. Max(N) \in N
      BY <2>2, GreatestNumber
    <2> QED  BY <2>2, <2>3, <2>4
  <1> QED  BY <1>1, <1>2

\* Of any payloads, one is evicted before all the others.
LEMMA FirstToEvict ==
    ASSUME NEW d \in Store, NEW time \in Nat, CreatedBy(d, time),
           NEW hashes \in SUBSET Hash, hashes # {}
    PROVE  \E m \in hashes : \A g \in hashes : ~EvictedBefore(d, g, m)
  <1> DEFINE age(h) == NewestUse(d, h)
             ages == {age(h) : h \in hashes}
  <1>1. \A h \in hashes : age(h) \in Nat
    BY NewestUseType
  <1> HIDE DEF age
  <1>2. PICK u \in ages : \A v \in ages : u <= v
    <2>1. ages \in SUBSET Nat /\ ages # {}
      BY <1>1
    <2> QED  BY <2>1, LeastNumber, Zenon
  <1> DEFINE oldest == {h \in hashes : age(h) = u}
  <1>3. oldest \in SUBSET Nat /\ oldest # {}
    BY <1>2, HashAssumption
  <1>4. PICK m \in oldest : \A g \in oldest : m <= g
    BY <1>3, LeastNumber, Zenon
  <1>5. ASSUME NEW g \in hashes PROVE ~EvictedBefore(d, g, m)
    <2>1. /\ age(g) \in Nat /\ age(m) \in Nat /\ age(m) <= age(g)
          /\ age(g) = age(m) => m <= g
          /\ m \in Nat /\ g \in Nat
      BY <1>1, <1>2, <1>3, <1>4, HashAssumption
    <2>2. ~(age(g) < age(m)) /\ ~(age(g) = age(m) /\ g < m)
      BY <2>1
    <2> QED  BY <2>2 DEF EvictedBefore, age
  <1> QED  BY <1>5

\* enforce_payload_quota leaves no more than the quota.
LEMMA QuotaEnforced ==
    ASSUME NEW d \in Store, NEW time \in Nat, CreatedBy(d, time),
           IsFiniteSet(d.payloads), NEW maxBytes \in Nat
    PROVE  Bytes(EnforceQuota(d, maxBytes).payloads) <= maxBytes
  <1> DEFINE rest == d.payloads \ EvictedByQuota(d, maxBytes)
             after(m) == {g \in d.payloads : ~EvictedBefore(d, g, m)}
  <1>1. EnforceQuota(d, maxBytes).payloads = rest
    BY DEF EnforceQuota, Store
  <1>2. /\ d.payloads \in SUBSET Hash /\ rest \in SUBSET d.payloads
        /\ rest \in SUBSET Hash
    BY StoreFields
  <1>3. CASE rest = {}
    <2>1. SumOver(Size, {}) = 0
      BY SizeAssumption, EmptySum
    <2> QED  BY <1>1, <1>3, <2>1, BytesSum
  <1>4. CASE rest # {}
    <2>1. PICK m \in rest : \A g \in rest : ~EvictedBefore(d, g, m)
      <3> HIDE DEF rest
      <3> QED  BY <1>2, <1>4, FirstToEvict
    <2>2. /\ rest \in SUBSET after(m) /\ after(m) \in SUBSET Hash
          /\ IsFiniteSet(after(m)) /\ IsFiniteSet(rest)
      <3>1. after(m) \in SUBSET d.payloads
        OBVIOUS
      <3>2. IsFiniteSet(after(m)) /\ IsFiniteSet(rest)
        <4> HIDE DEF after, rest
        <4> QED  BY <1>2, <3>1, FS_Subset
      <3> QED  BY <1>2, <2>1, <3>1, <3>2
    <2>3. ~(Bytes(after(m)) > maxBytes)
      BY DEF EvictedByQuota
    <2> HIDE DEF rest, after
    <2>4. /\ Bytes(rest) \in Nat /\ Bytes(after(m)) \in Nat
          /\ Bytes(rest) <= Bytes(after(m))
      <3>1. /\ SumOver(Size, rest) \in Nat /\ SumOver(Size, after(m)) \in Nat
            /\ SumOver(Size, rest) <= SumOver(Size, after(m))
        BY <1>2, <2>2, SizeAssumption, SumType, SumMonotone
      <3> QED  BY <3>1, BytesSum
    <2> QED  BY <1>1, <2>3, <2>4
  <1> QED  BY <1>3, <1>4

\* No payload and no entry is added.
Sheds(d, e) ==
    /\ e.payloads \in SUBSET d.payloads
    /\ \A k \in Key : e.entries[k] \in {None, d.entries[k]}

LEMMA PurgesShed ==
    ASSUME NEW d \in Store, NEW keys, NEW sources, NEW maxBytes
    PROVE  /\ Sheds(d, PurgeEntries(d, keys, sources))
           /\ Sheds(d, EnforceQuota(d, maxBytes))
           /\ Sheds(d, PurgeAll(d))
  <1>1. ASSUME NEW some, NEW hashes, NEW cursors, NEW observations
        PROVE  Sheds(d, [d EXCEPT !.entries = WithoutEntries(d, some),
                                  !.payloads = @ \ hashes,
                                  !.cursors = cursors,
                                  !.observations = observations])
    BY DEF Sheds, Store, WithoutEntries
  <1>2. Sheds(d, PurgeEntries(d, keys, sources))
    BY <1>1, Zenon DEF PurgeEntries
  <1>3. Sheds(d, EnforceQuota(d, maxBytes))
    BY <1>1, Zenon DEF EnforceQuota
  <1>4. Sheds(d, PurgeAll(d))
    BY DEF Sheds, PurgeAll, EmptyStore
  <1> QED  BY <1>2, <1>3, <1>4

LEMMA WritesShed ==
    ASSUME NEW d \in Store, NEW ids, NEW k, NEW t, NEW now, NEW b, NEW h,
           NEW a, NEW i, NEW r
    PROVE  /\ Sheds(d, d) /\ Sheds(d, SetBudget(d, b))
           /\ Sheds(d, MarkExpired(d, ids))
           /\ Sheds(d, LookUpEntry(d, k, now))
           /\ Sheds(d, LookUpCursor(d, t, now))
           /\ Sheds(d, RecordObservation(d, h, a, i, r))
           /\ Sheds(d, RecordCapture(d, h, a, i))
  <1>1. Sheds(d, d) /\ Sheds(d, SetBudget(d, b))
    BY DEF Sheds, SetBudget, Store
  <1>2. \A some : Sheds(d, MarkExpired(d, some))
    BY DEF Sheds, MarkExpired, Store
  <1>3. /\ Sheds(d, LookUpEntry(d, k, now))
        /\ Sheds(d, LookUpCursor(d, t, now))
    BY <1>1, <1>2, Zenon DEF LookUpEntry, LookUpCursor
  <1>4. \A claim, j, q : Sheds(d, RecordObservation(d, h, claim, j, q))
    BY DEF Sheds, RecordObservation, Store
  <1>5. Sheds(d, RecordCapture(d, h, a, i))
    BY <1>4, Zenon DEF RecordCapture
  <1> QED  BY <1>1, <1>2, <1>3, <1>4, <1>5
=============================================================================
