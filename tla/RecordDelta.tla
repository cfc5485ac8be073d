----------------------------- MODULE RecordDelta -----------------------------
(***************************************************************************)
(* prog delta on collections (prog-core/src/records.rs and the key search  *)
(* of overview.rs): the records of two captures, matched by a key.         *)
(*                                                                         *)
(* A payload has arrays at paths.  A record has its fields as the source   *)
(* sent them; what is stored, and all a comparison sees, is its redacted   *)
(* form (Stored): a value that is a secret becomes one marker, a value     *)
(* that contains one becomes a text with the marker inside.  The original  *)
(* stays in the state for the properties.  Nesting of fields and the leaves *)
(* listed for a changed record are abstracted.                             *)
(***************************************************************************)
EXTENDS Naturals, Sequences, FiniteSets, SequencesExt, Absent

CONSTANTS
    Payloads,       \* the payloads compared: [Path -> Seq(Record) or None]
    PathOrder,      \* all paths, in the order the search meets them
    FieldOrder,     \* all fields, in the order of preference as keys
    Secrets,        \* values that are redacted whole
    Embedding,      \* values that contain a secret
    Unusable,       \* values that are no keys: containers, long strings, ...
    Captures,       \* how completely the two sides were captured
    Requests,       \* what a caller may ask for: [path, key], each may be None
    ListLimit       \* entries kept in each list

(* A list of records, which are functions of their fields.                   *)
IsRecordList(items) ==
    /\ items \in Seq({items[i] : i \in DOMAIN items})
    /\ \A i \in DOMAIN items : items[i] = [f \in DOMAIN items[i] |-> items[i][f]]

ASSUME RecordDeltaAssumption ==
    /\ ListLimit \in Nat
    /\ Secrets \intersect Embedding = {}
    /\ PathOrder \in Seq(ToSet(PathOrder))
    /\ \A payload \in Payloads, p \in ToSet(PathOrder) :
          payload[p] = None \/ IsRecordList(payload[p])
    /\ \A request \in Requests : request.path \in ToSet(PathOrder) \union {None}

VARIABLES sides, recordRequest, recordDelta

recordVars == <<sides, recordRequest, recordDelta>>

Marker == "[REDACTED]"
Embedded == "x[REDACTED]"
MinItems == 2                   \* OVERVIEW_MIN_ITEMS

Stored(record) ==
    [f \in DOMAIN record |-> CASE record[f] \in Secrets -> Marker
                              [] record[f] \in Embedding -> Embedded
                              [] OTHER -> record[f]]

ContainsRedaction(record) ==
    \E f \in DOMAIN record : record[f] \in {Marker, Embedded}

-----------------------------------------------------------------------------
(* Where the records are, and what identifies one. *)

FirstIn(list, wanted) ==
    LET isWanted(x) == x \in wanted
        i == SelectInSeq(list, isWanted)
    IN  IF i = 0 THEN None ELSE list[i]

(* find_collection: the largest collection of records, the first of several. *)
FindCollection(payload) ==
    LET collections == {p \in ToSet(PathOrder) : payload[p] # None}
    IN  FirstIn(PathOrder,
            {p \in collections :
                /\ Len(payload[p]) >= MinItems
                /\ \A q \in collections : Len(payload[q]) <= Len(payload[p])})

(* is_key_string: a text that is nothing but a marker identifies nothing.    *)
HasKey(record, key) ==
    /\ key \in DOMAIN record
    /\ record[key] \notin Unusable \union {Marker}

IdentifiesSome(items, key) ==                                  \* faulty
    \A i \in DOMAIN items : HasKey(items[i], key)

Identifies(items, key) ==
    /\ \A i \in DOMAIN items : HasKey(items[i], key)
    /\ \A i, j \in DOMAIN items : i # j => items[i][key] # items[j][key]

(* key_candidates: the preferred one of the fields that identify every       *)
(* record of both sides.                                                     *)
InferKey(before, after) ==
    FirstIn(FieldOrder,
        {f \in ToSet(FieldOrder) :
            /\ before # <<>> /\ after # <<>>
            /\ Identifies(before, f) /\ Identifies(after, f)})

(* capture_gaps: every byte was captured.  Redaction and windowed findings   *)
(* are no gaps here.                                                         *)
Gapless(capture) ==
    /\ capture.stop \in {"complete", "redacted", "derivation_windowed"}
    /\ capture.whole

-----------------------------------------------------------------------------
(* compare_records. *)

Unavailable(status) == [status |-> status]

(* Of a pair of records with one key.                                        *)
Pairs(before, after, key) ==
    {p \in (DOMAIN before) \X (DOMAIN after) : before[p[1]][key] = after[p[2]][key]}

(* The lists of the report are cut, its counts are not.                      *)
Compared(before, after, key) ==
    LET pairs == Pairs(before, after, key)
        added == {j \in DOMAIN after : \A i \in DOMAIN before : <<i, j>> \notin pairs}
        removed == {i \in DOMAIN before : \A j \in DOMAIN after : <<i, j>> \notin pairs}
        changed == {p \in pairs : before[p[1]] # after[p[2]]}
    IN  [status |-> "compared", key |-> key,
         added |-> added, removed |-> removed, changed |-> changed,
         unchanged |-> pairs \ changed,
         hidden |-> Cardinality({p \in pairs : \/ ContainsRedaction(before[p[1]])
                                               \/ ContainsRedaction(after[p[2]])}),
         truncated |-> \E n \in {Cardinality(added), Cardinality(removed),
                                 Cardinality(changed)} : n > ListLimit]

Explicit(request) == request.path # None \/ request.key # None

CompareItems(before, after, request, complete) ==
    LET key == IF request.key # None THEN request.key ELSE InferKey(before, after)
    IN  IF ~complete THEN Unavailable("incomplete")
        ELSE IF key = None
        THEN IF Explicit(request) THEN Unavailable("unkeyed") ELSE None
        ELSE IF ~Identifies(before, key) \/ ~Identifies(after, key)
        THEN Unavailable("unkeyed")
        ELSE Compared(before, after, key)

StoredItems(items) == [i \in DOMAIN items |-> Stored(items[i])]

CompareRecords(before, after, request) ==
    LET found == IF FindCollection(after.payload) # None
                 THEN FindCollection(after.payload)
                 ELSE FindCollection(before.payload)
        path == IF request.path # None THEN request.path ELSE found
        nothing == IF Explicit(request) THEN Unavailable("no_collection") ELSE None
    IN  IF path = None THEN nothing
        ELSE IF before.payload[path] = None \/ after.payload[path] = None
        THEN nothing
        ELSE CompareItems(StoredItems(before.payload[path]),
                          StoredItems(after.payload[path]), request,
                          Gapless(before.capture) /\ Gapless(after.capture))

-----------------------------------------------------------------------------
RecordInit ==
    /\ sides \in [before : [payload : Payloads, capture : Captures],
                  after : [payload : Payloads, capture : Captures]]
    /\ recordRequest \in Requests
    /\ recordDelta = None

CompareCollections ==
    /\ recordDelta = None
    /\ recordDelta' = CompareRecords(sides.before, sides.after, recordRequest)
    /\ recordDelta' # None
    /\ UNCHANGED <<sides, recordRequest>>

RecordNext == CompareCollections
RecordSpec == RecordInit /\ [][RecordNext]_recordVars

RecordInv ==
    /\ sides \in [before : [payload : Payloads, capture : Captures],
                  after : [payload : Payloads, capture : Captures]]
    /\ recordRequest \in Requests
    /\ recordDelta \in {None, CompareRecords(sides.before, sides.after, recordRequest)}

-----------------------------------------------------------------------------
(* The records that were compared, as the source sent them.                  *)
ComparedPath ==
    IF recordRequest.path # None THEN recordRequest.path
    ELSE IF FindCollection(sides.after.payload) # None
    THEN FindCollection(sides.after.payload)
    ELSE FindCollection(sides.before.payload)

Originals(side) == side.payload[ComparedPath]

(* A comparison accounts for every record of both captures once, and is      *)
(* never wrong without saying so: of complete captures a record it calls     *)
(* removed is not in the later one, and if one it calls unchanged has        *)
(* changed, or is another record, it says that values were redacted.         *)
(* records.rs: counts are exact, and a key that was redacted matches nothing. *)
RecordsAreAccounted ==
    recordDelta # None /\ recordDelta.status = "compared" =>
        LET before == Originals(sides.before)
            after == Originals(sides.after)
            matched == recordDelta.changed \union recordDelta.unchanged
            key == recordDelta.key
        IN  /\ sides.before.capture.whole /\ sides.after.capture.whole
            /\ Cardinality(matched) + Cardinality(recordDelta.removed) = Len(before)
            /\ Cardinality(matched) + Cardinality(recordDelta.added) = Len(after)
            /\ \A i \in recordDelta.removed, j \in DOMAIN after :
                  before[i][key] # after[j][key]
            /\ \A p \in matched :
                  before[p[1]][key] # after[p[2]][key] => recordDelta.hidden > 0
            /\ \A p \in recordDelta.unchanged :
                  before[p[1]] # after[p[2]] => recordDelta.hidden > 0
=============================================================================
