------------------------------- MODULE Coverage -------------------------------
(***************************************************************************)
(* Reading a collection record by record: the pages of prog select         *)
(* (prog-core/src/select.rs), and what prog coverage later says of the     *)
(* records that the session was given (prog-cli/src/commands/select.rs).   *)
(*                                                                         *)
(* What was given is known only by the events of the session's trail,      *)
(* which keeps the newest of them.  How far an answer is cut for its       *)
(* budget is Disclosure's; here any smaller number of items is possible,   *)
(* and any number of those at its end may be no more than markers.         *)
(* A string is compared by its markers.                                    *)
(***************************************************************************)
EXTENDS Payloads, FiniteSetsExt

CONSTANTS
    Collections,    \* the payloads considered: arrays of records
    Cursors,
    Filters,        \* sequences of filters: [field, op, operand]
    PageLimits,     \* --limit of a page
    MaxEvents,      \* the newest events a trail keeps: 1000 in the code
    MaxRangeWidth   \* ranges at least this wide are not read back

ASSUME CoverageAssumption ==
    /\ MaxEvents \in Nat \ {0} /\ MaxRangeWidth \in Nat \ {0}
    /\ PageLimits \subseteq Nat \ {0}
    /\ \A collection \in Collections :
          collection.items \in Seq(ToSet(collection.items))

VARIABLES
    records,        \* the collection, an array
    trail,          \* the events of the session, the newest last
    pages,          \* a reader's progress: [filters, offset, rows], or none
    given,          \* who was given which record, or part of it, this session
    placed          \* who had no more of which one than its place: histories

coverageVars == <<records, trail, pages, given, placed>>

NoOffset == {}

-----------------------------------------------------------------------------
(* Filters. *)

(* SelectFilter::test: a redacted field cannot be tested.                    *)
IsRedactedField(item, field) ==
    HasField(item, field) /\ "redacted" \in UNION ToSet(FieldOf(item, field).lines)

TextOf(item, field) ==
    IF HasField(item, field) THEN UNION ToSet(FieldOf(item, field).lines) ELSE {}

Holds(filter, item) ==
    CASE filter.op = "equals" -> TextOf(item, filter.field) = {filter.operand}
      [] filter.op = "differs" -> TextOf(item, filter.field) # {filter.operand}
      [] filter.op = "contains" -> filter.operand \in TextOf(item, filter.field)

(* One filter that fails is enough; else one that cannot be tested.          *)
Verdict(filters, item) ==
    LET tested == {i \in DOMAIN filters : ~IsRedactedField(item, filters[i].field)}
    IN  IF \E i \in tested : ~Holds(filters[i], item) THEN "excluded"
        ELSE IF tested = DOMAIN filters THEN "matching"
        ELSE "unknown"

Matching(filters) ==
    {i \in DOMAIN records.items : Verdict(filters, records.items[i]) = "matching"}

(* select_rows counts the records that match: how many are before record i.  *)
Position(matching, i) == Cardinality({j \in matching : j < i})

(* A page of them, in the order of the source, and where the next one starts. *)
Page(matching, offset, limit) ==
    [n \in 1 .. Min({limit, Cardinality(matching) - offset}) |->
        CHOOSE i \in matching : Position(matching, i) = offset + n - 1]

NextOffsetPast(matching, offset, limit) ==                     \* faulty
    IF Cardinality(matching) > offset + limit THEN {offset + limit + 1} ELSE NoOffset

NextOffset(matching, offset, limit) ==
    IF Cardinality(matching) > offset + limit THEN {offset + limit} ELSE NoOffset

(* select_cursor halves the limit until the page fits its budget.            *)
Halvings(limit) ==
    {half \in 1 .. limit : \E times \in 0 .. limit : half = limit \div 2^times}

-----------------------------------------------------------------------------
(* Events. *)

(* index_ranges, and what parse_index_ranges reads back of them.             *)
IndexRanges(indices) ==
    {r \in indices \X indices :
        /\ r[1] .. r[2] \subseteq indices /\ r[1] <= r[2]
        /\ r[1] - 1 \notin indices /\ r[2] + 1 \notin indices}

ReadBack(ranges) ==
    UNION {r[1] .. r[2] : r \in {s \in ranges : s[2] - s[1] < MaxRangeWidth}}

Event(kind, cursor, item, covered) ==
    [kind |-> kind, cursor |-> cursor, item |-> item, covered |-> covered]

(* record_session_event keeps the newest.                                    *)
Recorded(event) ==
    LET longer == Append(trail, event)
    IN  SubSeq(longer, Max({1, Len(longer) - MaxEvents + 1}), Len(longer))

(* coverage_cursor: which records the trail says this cursor was given.      *)
CountedForAnyone(event, cursor) ==                             \* faulty
    ReadBack(event.covered) \union (IF event.kind = "evidence" THEN event.item ELSE {})

Counted(event, cursor) ==
    IF event.cursor # cursor THEN {}
    ELSE ReadBack(event.covered)
         \union (IF event.kind \in {"expand", "evidence"} THEN event.item ELSE {})

Returned(cursor) ==
    UNION {Counted(trail[i], cursor) : i \in DOMAIN trail}
    \intersect (1 .. Len(records.items))

NotReturnedRanges(cursor) ==
    IndexRanges((1 .. Len(records.items)) \ Returned(cursor))

-----------------------------------------------------------------------------
CoverageInit ==
    /\ records \in Collections
    /\ trail = <<>>
    /\ pages = {}
    /\ given = {}
    /\ placed = {}

Give(cursor, items) == given' = given \union {<<cursor, i>> : i \in items}
GivePlace(cursor, items) == placed' = placed \union {<<cursor, i>> : i \in items}

(* A reader starts with the first page, and follows next_offset.             *)
StartReading(filters) ==
    /\ pages = {}
    /\ pages' = {[filters |-> filters, offset |-> {0}, rows |-> <<>>]}
    /\ UNCHANGED <<records, trail, given, placed>>

SelectRows(cursor, limit) ==
    \E p \in pages : \E offset \in p.offset : \E fitting \in Halvings(limit) :
        LET matching == Matching(p.filters)
            page == Page(matching, offset, fitting)
        IN  /\ pages' = {[filters |-> p.filters,
                          offset |-> NextOffset(matching, offset, fitting),
                          rows |-> p.rows \o page]}
            /\ trail' = Recorded(Event("select", cursor, {}, IndexRanges(ToSet(page))))
            /\ Give(cursor, ToSet(page))
            /\ UNCHANGED <<records, placed>>

(* A call or an expansion of the collection shows some of its first items; its *)
(* event says how many the preview has, if the answer kept an overview because *)
(* it hides others.  Of the last of those the answer may show nothing: beyond  *)
(* the depth or the nodes of the policy the preview has markers, and of the    *)
(* preview the compact form prints the first two items beside an overview.    *)
ShowItems(cursor, limit) ==
    \E visible \in 0 .. Min({limit, Len(records.items)}) : \E shown \in 0 .. visible :
        \E hasOverview \in (IF visible < Len(records.items) THEN BOOLEAN ELSE {FALSE}) :
            /\ trail' = Recorded(Event("expand", cursor, {},
                                       IF hasOverview THEN IndexRanges(1 .. visible) ELSE {}))
            /\ Give(cursor, 1 .. shown)
            /\ GivePlace(cursor, (shown + 1) .. visible)
            /\ UNCHANGED <<records, pages>>

(* record_envelope_event does not say which path was expanded.               *)
ExpandItem(cursor, i) ==
    /\ i \in DOMAIN records.items
    /\ trail' = Recorded(Event("expand", cursor, {}, {}))
    /\ Give(cursor, {i})
    /\ UNCHANGED <<records, pages, placed>>

(* evidence_cursor: record_navigation_event does.                            *)
ReadEvidence(cursor, i) ==
    /\ i \in DOMAIN records.items
    /\ trail' = Recorded(Event("evidence", cursor, {i}, {}))
    /\ Give(cursor, {i})
    /\ UNCHANGED <<records, pages, placed>>

(* prog session start: coverage reads the current session only.              *)
StartSession ==
    /\ trail # <<>>
    /\ trail' = <<>>
    /\ given' = {} /\ placed' = {}
    /\ UNCHANGED <<records, pages>>

CoverageNext ==
    \/ \E filters \in Filters : StartReading(filters)
    \/ \E cursor \in Cursors, limit \in PageLimits :
          SelectRows(cursor, limit) \/ ShowItems(cursor, limit)
    \/ \E cursor \in Cursors, i \in DOMAIN records.items :
          ExpandItem(cursor, i) \/ ReadEvidence(cursor, i)
    \/ StartSession

CoverageSpec == CoverageInit /\ [][CoverageNext]_coverageVars

-----------------------------------------------------------------------------
(* Properties. *)

(* A reader who has followed next_offset to the end, whatever pages fitted,  *)
(* has each matching record once, in order, and none that is excluded or     *)
(* cannot be tested.  select.rs: "An item whose filter field is redacted     *)
(* cannot be tested; it is counted as unknown and never reported as          *)
(* matching or not matching."                                                *)
SelectPagesCover ==
    \A p \in pages : p.offset = NoOffset =>
        /\ \A i \in DOMAIN p.rows : Verdict(p.filters, records.items[p.rows[i]]) = "matching"
        /\ \A i, j \in DOMAIN p.rows : i < j => p.rows[i] < p.rows[j]
        /\ \A k \in DOMAIN records.items :
              Verdict(p.filters, records.items[k]) = "matching" => k \in ToSet(p.rows)

(* A record counted as returned to a cursor was given to it this session, in  *)
(* full or in part, or an answer to it had a place for the record where only  *)
(* a marker was or which its compact form left out; never one that only       *)
(* another cursor, an earlier session or an event that is gone was about.     *)
(* coverage_cursor counts what the events say, see select.rs:228-249.         *)
NeverOvercounts ==
    \A cursor \in Cursors : \A i \in Returned(cursor) : <<cursor, i>> \in given \union placed

(* A record counted as returned was given, in full or in part.  docs/agent-   *)
(* reference.md: "`prog coverage <cursor>` reports which records of the       *)
(* collection prog has returned this session".  coverage_cursor: "returned    *)
(* counts records prog sent in this session, in full or in part".             *)
CountedIsGiven ==
    \A cursor \in Cursors : \A i \in Returned(cursor) : <<cursor, i>> \in given

(* Every record given is counted, unless the trail dropped its event.        *)
(* docs/agent-reference.md: "`prog coverage <cursor>` reports which records  *)
(* of the collection prog has returned this session and the index ranges it  *)
(* has not."                                                                 *)
ExpansionsAreCounted ==
    Len(trail) < MaxEvents =>
        \A cursor \in Cursors :
            \A r \in NotReturnedRanges(cursor) : \A i \in r[1] .. r[2] :
                <<cursor, i>> \notin given

-----------------------------------------------------------------------------
(* The inductive invariant behind them. *)

(* A reader has the first of the matching records, in their order, and knows *)
(* how many they are.                                                        *)
ReadSoFar(p) ==
    LET matching == Matching(p.filters)
    IN  /\ p = [filters |-> p.filters, offset |-> p.offset, rows |-> p.rows]
        /\ p.rows \in Seq(matching)
        /\ \A n \in DOMAIN p.rows : Position(matching, p.rows[n]) = n - 1
        /\ IF p.offset = NoOffset THEN Len(p.rows) = Cardinality(matching)
           ELSE /\ p.offset = {Len(p.rows)}
                /\ Len(p.rows) <= Cardinality(matching)

SessionEvent ==
    [kind : {"select", "expand", "evidence"}, cursor : Cursors,
     item : SUBSET Nat, covered : SUBSET (Nat \X Nat)]

TrailIsTrue ==
    /\ trail \in Seq(SessionEvent)
    /\ \A n \in DOMAIN trail : \A i \in Counted(trail[n], trail[n].cursor) :
          <<trail[n].cursor, i>> \in given \union placed

CoverageInv ==
    /\ records \in Collections
    /\ \A p \in pages : ReadSoFar(p)
    /\ TrailIsTrue
=============================================================================
