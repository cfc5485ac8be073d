------------------------------- MODULE Findings -------------------------------
(***************************************************************************)
(* How findings are derived from a stored payload, and when their absence  *)
(* may prove something (prog-core/src/findings.rs).                        *)
(*                                                                         *)
(* The markers of a string are the patterns of string_signal it matches.   *)
(* One traversal derives findings and gives up at bounds of nodes and      *)
(* depth; another, when the payload is captured, says whether the first    *)
(* would see everything.  They count separately, and must agree.  Scores,  *)
(* source spans and wording are abstracted.                                *)
(***************************************************************************)
EXTENDS PayloadPaths

CONSTANTS
    Trees,          \* the payloads considered
    MaxNodes,       \* MAX_FINDING_NODES
    MaxDepth        \* MAX_FINDING_DEPTH

ASSUME FindingsAssumption ==
    /\ Trees \subseteq Nodes
    /\ MaxNodes \in Nat /\ MaxDepth \in Nat /\ MaxDepth < Deepest

VARIABLES stored, derived

findingVars == <<stored, derived>>

-----------------------------------------------------------------------------
HasText(node) == HasField(node, "text") /\ FieldOf(node, "text").type = "string"

(* is_canonical_text_path, of a string.                                      *)
IsText(place) ==
    place.node.type = "string" /\ place.path # <<>> /\ Last(place.path) = "text"

-----------------------------------------------------------------------------
(* finding_derivation_is_complete: the nodes, the lines of exact texts and   *)
(* the depth are within the bounds, no text is there as two windows only,    *)
(* and no coding provider gave up.                                           *)

(* The lines of a text are nodes of their own after the first.               *)
LinesOf(place) == IF IsText(place) THEN Max({1, Len(place.node.lines)}) ELSE 1

NodesOf(payload) == Cardinality(PlacesOf(payload, <<>>))

SizeOf(payload) ==
    LET places == PlacesOf(payload, <<>>)
    IN  SumFunctionOnSet([place \in places |-> LinesOf(place)], places)

IsDeeper(payload, depth) == \E place \in PlacesOf(payload, <<>>) : Len(place.path) > depth

Retained(node, key) == IF HasField(node, key) THEN Len(FieldOf(node, key).items) ELSE 0

Windowed(node) ==
    /\ node.type = "object" /\ node.format = "text"
    /\ node.lineCount > Retained(node, "head") + Retained(node, "tail")
    /\ ~HasText(node)
    /\ HasField(node, "lines") => Retained(node, "lines") < node.lineCount

GaveUp(node) == node.type = "object" /\ node.format = "provider_incomplete"

IsDerivable(payload) ==
    \A place \in PlacesOf(payload, <<>>) : ~Windowed(place.node) /\ ~GaveUp(place.node)

SeesByNodes(payload) ==                                        \* faulty
    NodesOf(payload) <= MaxNodes /\ ~IsDeeper(payload, MaxDepth) /\ IsDerivable(payload)

DerivationIsComplete(payload) ==
    SizeOf(payload) <= MaxNodes /\ ~IsDeeper(payload, MaxDepth) /\ IsDerivable(payload)

-----------------------------------------------------------------------------
(* Signals. *)

(* string_signal: what a string shows is the first of these it contains.     *)
StringKinds == <<"rust_compile_error", "rust_panic", "stack_trace", "test_failure",
                 "compile_error", "test_name", "test_reference", "log_fatal",
                 "log_error", "exception", "stderr_error", "diff_hunk", "warning">>

StringSignal(markers) ==
    LET present == SelectSeq(StringKinds, LAMBDA kind : kind \in markers)
    IN  IF present = <<>> THEN {} ELSE {present[1]}

Markers(node) == UNION {node.lines[i] : i \in DOMAIN node.lines}

Absent(node) ==
    CASE node.type = "scalar" -> FALSE
      [] node.type = "string" -> node.lines = <<>>
      [] OTHER -> Children(node) = <<>>

(* key_signal: what a field's name says of its value.                        *)
KeySignal(key, node) ==
    CASE Absent(node) -> {}
      [] key = "error" -> {"generic_error_field"}
      [] key = "failed" -> {"test_failure"}
      [] key = "diagnostics" -> {"diagnostic"}
      [] key = "warnings" -> {"warning"}
      [] key = "diff" /\ node.type = "string" /\ "diff_hunk" \in Markers(node) -> {"diff_hunk"}
      [] key = "message" /\ node.type = "string" -> StringSignal(Markers(node))
      [] OTHER -> {}

(* failure_section_signal, of a run's own extract of its streams: here the   *)
(* "format" of a section is its kind.                                        *)
SectionSignal(section) ==
    LET markers == IF HasField(section, "lines")
                   THEN UNION {Markers(FieldOf(section, "lines").items[i]) :
                                  i \in DOMAIN FieldOf(section, "lines").items}
                   ELSE {}
        shown == StringSignal(markers \ {"test_reference", "log_fatal", "log_error",
                                         "stderr_error", "diff_hunk", "warning"})
    IN  CASE section.format = "timeout" -> {"command_timeout"}
          [] section.format = "spawn_error" -> {"command_spawn_error"}
          [] shown = {} -> {"stderr_error"}
          [] shown = {"stack_trace"} -> {"python_traceback"}
          [] OTHER -> shown

-----------------------------------------------------------------------------
(* Candidates: where, of what kind, and of which text their identity is      *)
(* taken; two with the same are one finding (ranked_findings).               *)
Candidates(path, kinds, message) ==
    {[path |-> path, kind |-> kind, message |-> message] : kind \in kinds}

(* collect_run_signals: what a run says of its command, and its sections.    *)
CommandSignals(payload, base) ==
    IF ~HasField(payload, "command") THEN {}
    ELSE LET command == FieldOf(payload, "command")
             path == Append(base, "command")
             signals == {<<"timed_out", "command_timeout", path>>,
                         <<"spawn_error", "command_spawn_error", Append(path, "spawn_error")>>,
                         <<"unsuccessful", "nonzero_exit", path>>}
         IN  {[path |-> s[3], kind |-> s[2], message |-> {}] :
                 s \in {t \in signals : HasField(command, t[1])}}

SectionCandidates(payload, base) ==
    IF ~HasField(payload, "failure_sections")
       \/ FieldOf(payload, "failure_sections").type # "array" THEN {}
    ELSE LET sections == FieldOf(payload, "failure_sections").items
             taken == {i \in 1 .. MaxNodes : i \in DOMAIN sections}
         IN  UNION {Candidates(base \o <<"failure_sections", IndexName[i]>>,
                               SectionSignal(sections[i]), {}) :
                       i \in {j \in taken : sections[j].type = "object"}}

-----------------------------------------------------------------------------
(* collect_generic_signals.  A node is visited before what is below it, and  *)
(* that before what is next to it.                                           *)

(* What there is to visit: a place, its depth, and the node that it is the   *)
(* i-th child of (i = 0 of the first node).                                  *)
ToVisit(node, path, depth, above, i) ==
    [node |-> node, path |-> path, depth |-> depth, above |-> above, i |-> i]

(* The derived copies of what a text or a run's streams have.                *)
CopyKeys == {"head", "tail", "combined", "failure_sections"}
IsCopy(node, key) ==
    \/ node.format = "text" /\ HasText(node) /\ key \in {"head", "tail"}
    \/ node.format = "run" /\ key \in {"combined", "failure_sections"}

IsField(item) == item.i # 0 /\ item.above.type = "object"
IsCopied(item) == IsField(item) /\ IsCopy(item.above, Last(item.path))
IsFirst(item) ==
    \A j \in 1 .. item.i - 1 : IsCopy(item.above, Children(item.above)[j][1])

(* The loop over the fields of an object ends after the one with which the   *)
(* bound was reached.                                                        *)
IsReached(item, visited) == visited < MaxNodes \/ (IsField(item) /\ IsFirst(item))

(* A field whose name already says what its string shows is not descended to. *)
NamedKinds(item) == IF IsField(item) THEN KeySignal(Last(item.path), item.node) ELSE {}
Classified(item) ==
    item.node.type = "string" /\ NamedKinds(item) # {}
    /\ NamedKinds(item) = StringSignal(Markers(item.node))

IsArgv(path) ==
    \E i \in 1 .. Len(path) - 1 : path[i] = "command" /\ path[i + 1] = "argv"

(* collect_object_level_signal: of an object that says it is an error.       *)
SeveritySignal(node) ==
    IF node.type = "object" /\ node.format = "error" THEN {"diagnostic"} ELSE {}

(* What the lines of a text show is reported line by line, or as a whole if  *)
(* no single line shows it.                                                  *)
LinesSeen(lines, visited) == {i \in DOMAIN lines : i = 1 \/ i - 1 <= MaxNodes - visited}

TextSignals(item, visited) ==
    LET lines == item.node.lines
        shown == UNION {Candidates(item.path, StringSignal(lines[i]), lines[i]) :
                           i \in LinesSeen(lines, visited)}
        markers == Markers(item.node)
    IN  IF shown = {} THEN Candidates(item.path, StringSignal(markers), markers) ELSE shown

(* The visit of one place, which is the visited-th.                          *)
SignalsAt(item, visited) ==
    CASE item.node.type = "string" /\ ~IsArgv(item.path) ->
            IF IsText(item) THEN TextSignals(item, visited)
            ELSE Candidates(item.path, StringSignal(Markers(item.node)), Markers(item.node))
      [] OTHER -> Candidates(item.path, SeveritySignal(item.node), {})

VisitsAt(item, visited) ==
    IF IsText(item) /\ ~IsArgv(item.path)
    THEN Max({1, Cardinality(LinesSeen(item.node.lines, visited))}) ELSE 1

VisitedBelow(item) ==
    [i \in DOMAIN Children(item.node) |->
        LET child == Children(item.node)[i]
        IN  ToVisit(child[2], Append(item.path, child[1]), item.depth + 1, item.node, i)]

VisitFirst(walk) ==
    IF walk.left = <<>> THEN walk
    ELSE LET item == Head(walk.left)
             isMet == IsReached(item, walk.visited) /\ ~IsCopied(item)
             isVisited == /\ isMet /\ ~Classified(item)
                          /\ walk.visited < MaxNodes /\ item.depth <= MaxDepth
             named == IF isMet THEN Candidates(item.path, NamedKinds(item), {}) ELSE {}
             visited == walk.visited + 1
         IN  IF isVisited
             THEN [visited |-> walk.visited + VisitsAt(item, visited),
                   found |-> walk.found \union named \union SignalsAt(item, visited),
                   left |-> VisitedBelow(item) \o Tail(walk.left)]
             ELSE [visited |-> walk.visited, found |-> walk.found \union named,
                   left |-> Tail(walk.left)]

Walk(node, base, steps) ==
    LET walk[n \in Nat] ==
            IF n = 0 THEN [visited |-> 0, found |-> {},
                           left |-> <<ToVisit(node, base, 0, node, 0)>>]
            ELSE VisitFirst(walk[n - 1])
    IN  walk[steps]

Collect(node, base) == Walk(node, base, Cardinality(PlacesOf(node, base))).found

(* ranked_findings of what is at a path, without a limit: as a delta asks.   *)
RankedFindings(payload, base) ==
    CommandSignals(payload, base) \union SectionCandidates(payload, base)
    \union Collect(payload, base)

-----------------------------------------------------------------------------
FindingsInit == stored \in Trees /\ derived = {}

(* record_capture decides what the capture may prove, a delta derives.       *)
Derive ==
    /\ derived = {}
    /\ derived' = {[complete |-> DerivationIsComplete(stored),
                    findings |-> RankedFindings(stored, <<>>)]}
    /\ UNCHANGED stored

FindingsNext == Derive

FindingsSpec == FindingsInit /\ [][FindingsNext]_findingVars

-----------------------------------------------------------------------------
(* The strings of a payload, without any bound: where, and what they show.   *)
Shows(path, parts) == [path |-> path, parts |-> parts]

InCopy(place, places) ==
    \E above \in places : \E key \in CopyKeys :
        /\ above.node.type = "object" /\ IsCopy(above.node, key)
        /\ IsWithin(Append(above.path, key), place.path)

Strings(node, path) ==
    LET places == PlacesOf(node, path)
    IN  {Shows(place.path, IF IsText(place) THEN ToSet(place.node.lines)
                           ELSE {Markers(place.node)}) :
            place \in {p \in places : p.node.type = "string" /\ ~InCopy(p, places)}}

(* If a payload is said to be derived from completely, everything in it that *)
(* shows a failure has a finding of that kind where it is: no line of a text *)
(* and no field is beyond a bound.  findings.rs, finding_derivation_is_      *)
(* complete: "Callers that use missing findings as evidence of absence must  *)
(* require this function to return `true`."                                  *)
CompleteMissesNothing ==
    \A d \in derived : d.complete =>
        \A shown \in {s \in Strings(stored, <<>>) : ~IsArgv(s.path)} :
            \A part \in shown.parts : \A kind \in StringSignal(part) :
                \E finding \in d.findings :
                    finding.path = shown.path /\ finding.kind = kind
=============================================================================
