------------------------------ MODULE Disclosure ------------------------------
(***************************************************************************)
(* How much of what is selected of a stored payload (Selection) an answer  *)
(* shows: the projection under a preview policy                            *)
(* (prog-core/src/disclosure.rs), and how the answer is made to fit its    *)
(* budget (prog-cli/src/commands/envelope.rs).                             *)
(*                                                                         *)
(* A first ladder coarsens the policy; if no rung fits, a second one       *)
(* surrenders the fields of the answer, and the findings last.  Bytes are  *)
(* counted in units: one for a cell of the preview, an omitted region, a   *)
(* next action, a note or another field, FindingUnits for a finding.  The  *)
(* characters of a string are counted by its lines.                        *)
(***************************************************************************)
EXTENDS PayloadPaths, FiniteSetsExt

CONSTANTS
    Selections,     \* what is asked for: [document, slice, view]
    SubjectOf(_),   \* what is selected of the document
    Unasked,        \* no path, limit or depth in a slice
    NoView,         \* no lens, or one without a view
    DefaultPolicy,  \* PreviewPolicy::default: [items, fields, chars, depth, nodes]
    FewestChars,    \* below which strings are not cut: 16 in the code
    Budgets,        \* max_envelope_bytes
    NoteUnits,      \* DEGRADATION_NOTE_RESERVE
    FindingUnits,
    MostFindings,   \* findings of an envelope: 3 in the code
    MostActions,    \* next actions of an envelope: 10 in the code
    Attachments     \* what else an answer may carry: subsets of AttachmentNames

AttachmentNames == {"expanded_commands", "schema_hints", "overview", "provenance",
                    "cache", "parser", "evidence_ref"}

(* A slice is within the root of its cursor.                                 *)
TargetOf(slice) == IF slice.path = Unasked THEN slice.root ELSE slice.path

(* A slice names a node that is there.                                       *)
Answerable(document, slice) ==
    IsWithin(slice.root, TargetOf(slice)) /\ NodesAt(document, TargetOf(slice)) # {}

Policies == [items : Nat, fields : Nat, chars : Nat, depth : Nat, nodes : Nat]
OmissionReasons == {"large_string", "long_array", "many_fields", "deep_object",
                    "node_budget", "redacted"}
Regions == [path : Pointers, reason : OmissionReasons]

ASSUME SelectionsAssumption ==
    /\ {SubjectOf(s) : s \in Selections} \subseteq Nodes
    /\ \A s \in Selections :
        /\ TargetOf(s.slice) \in Pointers
        /\ {s.slice.limit, s.slice.depth} \subseteq Nat \union {Unasked}
        /\ s.view # NoView => /\ {s.view.limit, s.view.depth} \subseteq Nat \union {Unasked}
                             /\ s.view.omitted \in Seq(Regions)

ASSUME DisclosureAssumption ==
    /\ DefaultPolicy \in Policies
    /\ Attachments \subseteq SUBSET AttachmentNames
    /\ Budgets \subseteq Nat
    /\ {FewestChars, NoteUnits, FindingUnits, MostFindings, MostActions} \subseteq Nat

VARIABLES
    asked,          \* a question: [what, findings, attached, budget]
    answer          \* None of them yet, or its envelope

disclosureVars == <<asked, answer>>

-----------------------------------------------------------------------------
(* The projection.  A sheet has the cells of the preview, the omitted        *)
(* regions in the order they were met, and the nodes used of the budget.     *)

EmptySheet == [used |-> 0, cells |-> {}, omitted |-> <<>>]

Show(sheet, path, how) ==
    [sheet EXCEPT !.cells = @ \union {[path |-> path, how |-> how]}]
Omit(sheet, path, reason) ==
    [sheet EXCEPT !.omitted = Append(@, [path |-> path, reason |-> reason])]
OmitMarked(sheet, path, reason) == Omit(Show(sheet, path, "marker"), path, reason)

IsRedacted(node) ==
    node.type = "string" /\ node.lines # <<>> /\ "redacted" \in node.lines[1]
IsNested(node) == node.type \in {"array", "object"}

(* What there is to draw: a node, where it is, and the levels to go down.    *)
ToDraw(node, path, depth) == [node |-> node, path |-> path, depth |-> depth]

MostBelow(node, policy) == IF node.type = "array" THEN policy.items ELSE policy.fields

(* project_value, project_string, project_array and project_object, of the   *)
(* node itself.                                                              *)
DrawNode(item, policy, sheet) ==
    LET path == item.path
        used == [sheet EXCEPT !.used = @ + 1]
        shown == Show(used, path, "value")
        long == IF item.node.type = "array" THEN "long_array" ELSE "many_fields"
    IN  CASE sheet.used >= policy.nodes -> OmitMarked(sheet, path, "node_budget")
          [] OTHER ->
             CASE IsRedacted(item.node) -> OmitMarked(used, path, "redacted")
               [] item.node.type = "string" /\ ~IsRedacted(item.node)
                  /\ Len(item.node.lines) > policy.chars ->
                    Omit(Show(used, path, "prefix"), path, "large_string")
               [] IsNested(item.node) /\ item.depth = 0 -> OmitMarked(used, path, "deep_object")
               [] IsNested(item.node) /\ item.depth # 0
                  /\ Len(Children(item.node)) > MostBelow(item.node, policy) ->
                    Omit(shown, path, long)
               [] OTHER -> shown

(* The children it goes on to, unless its budget or depth is used up.        *)
DrawnBelow(item, policy, sheet) ==
    LET kids == Children(item.node)
        shown == Min({MostBelow(item.node, policy), Len(kids)})
    IN  IF sheet.used >= policy.nodes \/ item.depth = 0 THEN <<>>
        ELSE [i \in 1 .. shown |->
                 ToDraw(kids[i][2], Append(item.path, kids[i][1]), item.depth - 1)]

(* A node is drawn before what is below it, and that before what is next to  *)
(* it: what is left is drawn first to last.                                  *)
DrawFirst(drawing, policy) ==
    IF drawing.left = <<>> THEN drawing
    ELSE LET item == Head(drawing.left)
         IN  [sheet |-> DrawNode(item, policy, drawing.sheet),
              left |-> DrawnBelow(item, policy, drawing.sheet) \o Tail(drawing.left)]

(* No more nodes are opened than the budget has.                             *)
MostDrawn(policy) == 1 + policy.nodes * Max({policy.items, policy.fields})

Drawing(node, policy, base, steps) ==
    LET drawing[n \in Nat] ==
            IF n = 0 THEN [sheet |-> EmptySheet, left |-> <<ToDraw(node, base, policy.depth)>>]
            ELSE DrawFirst(drawing[n - 1], policy)
    IN  drawing[steps]

Project(node, policy, base) == Drawing(node, policy, base, MostDrawn(policy)).sheet

(* with_limit_and_depth, and what expand makes of the limit of a string.     *)
Effective(policy, limit, depth, node) ==
    [policy EXCEPT
        !.items = IF limit = Unasked THEN @ ELSE limit,
        !.depth = IF depth = Unasked THEN @ ELSE depth,
        !.chars = IF limit # Unasked /\ node.type = "string" THEN limit ELSE @]

(* dedupe_omitted: what a view says is omitted is added, once.               *)
AddOnce(regions, region) ==
    IF region \in ToSet(regions) THEN regions ELSE Append(regions, region)

WithoutRepeats(regions) ==
    LET kept[i \in 0 .. Len(regions)] ==
            IF i = 0 THEN <<>> ELSE AddOnce(kept[i - 1], regions[i])
    IN  kept[Len(regions)]

(* lens_slice_request: the limits of a view come before those asked for.     *)
LensSlice(slice, view) ==
    LET first(ofView, ofSlice) == IF ofView = Unasked THEN ofSlice ELSE ofView
    IN  IF view = NoView THEN [limit |-> slice.limit, depth |-> slice.depth]
        ELSE [limit |-> first(view.limit, slice.limit), depth |-> first(view.depth, slice.depth)]

ProjectWithView(what, policy) ==
    LET limits == LensSlice(what.slice, what.view)
        sheet == Project(SubjectOf(what),
                         Effective(policy, limits.limit, limits.depth, SubjectOf(what)),
                         TargetOf(what.slice))
    IN  IF what.view = NoView THEN sheet
        ELSE [sheet EXCEPT !.omitted = WithoutRepeats(@ \o what.view.omitted)]

-----------------------------------------------------------------------------
(* The envelope. *)

Halved(n) == n \div 2

Shrink(policy) ==
    [items |-> Halved(policy.items), fields |-> Halved(policy.fields),
     chars |-> Max({FewestChars, Halved(policy.chars)}),
     depth |-> Max({1, policy.depth}) - 1,
     nodes |-> Max({1, Halved(policy.nodes)})]

Rung[k \in 0 .. 16] == IF k = 0 THEN DefaultPolicy ELSE Shrink(Rung[k - 1])

LastRung == Min({k \in 0 .. 15 : k = 15 \/ Rung[k + 1] = Rung[k]})

MakeEnvelope(question, k) ==
    LET sheet == ProjectWithView(question.what, Rung[k])
    IN  [preview |-> sheet.cells, omitted |-> sheet.omitted,
         actions |-> Min({MostActions, Len(sheet.omitted)}),
         findings |-> question.findings,
         attached |-> question.attached \ {"expanded_commands"},
         dropped |-> {}, said |-> {}, notes |-> 0]

UnitsOf(envelope) ==
    Cardinality(envelope.preview) + Len(envelope.omitted) + envelope.actions
    + FindingUnits * envelope.findings + Cardinality(envelope.attached)
    + NoteUnits * envelope.notes

(* compact_envelope_to_budget works against a budget that leaves room for    *)
(* its note.                                                                 *)
IsOver(envelope, budget) == UnitsOf(envelope) + NoteUnits > budget

Dropping(envelope, what) == [envelope EXCEPT !.dropped = @ \union {what}]

DropActions(envelope, budget) ==
    LET two == [envelope EXCEPT !.actions = Min({2, @})]
    IN  IF envelope.actions = 0 THEN envelope
        ELSE Dropping(IF IsOver(two, budget) THEN [two EXCEPT !.actions = 0] ELSE two,
                      "next_actions")

Detach(envelope, names) ==
    [envelope EXCEPT !.attached = @ \ names,
                     !.dropped = @ \union (envelope.attached \intersect names)]

DropOmitted(envelope, budget) ==
    LET two == [envelope EXCEPT !.omitted = SubSeq(@, 1, Min({2, Len(@)}))]
    IN  IF envelope.omitted = <<>> THEN envelope
        ELSE Dropping(IF IsOver(two, budget) THEN [two EXCEPT !.omitted = <<>>] ELSE two,
                      "omitted")

DropFindings(envelope, budget, least) ==
    LET fits == {n \in least .. envelope.findings :
                    ~IsOver([envelope EXCEPT !.findings = n], budget)}
    IN  IF envelope.findings <= least THEN envelope
        ELSE Dropping([envelope EXCEPT !.findings = Max(fits \union {least})], "findings")

Surrender(envelope, budget, step) ==
    CASE step = "next_actions" -> DropActions(envelope, budget)
      [] step \in {"expanded_commands", "schema_hints", "overview"} -> Detach(envelope, {step})
      [] step = "omitted" -> DropOmitted(envelope, budget)
      [] step = "presentation" -> Detach(envelope, AttachmentNames)
      [] step = "data_preview" -> Dropping([envelope EXCEPT !.preview = {}], step)
      [] step = "findings" -> DropFindings(envelope, budget, 1)
      [] step = "last_finding" -> DropFindings(envelope, budget, 0)

FindingsFirst ==                                               \* faulty
    <<"findings", "next_actions", "expanded_commands", "schema_hints", "overview", "omitted",
      "presentation", "data_preview", "last_finding">>

Steps == <<"next_actions", "expanded_commands", "schema_hints", "overview", "omitted",
           "presentation", "data_preview", "findings", "last_finding">>

SurrenderIfOver(envelope, budget, step) ==
    IF IsOver(envelope, budget) THEN Surrender(envelope, budget, step) ELSE envelope

Surrendered(envelope, budget) ==
    LET after[i \in 0 .. Len(Steps)] ==
            IF i = 0 THEN envelope ELSE SurrenderIfOver(after[i - 1], budget, Steps[i])
    IN  after[Len(Steps)]

(* The note says what was dropped.  It is cut at 200 characters: no answer    *)
(* has schema hints and expanded commands, so that at most the end of its     *)
(* last entry is lost, of findings that the entry before it names as well.    *)
Compact(envelope, budget) ==
    LET less == Surrendered(envelope, budget)
    IN  IF UnitsOf(envelope) <= budget \/ less.dropped = {} THEN envelope
        ELSE [less EXCEPT !.said = @ \union less.dropped, !.dropped = {}, !.notes = @ + 1]

(* envelope_for_payload: the first rung that fits, else the last, compacted. *)
EnvelopeFor(question, drafts) ==
    LET fitting == {k \in DOMAIN drafts : UnitsOf(drafts[k]) <= question.budget}
    IN  IF fitting # {} THEN drafts[Min(fitting)]
        ELSE Compact(drafts[Max(DOMAIN drafts)], question.budget)

(* A recipe adds what it ran to the envelope of its run, takes the findings  *)
(* of an inspection, and compacts again.                                     *)
Answered(question, envelope) ==
    IF "expanded_commands" \notin question.attached THEN envelope
    ELSE Compact([envelope EXCEPT !.attached = @ \union {"expanded_commands"},
                                  !.findings = question.findings],
                 question.budget)

-----------------------------------------------------------------------------
DisclosureInit ==
    /\ asked \in [what : Selections, findings : 0 .. MostFindings, attached : Attachments,
                  budget : Budgets]
    /\ answer = {}

Disclose ==
    /\ answer = {}
    /\ \E drafts \in {[k \in 0 .. LastRung |-> MakeEnvelope(asked, k)]} :
       \E envelope \in {EnvelopeFor(asked, drafts)} :
           answer' = {Answered(asked, envelope)}
    /\ UNCHANGED asked

DisclosureNext == Disclose

DisclosureSpec == DisclosureInit /\ [][DisclosureNext]_disclosureVars

-----------------------------------------------------------------------------
(* Properties. *)

(* Whatever is selected and an answer does not show is under a region that   *)
(* it names as omitted, or the answer says that it dropped its regions or    *)
(* its preview; a finding is dropped only when nothing else is left, and     *)
(* never without saying so; and the answer fits unless nothing is left at    *)
(* all.  envelope.rs, compact_envelope_to_budget: "Findings are now          *)
(* surrendered last, never below one while any other droppable field         *)
(* remains, and never silently."                                             *)
IsShownOrNamed(path, envelope) ==
    \/ [path |-> path, how |-> "value"] \in envelope.preview
    \/ \E i \in DOMAIN envelope.omitted : IsWithin(envelope.omitted[i].path, path)

SomethingIsLeft(envelope) ==
    envelope.preview # {} \/ envelope.omitted # <<>> \/ envelope.actions # 0
    \/ envelope.attached # {}

NothingIsHiddenSilently ==
    \A envelope \in answer :
        /\ \/ envelope.said \intersect {"omitted", "data_preview"} # {}
           \/ \A path \in PathsOf(SubjectOf(asked.what), TargetOf(asked.what.slice)) :
                  IsShownOrNamed(path, envelope)
        /\ envelope.findings < asked.findings =>
              "findings" \in envelope.said /\ ~SomethingIsLeft(envelope)
        /\ SomethingIsLeft(envelope) \/ envelope.findings > 0 =>
              UnitsOf(envelope) <= asked.budget

(* What an answer names as omitted can be expanded, as a wildcard cannot.    *)
(* docs/contracts.md: "For expansions, use JSON Pointer paths from `omitted` *)
(* or `next_actions` instead of guessing positions from a preview."          *)
OmittedIsExpandable ==
    \A envelope \in answer : \A i \in DOMAIN envelope.omitted :
        LET path == envelope.omitted[i].path
        IN  (\A j \in DOMAIN path : path[j] # "*") =>
                Answerable(asked.what.document, [asked.what.slice EXCEPT !.path = path])
=============================================================================
