----------------------------- MODULE MCEvidence -----------------------------
(***************************************************************************)
(* An instance, for TLC, of what prog says of the evidence it keeps: the   *)
(* deltas of findings and of records, source states, redaction, findings   *)
(* and their search, disclosure, coverage, the shapes it learns, and the   *)
(* trust under which evidence is asked for.  The parts share no state, so  *)
(* one of them is explored in each behaviour, and the others rest where    *)
(* they start.                                                             *)
(***************************************************************************)
EXTENDS Delta, RecordDelta, SourceState, Redaction, Navigation, Selection,
        Coverage, MCTrust, Shapes

CONSTANTS t1, t2, c1, c2

VARIABLE part

-----------------------------------------------------------------------------
(* Delta: two tests, a suite of each; a test ends each way, is deselected,  *)
(* skipped or deleted, the output is cut, the tool crashes or stops early.  *)

Tests == {t1, t2}
SuiteOf == [t \in Tests |-> IF t = t1 THEN "a" ELSE "b"]
Two(first, second) == [t \in Tests |-> IF t = t1 THEN first ELSE second]
RunOf(tool, outcome, verbose, stop, ending) ==
    [tool |-> tool, outcome |-> outcome, verbose |-> verbose, stop |-> stop,
     scopes |-> {}, declared |-> FALSE, ending |-> ending]
NextToOthers ==
    {Two(o, p) : o \in Outcome \ {"unreached"}, p \in {"passed", "skipped"}}
    \cup {Two("failed", "failed"), Two("failed", "gone"), Two("gone", "passed"),
          Two("torn", "gone"), Two("gone", "torn")}
StoppedEarly ==
    {Two("failed", "unreached"), Two("passed", "failed"), Two("passed", "passed")}
ProviderRuns ==
    {RunOf(tool, o, v, FALSE, "normal") :
        tool \in Providers, o \in NextToOthers, v \in BOOLEAN}
    \cup {RunOf(tool, o, TRUE, TRUE, "normal") :
             tool \in Providers, o \in StoppedEarly}
    \cup {RunOf(tool, Two(o, "passed"), TRUE, FALSE, e) :
             tool \in Providers, o \in {"failed", "passed", "gone"}, e \in Ending}
LintRuns ==
    {[tool |-> "lint", outcome |-> Two(o, p), verbose |-> TRUE, stop |-> FALSE,
      scopes |-> s, declared |-> d, ending |-> e] :
        o \in {"passed", "failed", "filtered"}, p \in {"passed", "filtered"},
        s \in {{}, {"a"}, {"a", "b"}}, d \in BOOLEAN, e \in {"normal", "truncated"}}
Filtered(run) == {t \in Tests : run.outcome[t] = "filtered"}
Outside(run) == {t \in Tests : SuiteOf[t] \notin run.scopes}
TestedRuns ==
    {run \in ProviderRuns :
        run.tool = "cargo" => \A t \in Tests : run.outcome[t] # "torn"}
    \cup {run \in LintRuns :
            /\ run.declared => run.scopes # {} /\ Filtered(run) \subseteq Outside(run)
            /\ run.ending = "truncated" => run.declared
            /\ run.scopes # {} => Outside(run) \subseteq Filtered(run)}
TestedSources ==
    {[token |-> None, validity |-> "confirmed"], [token |-> None, validity |-> "unknown"],
     [token |-> "v1", validity |-> "unknown"], [token |-> "v1", validity |-> "changed"],
     [token |-> "v2", validity |-> "unknown"]}
\* A delta compares captures of one tool; of those, one payload is lost.
OneTool ==
    /\ \A i, j \in DOMAIN captures : captures[i].run.tool = captures[j].run.tool
    /\ Cardinality(available) >= Len(captures) - 1

-----------------------------------------------------------------------------
(* RecordDelta: collections of up to two records; an identifier may be a     *)
(* secret, contain one, or be missing.                                       *)

RecordsKept ==
    {[id |-> i, state |-> "open"] : i \in {"a", "b", "tok", "tok2", "secret1"}}
    \cup {[id |-> "a", state |-> s] : s \in {"sec", "sec2"}}
    \cup {[id |-> "b", state |-> "shut"], [state |-> "open"]}
Second == {r \in RecordsKept : "id" \in DOMAIN r => r.id \in {"b", "tok"}}
RecordLists ==
    {<<x>> : x \in RecordsKept} \cup {<<x, y>> : x \in RecordsKept, y \in Second}
RecordPayloads == [{"p"} -> RecordLists \cup {None}]
RecordCaptures == {[stop |-> "complete", whole |-> TRUE],
                   [stop |-> "byte_limit", whole |-> FALSE],
                   [stop |-> "redacted", whole |-> FALSE]}
RecordRequests == [path : {None, "p"}, key : {None, "state"}]
Paths == <<"p">>
RecordFields == <<"id", "state">>
\* One cut capture of the two is enough, and needs no other key.
OneCut == sides.before.capture.stop # "complete" =>
              sides.after.capture.stop = "complete" /\ recordRequest.key = None

-----------------------------------------------------------------------------
(* SourceState: validators of each kind, absent, true, malformed or expired. *)

Form(etag, modified, field, expiry, notes) ==
    [etag |-> etag, modified |-> modified, field |-> field, expiry |-> expiry,
     notes |-> notes]
Forms == {Form("true", None, None, None, None),
          Form(Malformed, "true", "true", "later", CutShort),
          Form(None, "true", "true", "past", "true")}
ProfileSelectors == {None, [expires |-> TRUE]}

-----------------------------------------------------------------------------
(* Redaction: what a command writes, piece by piece; secrets are split by    *)
(* lines, by quotes and by a first redaction, and may have a vendor's format. *)

WrittenPieces ==
    {<<"key">>, <<"=">>, <<"quote">>, <<"word">>, <<" ">>, <<"newline">>,
     <<TextMarker>>, <<"auth", ":">>, <<" ", "flag">>,
     <<"quote", "key", "quote", ":">>, <<"number">>,
     <<"word", "quote", " ", "key", "=">>, <<"=", "word", " ">>, <<"vendor">>}
OtherText == <<"word">>

-----------------------------------------------------------------------------
(* Findings and Navigation: texts, streams with windows, fields named for    *)
(* errors and nested lists, under the bounds on nodes, depth and findings    *)
(* and beyond each.                                                          *)

Panic == {"rust_panic"}
Silence == {}
Warned == {"warning", "stderr_error"}
ShownStrings ==
    {String(<<>>), String(<<Panic>>), String(<<Silence, Warned>>),
     String(<<Panic, Warned>>), String(<<Silence, Silence, Panic>>)}
ShownLeaves == {Scalar} \cup ShownStrings
ListOf(node) == Array(<<node>>)
ShownTexts ==
    {Object("text", 0, <<<<"text", x>>>>) : x \in ShownStrings}
    \cup {Object("text", c, <<<<"head", ListOf(String(<<Panic>>))>>,
                              <<"tail", ListOf(String(<<Panic>>))>>>>) : c \in {2, 3}}
    \cup {Object("text", 2, <<<<"head", ListOf(String(<<Panic>>))>>,
                              <<"lines", Array(<<String(<<Panic>>), y>>)>>>>) :
             y \in ShownStrings}
ErrorFields ==
    {Object("error", 0, <<<<"error", x>>, <<"message", y>>>>) :
        x \in ShownLeaves, y \in {Scalar, String(<<Panic>>), String(<<Silence, Warned>>)}}
Argv == Object("other", 0, <<<<"argv", ListOf(String(<<Panic>>))>>>>)
TimedOut == Object("other", 0, <<<<"timed_out", Scalar>>>>)
Sections == ListOf(Object("other", 0, <<<<"lines", ListOf(String(<<Panic>>))>>>>))
RunTrees ==
    {Object("run", 0, <<<<"command", Argv>>, <<"stdout", x>>, <<"zz", y>>>>) :
        x \in ShownTexts, y \in {Scalar, String(<<Panic>>)}}
    \cup {Object("run", 0, <<<<"command", TimedOut>>,
                             <<"failure_sections", Sections>>, <<"stdout", x>>>>) :
             x \in ShownTexts}
StoredTrees ==
    RunTrees
    \cup {Object("other", 0, <<<<"a", x>>, <<"diagnostics", y>>>>) :
             x \in ShownLeaves \cup ShownTexts, y \in ShownLeaves \cup ErrorFields}
    \cup {Array(<<ListOf(ListOf(x)), y>>) :
             x \in ShownLeaves, y \in ShownLeaves \cup ShownTexts}

Question(what, query, kind, scope, limit) ==
    [what |-> what, query |-> query, kind |-> kind, scope |-> scope,
     limit |-> limit, fits |-> 9]
QuestionsAsked ==
    {Question("search", q, NoKind, s, 9) : q \in {"a", "rust_panic", "message"},
        s \in {<<>>, <<"a">>}}
    \cup {Question("search", "a", NoKind, <<>>, 1)}
    \cup {Question("search", NoQuery, k, <<>>, 9) :
             k \in {"error", "warning", "string", "diagnostic"}}
    \cup {Question("inspect", NoQuery, k, s, 2) :
             k \in {"error", "warning"}, s \in {<<>>, <<"diagnostics">>}}
    \cup {Question("inspect", NoQuery, "error", <<>>, 1)}
    \cup {Question("paths", NoQuery, NoKind, s, l) :
             s \in {<<>>, <<"a">>}, l \in {3, 20}}
AskedQuestions == {[q EXCEPT !.fits = n] : q \in QuestionsAsked, n \in {1, 9}}

-----------------------------------------------------------------------------
(* Disclosure: documents of every shape, sliced and viewed, under budgets    *)
(* from one too small for anything to one with room for all.                 *)

OneLine == <<{}>>
Leaf == {Scalar, String(<<>>), String(OneLine), String(<<{}, {}, {}>>),
         String(<<{"redacted"}>>)}
Disclosed ==
    {Record(<<<<"a", x>>, <<"b", Array(<<y, Record(<<<<"c", x>>>>), Scalar>>)>>,
              <<"d", y>>>>) : x, y \in Leaf}
    \cup {Array(<<Record(<<<<"a", x>>, <<"b", Record(<<<<"c", y>>>>)>>>>),
                  Record(<<<<"a", y>>, <<"b", Scalar>>>>)>>) : x, y \in Leaf}
    \cup {Record(<<<<"a", String(<<{}, {}, {}, {}>>)>>,
                   <<"b", Array(<<Array(<<Scalar, Scalar>>), Scalar>>)>>>>)}
Slice(root, path, limit, depth, fields, omit) ==
    [root |-> root, path |-> path, limit |-> limit, depth |-> depth,
     fields |-> fields, omit |-> omit]
AskedSlices ==
    {Slice(<<>>, Unasked, l, d, {}, {}) : l \in {Unasked, 1}, d \in {Unasked, 0}}
    \cup {Slice(<<>>, <<"b">>, 1, Unasked, {}, {}),
          Slice(<<>>, Unasked, Unasked, Unasked, {"a"}, {}),
          Slice(<<>>, Unasked, Unasked, Unasked, {}, {"b"}),
          Slice(<<"b">>, <<"b", "1">>, Unasked, Unasked, {}, {}),
          Slice(<<"b">>, <<"a">>, Unasked, Unasked, {}, {})}
ViewOf(fields, limit, depth, omitted) ==
    [fields |-> fields, limit |-> limit, depth |-> depth, omitted |-> omitted]
DeclaredViews ==
    {NoView, ViewOf(<<>>, 1, 1, <<[path |-> <<"d">>, reason |-> "many_fields"]>>),
     ViewOf(<< <<"a", <<"a">>>>, <<"b", <<"b">>>> >>, Unasked, 2, <<>>),
     ViewOf(<< <<"a", <<"a">>>>, <<"c", <<"b", "*", "c">>>> >>, 1, Unasked, <<>>)}
AskedSelections == SelectionsFrom(Disclosed, AskedSlices, DeclaredViews)
NodesBelow(node) == {place.node : place \in PlacesOf(node, <<>>)}
StoredNodes == UNION {NodesBelow(Subject(s)) : s \in AskedSelections}
                  \cup UNION {NodesBelow(tree) : tree \in StoredTrees}
\* No payload goes as deep as the bound.
ASSUME DeepEnough == \A n \in StoredNodes : Level(n, <<>>, Deepest) = {}
Digits == <<"0", "1", "2", "3">>
SmallPolicy == [items |-> 2, fields |-> 2, chars |-> 2, depth |-> 3, nodes |-> 9]
AttachmentSets == {{}, {"expanded_commands", "cache"}, AttachmentNames}

-----------------------------------------------------------------------------
(* Coverage: lists whose records repeat, are redacted or empty.              *)

Shown(n) == String(<<{n}>>)
Row(x, y) == Record(<<<<"a", x>>, <<"b", y>>>>)
RowA == Row(Shown("p"), Shown("q"))
RowB == Row(Shown("q"), Shown("redacted"))
RowC == Row(Shown("redacted"), Shown("p"))
Lists == {Array(<<RowA, RowC, RowA>>), Array(<<RowB, Record(<<>>)>>)}
Filter(field, op, operand) == [field |-> field, op |-> op, operand |-> operand]
AskedFilters ==
    {<<Filter("a", "equals", "p")>>,
     <<Filter("b", "differs", "q"), Filter("a", "contains", "q")>>}
Symmetry == Permutations(Cursors)
\* Bound: the places of records in the answers of a session.
FewAnswers == Cardinality(given) + Cardinality(placed) <= 4

-----------------------------------------------------------------------------
(* Shapes: payloads with redacted, missing and mixed values, and statements   *)
(* of fields and of what may follow them; two texts are an enumeration.       *)

Values == {Plain("null"), Plain("integer"), Plain("number"), Plain("redacted"),
           Plain("timestamp"), Text("a"), Text("c"), Text("long")}
OneField(value) == ObjectOfValues([f \in {"x"} |-> value])
AnsweredPayloads ==
    Values \cup {ListOfValues(<<>>), ListOfValues(<<Text("a"), Plain("redacted")>>),
                 ListOfValues(<<OneField(Plain("null")), Plain("integer")>>),
                 ObjectOfValues([f \in {} |-> Plain("null")]),
                 OneField(Plain("redacted")),
                 ObjectOfValues([f \in {"x", "y"} |-> ListOfValues(<<Plain("integer")>>)])}
StatedShapes ==
    {FieldsOf([f \in {"x"} |-> FieldShape(TextIn({"b", "c"}), TRUE, 3)], Plain("number")),
     ItemsOf(Sensitive(OneOf({Plain("null"), AnyText}))),
     OneOf({Plain("null"), ItemsOf(Unknown)})}

-----------------------------------------------------------------------------
(* The parts at rest, and one of them at work.                               *)

RecordsAtRest ==
    /\ sides = CHOOSE s \in [before : [payload : RecordPayloads, capture : RecordCaptures],
                             after : [payload : RecordPayloads, capture : RecordCaptures]] : TRUE
    /\ recordRequest = [path |-> None, key |-> None]
    /\ recordDelta = None
SourceAtRest ==
    /\ origin = [kind |-> "http", selector |-> None, version |-> 1, edited |-> 1,
                 second |-> 1, scope |-> 1]
    /\ entry = None /\ observed = <<>>
NothingAsked ==
    /\ question = CHOOSE q \in AskedQuestions : TRUE
    /\ reply = {}
FindingsAtRest == stored = Scalar /\ derived = {} /\ NothingAsked
DisclosureAtRest ==
    /\ asked = [what |-> [document |-> Scalar, view |-> NoView,
                         slice |-> Slice(<<>>, Unasked, Unasked, Unasked, {}, {})],
                findings |-> 0, attached |-> {}, budget |-> 2]
    /\ answer = {}
CoverageAtRest ==
    /\ records = CHOOSE list \in Lists : TRUE
    /\ trail = <<>> /\ pages = {} /\ given = {} /\ placed = {}
TrustAtRest ==
    /\ source = "cli" /\ hints = Silent /\ profile = NoProfile
    /\ discovery = Idle /\ call = [c \in Callers |-> Idle] /\ knob = TRUE

EvidenceInit ==
    /\ DeltaInit /\ RedactionInit
    /\ IF part = "records" THEN RecordInit /\ OneCut ELSE RecordsAtRest
    /\ IF part = "source" THEN SourceInit ELSE SourceAtRest
    /\ CASE part = "findings" -> FindingsInit /\ NothingAsked
         [] part = "navigation" -> NavigationInit
         [] OTHER -> FindingsAtRest
    /\ IF part = "disclosure" THEN DisclosureInit ELSE DisclosureAtRest
    /\ IF part = "coverage" THEN CoverageInit ELSE CoverageAtRest
    /\ IF part = "trust" THEN Init ELSE TrustAtRest
    /\ ShapesInit
Parts == {"delta", "records", "source", "redaction", "findings", "navigation",
          "disclosure", "coverage", "trust", "shapes"}

EvidenceNext ==
    \/ /\ part = "delta" /\ DeltaNext
       /\ UNCHANGED <<recordVars, sourceVars, redactionVars, navigationVars,
                      disclosureVars, coverageVars, vars, shapeVars>>
    \/ /\ part = "records" /\ RecordNext
       /\ UNCHANGED <<deltaVars, sourceVars, redactionVars, navigationVars,
                      disclosureVars, coverageVars, vars, shapeVars>>
    \/ /\ part = "source" /\ SourceNext
       /\ UNCHANGED <<deltaVars, recordVars, redactionVars, navigationVars,
                      disclosureVars, coverageVars, vars, shapeVars>>
    \/ /\ part = "redaction" /\ RedactionNext
       /\ UNCHANGED <<deltaVars, recordVars, sourceVars, navigationVars,
                      disclosureVars, coverageVars, vars, shapeVars>>
    \/ /\ part = "findings" /\ FindingsNext
       /\ UNCHANGED <<deltaVars, recordVars, sourceVars, redactionVars,
                      question, reply, disclosureVars, coverageVars, vars, shapeVars>>
    \/ /\ part = "navigation" /\ NavigationNext
       /\ UNCHANGED <<deltaVars, recordVars, sourceVars, redactionVars,
                      disclosureVars, coverageVars, vars, shapeVars>>
    \/ /\ part = "disclosure" /\ DisclosureNext
       /\ UNCHANGED <<deltaVars, recordVars, sourceVars, redactionVars,
                      navigationVars, coverageVars, vars, shapeVars>>
    \/ /\ part = "coverage" /\ CoverageNext
       /\ UNCHANGED <<deltaVars, recordVars, sourceVars, redactionVars,
                      navigationVars, disclosureVars, vars, shapeVars>>
    \/ /\ part = "trust" /\ Next
       /\ UNCHANGED <<deltaVars, recordVars, sourceVars, redactionVars,
                      navigationVars, disclosureVars, coverageVars, shapeVars>>
    \/ /\ part = "shapes" /\ ShapesNext
       /\ UNCHANGED <<deltaVars, recordVars, sourceVars, redactionVars,
                      navigationVars, disclosureVars, coverageVars, vars>>
AllVars == <<deltaVars, recordVars, sourceVars, redactionVars, navigationVars,
             disclosureVars, coverageVars, vars, shapeVars, part>>
EvidenceSpec ==
    /\ part \in Parts /\ EvidenceInit
    /\ [][EvidenceNext /\ UNCHANGED part]_AllVars
=============================================================================
