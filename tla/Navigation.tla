------------------------------ MODULE Navigation ------------------------------
(***************************************************************************)
(* prog search, find, inspect and paths over a stored payload              *)
(* (prog-core/src/navigation.rs, prog-cli/src/commands/navigation.rs and   *)
(* paths.rs): a bounded traversal, joined with the findings of another     *)
(* bounded traversal, and an answer that is cut to its limit and budget.   *)
(*                                                                         *)
(* A query is one word: the name of a field or a marker of a string.  A    *)
(* hit is one unit of the budget.                                          *)
(***************************************************************************)
EXTENDS Findings

CONSTANTS
    Questions,      \* [what, query, kind, scope, limit, fits]: fits hits fit the answer
    NoQuery, NoKind,
    SearchNodes,    \* DEFAULT_MAX_NODES
    SearchDepth,    \* DEFAULT_MAX_DEPTH
    MostSemantic,   \* the findings a search asks for: 1000 in the code
    MostInspected,  \* the findings an inspection asks for: 100 in the code
    PathsDepth      \* the levels a listing of paths goes down

ASSUME NavigationAssumption ==
    /\ {SearchNodes, MostSemantic, MostInspected} \subseteq Nat
    /\ {SearchDepth, PathsDepth} \subseteq 0 .. Deepest - 1
    /\ \A q \in Questions : q.scope \in Pointers /\ q.limit \in Nat

VARIABLES
    question,       \* what is asked of the stored payload
    reply           \* none yet, or [hits, omitted]

navigationVars == <<stored, derived, question, reply>>

-----------------------------------------------------------------------------
(* Which nodes are asked for. *)

(* The node at the path of a question.                                       *)
Target(scope) == CHOOSE n \in NodesAt(stored, scope) : TRUE

(* QueryMatcher: of the name of a field, of its path, or of a string.        *)
Matches(query, path, node) ==
    \/ query = NoQuery
    \/ \E i \in DOMAIN path : path[i] = query
    \/ node.type = "string" /\ query \in Markers(node)

ErrorKinds == {"rust_compile_error", "rust_panic", "stack_trace", "test_failure",
               "compile_error", "test_name", "log_error", "exception", "stderr_error",
               "generic_error_field", "diagnostic", "command_timeout",
               "command_spawn_error", "nonzero_exit", "python_traceback"}

IsKind(requested, kind) ==
    requested = kind \/ (requested = "error" /\ kind \in ErrorKinds)

(* requested_kind_matches: of the value, or of the finding where it is.      *)
KindMatches(requested, path, node, semantic) ==
    \/ requested = NoKind
    \/ requested = node.type
    \/ \E s \in semantic : s.path = path /\ IsKind(requested, s.kind)

-----------------------------------------------------------------------------
(* The findings. *)

(* The kinds, the most confident first; those of one confidence by name.     *)
Confidences == <<"command_spawn_error", "command_timeout", "python_traceback",
                 "rust_compile_error", "rust_panic", "stack_trace", "compile_error",
                 "log_fatal", "test_failure", "test_name", "exception",
                 "generic_error_field", "log_error", "nonzero_exit", "diagnostic",
                 "diff_hunk", "stderr_error", "test_reference", "warning">>

(* How many kinds are more confident than one. *)
RankOf(kind) ==
    Cardinality({i \in DOMAIN Confidences : \A j \in 1 .. i : Confidences[j] # kind})

(* The most confident, as many as asked for.  Which of equals is abstracted. *)
Foremost(findings, most) ==
    IF Cardinality(findings) <= most THEN findings
    ELSE CHOOSE some \in SUBSET findings :
            /\ Cardinality(some) = most
            /\ \A f \in some, g \in findings \ some : RankOf(f.kind) <= RankOf(g.kind)

ScopedFindings(scope) == RankedFindings(Target(scope), scope)

(* semantic_findings: the most confident finding of each path.               *)
SemanticFindings(scope) ==
    LET found == Foremost(ScopedFindings(scope), MostSemantic)
    IN  {f \in found : \A g \in found : g.path = f.path => RankOf(f.kind) <= RankOf(g.kind)}

-----------------------------------------------------------------------------
(* SearchTraversal::visit, one node after the other, as a derivation goes    *)
(* through a payload (Findings).                                             *)

(* A search says that it stopped when a node uses up its budget, even if     *)
(* none is left; the node that it starts from does not say so by itself.     *)
SearchFirst(walk, asked, semantic) ==
    IF walk.left = <<>> THEN walk
    ELSE LET item == Head(walk.left)
             visited == walk.visited + 1
             isHit == /\ KindMatches(asked.kind, item.path, item.node, semantic)
                      /\ Matches(asked.query, item.path, item.node)
         IN  IF walk.visited >= SearchNodes \/ item.depth > SearchDepth
             THEN [walk EXCEPT !.truncated = TRUE, !.left = Tail(@)]
             ELSE [visited |-> visited,
                   truncated |-> walk.truncated \/ (item.depth # 0 /\ visited >= SearchNodes),
                   found |-> walk.found \union (IF isHit THEN {item.path} ELSE {}),
                   left |-> VisitedBelow(item) \o Tail(walk.left)]

Search(node, asked, semantic, steps) ==
    LET walk[n \in Nat] ==
            IF n = 0 THEN [visited |-> 0, truncated |-> FALSE, found |-> {},
                           left |-> <<ToVisit(node, asked.scope, 0, node, 0)>>]
            ELSE SearchFirst(walk[n - 1], asked, semantic)
    IN  walk[steps]

BoundedQuietly(hits, omitted, most) ==                         \* faulty
    [hits |-> IF Cardinality(hits) <= most THEN hits
              ELSE CHOOSE some \in SUBSET hits : Cardinality(some) = most,
     omitted |-> omitted]

(* Hits that do not fit are taken off the end, and the answer says so.       *)
Bounded(hits, omitted, most) ==
    IF Cardinality(hits) <= most THEN [hits |-> hits, omitted |-> omitted]
    ELSE [hits |-> CHOOSE some \in SUBSET hits : Cardinality(some) = most, omitted |-> TRUE]

SearchReply(asked) ==
    LET node == Target(asked.scope)
        traversed == Search(node, asked, SemanticFindings(asked.scope),
                            Cardinality(PlacesOf(node, asked.scope)))
        limited == Bounded(traversed.found, traversed.truncated, asked.limit)
    IN  Bounded(limited.hits, limited.omitted, asked.fits)

-----------------------------------------------------------------------------
(* inspect_cursor: the findings of a kind, among four times the limit.       *)

(* exceeds_node_budget counts the nodes, and not the lines of a text.        *)
ExceedsNodeBudget(node) == NodesOf(node) > SearchNodes \/ IsDeeper(node, SearchDepth)

InspectedOf(asked) == Min({4 * asked.limit, MostInspected})

InspectReply(asked) ==
    LET found == {f \in Foremost(ScopedFindings(asked.scope), InspectedOf(asked)) :
                     asked.kind = NoKind \/ IsKind(asked.kind, f.kind)}
    IN  Bounded(Foremost(found, asked.limit), ExceedsNodeBudget(Target(asked.scope)),
                asked.fits)

-----------------------------------------------------------------------------
(* collect_paths: the paths under a prefix, to a depth and up to a limit.    *)

CollectFirst(walk, most) ==
    IF walk.left = <<>> THEN walk
    ELSE LET item == Head(walk.left)
             rest == Tail(walk.left)
             found == walk.found \union {item.path}
         IN  IF Cardinality(walk.found) >= most
             THEN [walk EXCEPT !.truncated = TRUE, !.left = rest]
             ELSE IF item.depth = PathsDepth
             THEN [truncated |-> walk.truncated \/ Children(item.node) # <<>>,
                   found |-> found, left |-> rest]
             ELSE [truncated |-> walk.truncated, found |-> found,
                   left |-> VisitedBelow(item) \o rest]

CollectPaths(node, path, most, steps) ==
    LET walk[n \in Nat] ==
            IF n = 0 THEN [truncated |-> FALSE, found |-> {},
                           left |-> <<ToVisit(node, path, 0, node, 0)>>]
            ELSE CollectFirst(walk[n - 1], most)
    IN  walk[steps]

PathsReply(asked) ==
    LET node == Target(asked.scope)
        collected == CollectPaths(node, asked.scope, asked.limit,
                                  Cardinality(PlacesOf(node, asked.scope)))
    IN  [hits |-> collected.found, omitted |-> collected.truncated]

-----------------------------------------------------------------------------
NavigationInit ==
    /\ FindingsInit
    /\ question \in Questions
    /\ NodesAt(stored, question.scope) # {}
    /\ reply = {}

Ask ==
    /\ reply = {}
    /\ reply' = {CASE question.what = "search" -> SearchReply(question)
                   [] question.what = "inspect" -> InspectReply(question)
                   [] question.what = "paths" -> PathsReply(question)}
    /\ UNCHANGED <<stored, derived, question>>

NavigationNext == Ask

NavigationSpec == NavigationInit /\ [][NavigationNext]_navigationVars

-----------------------------------------------------------------------------
(* Properties. *)

Scoped == Target(question.scope)

(* The strings that show what is asked for, without any bound, and of which  *)
(* nothing else is found that is more confident.                             *)
Asked ==
    {shown \in Strings(Scoped, question.scope) :
        /\ ~IsArgv(shown.path)
        /\ \E part \in shown.parts : \E kind \in StringSignal(part) :
              /\ IsKind(question.kind, kind)
              /\ \A f \in ScopedFindings(question.scope) :
                    f.path = shown.path => RankOf(kind) <= RankOf(f.kind)}

(* A find that names no omission has found every string that shows what it   *)
(* asks for.  docs/evidence-navigation.md, of search and find: "Both         *)
(* commands cap traversal and report `node_budget` omission metadata when    *)
(* results are partial."                                                     *)
FindReportsItsLimits ==
    \A r \in reply :
        ~r.omitted /\ question.what = "search" /\ question.query = NoQuery =>
            \A shown \in Asked : shown.path \in r.hits

(* A listing of paths that does not say it stopped has them all, and a       *)
(* search that names no omission every node that its query matches.  If the  *)
(* derivation from the payload is complete and its findings are within the   *)
(* number asked for, a find has found every string that shows what it asks   *)
(* for, and an inspection that shows fewer than its limit has each of their  *)
(* findings: traversals with bounds of their own agree on what was seen.     *)
NavigationAccounts ==
    LET isDerived(most) == /\ DerivationIsComplete(stored)
                           /\ Cardinality(ScopedFindings(question.scope)) <= most
    IN  \A r \in {some \in reply : ~some.omitted} :
            /\ question.what = "paths" => r.hits = PathsOf(Scoped, question.scope)
            /\ question.what = "search" /\ question.kind = NoKind =>
                  \A place \in PlacesOf(Scoped, question.scope) :
                      Matches(question.query, place.path, place.node) => place.path \in r.hits
            /\ question.what = "search" /\ question.query = NoQuery /\ isDerived(MostSemantic) =>
                  \A shown \in Asked : shown.path \in r.hits
            /\ (/\ question.what = "inspect" /\ Cardinality(r.hits) < question.limit
                /\ isDerived(InspectedOf(question))) =>
                  \A shown \in Asked : \E f \in r.hits : f.path = shown.path
=============================================================================
