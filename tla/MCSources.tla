------------------------------ MODULE MCSources ------------------------------
(***************************************************************************)
(* An instance, for TLC, of what prog does with its sources: the updates   *)
(* of their profiles, the locks of a call, the pages it follows, and the   *)
(* exchanges with an MCP server, an HTTP server and a command.  The parts  *)
(* share no state, so one of them is explored in each behaviour, and the   *)
(* others rest in a state in which they may rest for ever.                 *)
(***************************************************************************)
EXTENDS ProfileUpdates, CallLocks, Pages, McpSession, AdapterCalls

CONSTANTS p1, p2, p3, f1, f2

VARIABLE part

Exchange(content, bytes, lines, cutLines, isJson, isError, blockBytes) ==
    [content |-> content, bytes |-> bytes, lines |-> lines,
     cutLines |-> cutLines, isJson |-> isJson, isError |-> isError,
     blockBytes |-> blockBytes]
McpResults ==
    {Exchange("structured", b, 25, 15, FALSE, FALSE, 1) : b \in {1, 3}}
    \cup {Exchange("text", b, 25, 15, j, FALSE, 1) : b \in {1, 3}, j \in BOOLEAN}
    \cup {Exchange("text", 3, 12, 10, FALSE, TRUE, 1),
          Exchange("blob", 3, 25, 15, FALSE, FALSE, 3)}
McpCapabilities ==
    {{"tools"}, {"tools", "prompts", "tasks"},
     {"tools", "tasks", "tools_call", "tasks_cancel"}}

Declared(adapter, exact, schema, shell) ==
    [adapter |-> adapter, placeholders |-> {"id"}, exact |-> exact,
     schema |-> schema, shell |-> shell]
Calls == {Declared("http", {}, NoSchema, FALSE),
          Declared("http", {"id"}, NoSchema, FALSE),
          Declared("cli", {}, NoSchema, FALSE),
          Declared("cli", {}, [required |-> {}, properties |-> {"x"}, open |-> FALSE],
                   TRUE)}
CallArguments ==
    {[n \in {"id"} |-> "scalar"], [n \in {"id"} |-> "null"],
     [n \in {"id", "x"} |-> "scalar"], [n \in {"x"} |-> "scalar"]}

-----------------------------------------------------------------------------
\* A session whose server did not start, and a call whose request failed.
McpAtRest ==
    /\ mcp = [method |-> "call", phase |-> "ended", list |-> 1,
              interrupted |-> None]
    /\ peer = [server |-> FALSE, helper |-> FALSE, offers |-> {"tools"},
               executed |-> 0, answered |-> FALSE]
    /\ errors = [written |-> 0, held |-> {}, seen |-> 0, drain |-> "aborted",
                 severed |-> FALSE]
    /\ group = "killed"
    /\ outcome = [kind |-> "error", error |-> "transport"]
FetchAtRest ==
    /\ fetch = [operation |-> Declared("http", {}, NoSchema, FALSE),
                args |-> [n \in {"id"} |-> "scalar"], phase |-> "ended",
                hops |-> 0, status |-> "none"]
    /\ wire = [stream \in Streams |-> [sent |-> 0, holders |-> {}]]
    /\ got = [stream \in Streams |->
                [kept |-> 0, total |-> 0, cut |-> FALSE, open |-> TRUE]]
    /\ reply = [kind |-> "error", error |-> "transport"]
PagesAtRest ==
    /\ paged = [strategy |-> "token", count |-> 1,
                bytes |-> [n \in 1 .. Max(PageCounts) |-> 1],
                speaks |-> TRUE, probed |-> None]
    /\ loop = LoopStart(2) /\ ended = None /\ servedPages = None

SourcesInit ==
    /\ Init /\ LocksInit
    /\ \/ part \in {"profile", "locks"} /\ PagesAtRest /\ McpAtRest /\ FetchAtRest
       \/ part = "pages" /\ PagesInit /\ McpAtRest /\ FetchAtRest
       \/ part = "mcp" /\ PagesAtRest /\ McpInit /\ FetchAtRest
       \/ part = "fetch" /\ PagesAtRest /\ McpAtRest /\ FetchInit

SourcesNext ==
    \/ /\ part = "profile" /\ Next
       /\ UNCHANGED <<lockVars, pagesVars, mcpVars, fetchVars, part>>
    \/ /\ part = "locks" /\ LocksNext
       /\ UNCHANGED <<vars, pagesVars, mcpVars, fetchVars, part>>
    \/ /\ part = "pages" /\ PagesNext
       /\ UNCHANGED <<vars, lockVars, mcpVars, fetchVars, part>>
    \/ /\ part = "mcp" /\ McpNext
       /\ UNCHANGED <<vars, lockVars, pagesVars, fetchVars, part>>
    \/ /\ part = "fetch" /\ FetchNext
       /\ UNCHANGED <<vars, lockVars, pagesVars, mcpVars, part>>

\* The fairness of the parts, as each module states and justifies it.
SourcesSpec ==
    /\ SourcesInit
    /\ [][SourcesNext]_<<vars, lockVars, pagesVars, mcpVars, fetchVars, part>>
    /\ UpdatesFairly /\ LocksFairly /\ McpFairly /\ FetchesFairly

\* Every exchange with a source ends - a request to an MCP server, an HTTP
\* request, a command - whatever the source and what it has started do.
ExchangesEnd == McpRequestsEnd /\ FetchesEnd
=============================================================================
