----------------------------- MODULE McpSession ------------------------------
(***************************************************************************)
(* A request to an MCP server over stdio (prog-adapters/src/mcp.rs and     *)
(* mcp/stderr.rs): spawn, handshake, the request or the lists of a         *)
(* discovery, and a shutdown that collects the server's diagnostics.       *)
(*                                                                         *)
(* The server is a process that may start a helper; both may hold its      *)
(* standard error.  A reader of prog's drains that, beside the protocol.   *)
(* Every wait has a timeout.  The messages of the protocol are rmcp's; of  *)
(* a result the model keeps what decides how it is normalised: its size,   *)
(* its lines and the kind of its content.                                  *)
(***************************************************************************)
EXTENDS Naturals, Sequences, FiniteSets, Absent

CONSTANTS
    Methods,        \* of the methods below, the ones considered
    Capabilities,   \* what servers may offer: sets of capabilities
    Results,        \* tool and resource results, see Normalize
    ContentCap,     \* max_content_bytes
    StderrCap,      \* max_stderr_bytes
    MaxWrites       \* bound: what the server and its helper write to stderr

TaskMethods == {"start", "get", "result", "cancel"}
Method == TaskMethods \union {"discover", "call", "read"}
Lists == <<"tools", "resources", "prompts">>
Result == [content : {"structured", "text", "blob"}, bytes : Nat, lines : Nat,
           cutLines : Nat, isJson : BOOLEAN, isError : BOOLEAN, blockBytes : Nat]

ASSUME McpAssumption ==
    /\ ContentCap \in Nat /\ StderrCap \in Nat /\ MaxWrites \in Nat
    /\ Methods \subseteq Method /\ Results \subseteq Result

VARIABLES
    mcp,            \* the client: [method, phase, list, interrupted]
    peer,           \* the server: which of its processes live, and its answer
    errors,         \* standard error: [written, held, seen, drain]
    group,          \* the process group prog owns: "armed", "disarmed", "killed"
    outcome         \* what the request gives

mcpVars == <<mcp, peer, errors, group, outcome>>

-----------------------------------------------------------------------------
(* How a result is normalised. *)

Window == 10        \* lines kept at either end of a text

Normal(format, lines, kept, truncated) ==
    [format |-> format, lines |-> lines, kept |-> kept, truncated |-> truncated,
     received_error |-> FALSE]
Whole(result) == Normal("data", result.lines, result.lines, FALSE)

(* normalize_text: a text that parses as JSON is data, any other keeps two   *)
(* windows of lines; one that is too long is cut first, and never parsed.    *)
NormalText(result) ==
    LET cut == result.bytes > ContentCap
        lines == IF cut THEN result.cutLines ELSE result.lines
        windowed == IF lines > 2 * Window THEN 2 * Window ELSE lines
    IN  IF ~cut /\ result.isJson THEN Whole(result)
        ELSE Normal("text", lines, windowed, cut)

(* Structured content comes before the blocks, which come as their text, or  *)
(* whole where they have none; a structured value that is too large is       *)
(* projected to its beginning.                                               *)
NormalData(result) ==
    CASE result.content = "structured" ->
            IF result.bytes <= ContentCap THEN Whole(result)
            ELSE Normal("projection", result.lines, result.cutLines, TRUE)
      [] result.content = "text" -> NormalText(result)
      [] result.content = "blob" -> Whole(result)

(* The blocks of a tool's result are attached without their _meta, or        *)
(* projected; a resource has none.                                           *)
Normalize(method, result) ==
    IF method = "read" THEN NormalData(result)
    ELSE [NormalData(result) EXCEPT !.truncated = @ \/ result.blockBytes > ContentCap,
                                    !.received_error = result.isError]

(* What is recorded of it: a truncated response proves nothing absent, nor   *)
(* does a text with lines outside the windows (envelope.rs adapter_capture,  *)
(* findings.rs finding_derivation_is_complete).                              *)
ProvesUnlessCut(normal) == ~normal.truncated                   \* faulty

ProvesAbsence(normal) ==
    /\ ~normal.truncated
    /\ normal.format = "text" => normal.lines <= 2 * Window

-----------------------------------------------------------------------------
(* The session. *)

McpInit ==
    /\ mcp \in [method : Methods, phase : {"spawn"}, list : {1},
                interrupted : {None}]
    /\ \E offers \in Capabilities :
          peer = [server |-> FALSE, helper |-> FALSE, offers |-> offers,
                  executed |-> 0, answered |-> FALSE]
    /\ errors = [written |-> 0, held |-> {}, seen |-> 0, drain |-> "reading",
                 severed |-> FALSE]
    /\ group = "armed"
    /\ outcome = None

(* Of a method, what the peer must have negotiated (require_task_capability).*)
Required(method) ==
    CASE method = "start" -> {"tasks", "tools_call"}
      [] method = "cancel" -> {"tasks", "tasks_cancel"}
      [] method \in {"get", "result"} -> {"tasks"}
      [] OTHER -> {}

(* Killing the group closes what its processes hold.                         *)
Killed ==
    /\ group' = "killed"
    /\ peer' = [peer EXCEPT !.server = FALSE, !.helper = FALSE]

(* The session is dropped: the reader aborted, the group killed.             *)
Fail(error) ==
    /\ outcome' = [kind |-> "error", error |-> error]
    /\ mcp' = [mcp EXCEPT !.phase = "ended"]
    /\ errors' = [errors EXCEPT
                    !.drain = IF @ = "reading" THEN "aborted" ELSE @,
                    !.severed = @ \/ errors.held # {}, !.held = {}]
    /\ Killed

SpawnServer ==
    /\ mcp.phase = "spawn"
    /\ \/ /\ mcp' = [mcp EXCEPT !.phase = "handshake"]
          /\ peer' = [peer EXCEPT !.server = TRUE]
          /\ errors' = [errors EXCEPT !.held = {"server"}]
          /\ UNCHANGED <<group, outcome>>
       \/ Fail("transport")

(* The methods of one request go on; a discovery lists what is offered.      *)
Asks(method, list) ==
    method = "discover" => list <= Len(Lists) /\ Lists[list] \in peer.offers

Handshake ==
    /\ mcp.phase = "handshake" /\ peer.server
    /\ IF ~(Required(mcp.method) \subseteq peer.offers)
       THEN Fail("bad_args")
       ELSE /\ mcp' = [mcp EXCEPT !.phase = "request"]
            /\ UNCHANGED <<peer, errors, group, outcome>>

(* connect: the handshake failed, or took longer than timeout_ms.            *)
HandshakeFails ==
    /\ mcp.phase = "handshake"
    /\ Fail(IF peer.server THEN "timeout" ELSE "transport")

(* The next of the lists of a discovery that the server offers.              *)
SkipList ==
    /\ mcp.phase = "request" /\ ~Asks(mcp.method, mcp.list)
    /\ mcp' = IF mcp.list < Len(Lists) THEN [mcp EXCEPT !.list = @ + 1]
              ELSE [mcp EXCEPT !.phase = "close"]
    /\ UNCHANGED <<peer, errors, group, outcome>>

(* The server does what it is asked, and answers when it has.                *)
ServerExecutes ==
    /\ mcp.phase = "request" /\ Asks(mcp.method, mcp.list)
    /\ peer.server /\ ~peer.answered
    /\ peer' = [peer EXCEPT !.executed = @ + 1, !.answered = TRUE]
    /\ UNCHANGED <<mcp, errors, group, outcome>>

Accept(value) ==
    /\ outcome' = value
    /\ mcp' = IF mcp.method = "discover" /\ mcp.list < Len(Lists)
              THEN [mcp EXCEPT !.list = @ + 1]
              ELSE [mcp EXCEPT !.phase = "close"]
    /\ peer' = [peer EXCEPT !.answered = FALSE]
    /\ UNCHANGED <<errors, group>>

Answered(method) == mcp.phase = "request" /\ mcp.method = method /\ peer.answered

Normalized(result) == [kind |-> "result", result |-> result,
                       normal |-> Normalize(mcp.method, result)]

DiscoverList == Answered("discover") /\ Accept(None)

CallTool == /\ Answered("call")
            /\ \E result \in Results : Accept(Normalized(result))

ReadResource == /\ Answered("read")
                /\ \E result \in Results : Accept(Normalized(result))

(* A task method takes one snapshot of the task, and never polls; an answer  *)
(* of another type is an error, with the session dropped.                    *)
CallToolAsTask == /\ Answered("start")
                  /\ Accept([kind |-> "task"]) \/ Fail("protocol")

GetTask == /\ Answered("get")
           /\ Accept([kind |-> "task"]) \/ Fail("protocol")

CancelTask == /\ Answered("cancel")
              /\ Accept([kind |-> "task"]) \/ Fail("protocol")

(* The payload of a task must be the result of a tool.                       *)
GetTaskResult ==
    /\ Answered("result")
    /\ \/ \E result \in Results : Accept(Normalized(result))
       \/ Fail("protocol")

Answer == DiscoverList \/ CallTool \/ ReadResource \/ CallToolAsTask \/ GetTask
          \/ CancelTask \/ GetTaskResult

(* request: an error of the service, or timeout_ms has passed, whether or    *)
(* not the server has done what it was asked.                                *)
RequestFailsIfAlive ==                                         \* faulty
    /\ mcp.phase = "request" /\ Asks(mcp.method, mcp.list)
    /\ peer.answered /\ Fail("protocol")

RequestFails ==
    /\ mcp.phase = "request" /\ Asks(mcp.method, mcp.list)
    /\ \E error \in {"protocol", "transport", "timeout"} : Fail(error)

(* shutdown: closing the client waits for the server to exit, or not.        *)
Close ==
    /\ mcp.phase = "close"
    /\ \/ /\ peer' = [peer EXCEPT !.server = FALSE]
          /\ errors' = [errors EXCEPT !.held = @ \ {"server"}]
          /\ mcp' = [mcp EXCEPT !.phase = "drain"]
       \/ /\ \E reason \in {"shutdown_timeout", "shutdown_failed"} :
                mcp' = [mcp EXCEPT !.phase = "drain", !.interrupted = reason]
          /\ UNCHANGED <<peer, errors>>
    /\ UNCHANGED <<group, outcome>>

(* StderrDrain::finish: the reader is done, or is aborted: at once after an  *)
(* interrupted shutdown, else when timeout_ms has passed.                    *)
StopReason ==
    CASE errors.drain = "eof" -> "eof"
      [] errors.drain = "failed" -> "read_error"
      [] OTHER -> IF mcp.interrupted # None THEN mcp.interrupted ELSE "timeout"

CollectThenDispose ==
    /\ mcp.phase = "drain"
    /\ mcp' = [mcp EXCEPT !.phase = "ended"]
    /\ outcome' = [kind |-> IF outcome = None THEN "lists" ELSE outcome.kind,
                   answer |-> outcome,
                   complete |-> StopReason = "eof", observed |-> errors.seen,
                   captured |-> IF errors.seen > StderrCap THEN StderrCap
                                ELSE errors.seen]
    /\ IF mcp.interrupted = None /\ StopReason = "eof"
       THEN /\ group' = "disarmed"
            /\ UNCHANGED <<peer, errors>>
       ELSE /\ Killed
            /\ errors' = [errors EXCEPT
                            !.drain = IF @ = "reading" THEN "aborted" ELSE @,
                            !.severed = @ \/ errors.held # {}, !.held = {}]

(* If the group were killed first, the reader would see the end of a stream  *)
(* that the killing cut.                                                     *)
DisposeThenCollect ==                                           \* faulty
    /\ mcp.phase = "drain"
    /\ mcp' = [mcp EXCEPT !.phase = "ended"]
    /\ outcome' = [kind |-> IF outcome = None THEN "lists" ELSE outcome.kind,
                   answer |-> outcome,
                   complete |-> TRUE, observed |-> errors.written,
                   captured |-> IF errors.written > StderrCap THEN StderrCap
                                ELSE errors.written]
    /\ Killed
    /\ errors' = [errors EXCEPT !.drain = "eof",
                                !.severed = @ \/ errors.held # {}, !.held = {}]

Collect == CollectThenDispose

-----------------------------------------------------------------------------
(* The reader, and the server's processes. *)

ReadStderr ==
    /\ mcp.phase # "ended" /\ errors.drain = "reading"
    /\ \/ /\ errors.seen < errors.written
          /\ errors' = [errors EXCEPT !.seen = @ + 1]
       \/ /\ errors.seen = errors.written /\ errors.held = {}
          /\ mcp.phase # "spawn"
          /\ errors' = [errors EXCEPT !.drain = "eof"]
       \/ /\ mcp.phase # "spawn"
          /\ errors' = [errors EXCEPT !.drain = "failed"]
    /\ UNCHANGED <<mcp, peer, group, outcome>>

WriteStderr ==
    /\ errors.held # {} /\ errors.written < MaxWrites
    /\ errors' = [errors EXCEPT !.written = @ + 1]
    /\ UNCHANGED <<mcp, peer, group, outcome>>

StartHelper ==
    /\ peer.server /\ ~peer.helper
    /\ peer' = [peer EXCEPT !.helper = TRUE]
    /\ \/ errors' = [errors EXCEPT !.held = @ \union {"helper"}]
       \/ UNCHANGED errors
    /\ UNCHANGED <<mcp, group, outcome>>

ServerExits ==
    /\ peer.server
    /\ peer' = [peer EXCEPT !.server = FALSE]
    /\ errors' = [errors EXCEPT !.held = @ \ {"server"}]
    /\ UNCHANGED <<mcp, group, outcome>>

HelperExits ==
    /\ peer.helper
    /\ peer' = [peer EXCEPT !.helper = FALSE]
    /\ errors' = [errors EXCEPT !.held = @ \ {"helper"}]
    /\ UNCHANGED <<mcp, group, outcome>>

McpClient == SpawnServer \/ Handshake \/ HandshakeFails \/ SkipList \/ Answer
             \/ RequestFails \/ Close \/ Collect
McpNext == \/ McpClient \/ ReadStderr
           \/ ServerExecutes \/ WriteStderr \/ StartHelper \/ ServerExits \/ HelperExits

(* Each wait of the client ends at its timeout at the latest.                *)
McpFairly == WF_mcpVars(McpClient)
McpSpec == McpInit /\ [][McpNext]_mcpVars /\ McpFairly

-----------------------------------------------------------------------------
(* Properties. *)

Ended == mcp.phase = "ended"

(* Diagnostics are called complete only if every byte the server and its     *)
(* helper wrote was observed and nobody was cut short to make the stream     *)
(* end; and when the request is over nothing prog owns still holds it.       *)
(* mcp.rs, shutdown: "EOF caused by cleanup must not turn interrupted        *)
(* diagnostics into a complete capture."                                     *)
DiagnosticsAreWhole ==
    /\ (Ended /\ outcome.kind # "error" /\ outcome.complete) =>
          /\ outcome.observed = errors.written
          /\ ~errors.severed
    /\ Ended => errors.held = {}
    /\ group = "disarmed" => errors.drain = "eof"

(* A result that may prove something absent is kept whole.                   *)
ProvenResultsAreWhole ==
    (/\ outcome # None /\ outcome.kind = "result" /\ ~Ended
     /\ ProvesAbsence(outcome.normal)) =>
            /\ outcome.normal.kept = outcome.result.lines
            /\ outcome.result.content # "blob" =>
                  outcome.result.bytes <= ContentCap

McpTypeOK ==
    /\ mcp \in [method : Methods, list : 1 .. Len(Lists),
                phase : {"spawn", "handshake", "request", "close", "drain", "ended"},
                interrupted : {None, "shutdown_timeout", "shutdown_failed"}]
    /\ peer \in [server : BOOLEAN, helper : BOOLEAN, offers : Capabilities,
                 executed : Nat, answered : BOOLEAN]
    /\ errors \in [written : 0 .. MaxWrites, held : SUBSET {"server", "helper"},
                   seen : 0 .. MaxWrites, severed : BOOLEAN,
                   drain : {"reading", "eof", "failed", "aborted"}]
    /\ group \in {"armed", "disarmed", "killed"}

(* The reader is never ahead, and an end it has seen is one: nobody is left  *)
(* to write, and the server, which could start somebody who is, has gone.    *)
StreamInv ==
    /\ errors.seen <= errors.written
    /\ peer.server => "server" \in errors.held
    /\ errors.drain = "eof" =>
          errors.seen = errors.written /\ errors.held = {} /\ mcp.phase # "spawn"
    /\ (errors.severed \/ group = "disarmed") => Ended

NormalizedInv ==
    (outcome # None /\ outcome.kind = "result" /\ ~Ended) =>
        /\ outcome.result \in Results
        /\ outcome.normal = Normalize(mcp.method, outcome.result)

McpInv == McpTypeOK /\ StreamInv /\ NormalizedInv /\ DiagnosticsAreWhole

(* Every request ends, whatever the server does.                             *)
McpRequestsEnd == <>Ended
=============================================================================
