----------------------------- MODULE AdapterCalls -----------------------------
(***************************************************************************)
(* One call of an operation through the HTTP and the CLI adapter           *)
(* (prog-adapters/src/http.rs and cli.rs), and what the capture of its      *)
(* answer may prove (adapter_capture of prog-cli/src/commands/envelope.rs). *)
(*                                                                         *)
(* The answer arrives in chunks while the call reads, and may stop, be cut, *)
(* or be held open by a process that outlives its parent.  A byte of the    *)
(* model is a line; that lines are kept in windows is modelled, their text, *)
(* headers and the rendering of templates are abstracted.                   *)
(***************************************************************************)
EXTENDS Naturals, FiniteSets

CONSTANTS
    Operations,     \* [adapter, placeholders, exact, schema, shell]
    Arguments,      \* calls' arguments: [names -> {"scalar", "null", "nested"}]
    NoSchema,       \* an operation without input schema
    AllowShell,     \* the source's trust.allow_shell
    MaxBytes,       \* max_response_bytes, max_stdout_bytes, max_stderr_bytes
    HttpWindow,     \* the lines a normalized body keeps (20)
    CliWindow,      \* the lines kept of the head, and of the tail (10)
    MaxRedirects,   \* redirects followed (10)
    MaxSent         \* bound: what a source sends on one stream

ASSUME AdapterCallsAssumption ==
    /\ MaxBytes \in Nat /\ HttpWindow \in Nat /\ CliWindow \in Nat
    /\ MaxRedirects \in Nat /\ MaxSent \in Nat /\ AllowShell \in BOOLEAN
    /\ \A operation \in Operations :
          /\ operation.adapter \in {"http", "cli"}
          /\ operation.adapter = "cli" => operation.exact = {}

VARIABLES
    fetch,          \* [operation, args, phase, hops, status]
    wire,           \* per stream, what was sent and who may still send
    got,            \* per stream, what the reader has
    reply           \* the result of the call, and its capture

fetchVars == <<fetch, wire, got, reply>>

Unanswered == [kind |-> "none"]
Streams == {"out", "err"}

-----------------------------------------------------------------------------
(* Arguments. *)

(* validate_args of HTTP: what the templates name, no less and no more.      *)
HttpAccepts(operation, args) == DOMAIN args = operation.placeholders

(* arg_constraints and validate_args of CLI: a schema may ask and allow more. *)
CliAccepts(operation, args) ==
    IF operation.schema = NoSchema THEN DOMAIN args = operation.placeholders
    ELSE LET required == operation.placeholders \union operation.schema.required
             allowed == required \union operation.schema.properties
         IN  /\ required \subseteq DOMAIN args
             /\ operation.schema.open \/ DOMAIN args \subseteq allowed

(* substitute_template and arg_to_string: only scalars can be rendered.  What *)
(* is all of a string of an HTTP body stands for any value: substitute_json.  *)
Renders(operation, args) ==
    \A name \in operation.placeholders \ operation.exact : args[name] = "scalar"

Refused(operation, args) ==
    CASE operation.adapter = "http" ->
            IF ~HttpAccepts(operation, args) \/ ~Renders(operation, args)
            THEN "bad_args" ELSE "none"
      [] OTHER ->
            IF operation.shell /\ ~AllowShell THEN "shell_not_trusted"
            ELSE IF ~CliAccepts(operation, args) \/ ~Renders(operation, args)
            THEN "bad_args" ELSE "none"

-----------------------------------------------------------------------------
(* Reading, bounded. *)

(* read_bounded_body: what is over the bound is not read, and says so.        *)
TakeUntilFull(stream, chunk) ==                                \* faulty
    LET room == MaxBytes - stream.kept
    IN  IF room = 0 THEN [stream EXCEPT !.cut = TRUE, !.open = FALSE]
        ELSE [stream EXCEPT !.kept = @ + (IF chunk < room THEN chunk ELSE room),
                            !.total = @ + (IF chunk < room THEN chunk ELSE room),
                            !.open = chunk <= room]

TakeChunk(stream, chunk) ==
    LET room == MaxBytes - stream.kept
        take == IF chunk < room THEN chunk ELSE room
        over == room = 0 \/ take < chunk
    IN  [stream EXCEPT !.kept = @ + take, !.total = @ + take,
                       !.cut = @ \/ over, !.open = ~over]

(* read_bounded: all is read and counted, up to the bound it is kept.         *)
Drain(stream, chunk) ==
    LET room == MaxBytes - stream.kept
    IN  [stream EXCEPT !.kept = @ + (IF chunk < room THEN chunk ELSE room),
                       !.total = @ + chunk,
                       !.cut = @ \/ chunk > room \/ stream.total + chunk > MaxBytes]

-----------------------------------------------------------------------------
(* Normalizing. *)

Text(lines, kept, truncated) ==
    [format |-> "text", lines |-> lines, kept |-> kept, truncated |-> truncated]
Json(lines) == [format |-> "json", lines |-> lines, kept |-> lines, truncated |-> FALSE]

(* normalize_body: JSON if it can be read, else the first lines.              *)
HttpBody(stream, json) ==
    IF json THEN Json(stream.kept)
    ELSE Text(stream.kept, IF stream.kept < HttpWindow THEN stream.kept ELSE HttpWindow,
              stream.cut)

(* normalize_text: the first lines and the last.                              *)
CliText(stream) ==
    Text(stream.kept,
         IF stream.kept < 2 * CliWindow THEN stream.kept ELSE 2 * CliWindow, stream.cut)

(* normalize_stdout: JSON only of all of it.                                  *)
CliStdout(stream, json) ==
    IF json /\ ~stream.cut THEN Json(stream.kept) ELSE CliText(stream)

(* adapter_capture: complete, or cut by a bound of an adapter.                *)
AdapterCapture(adapter) ==
    IF adapter = "cli"
    THEN [complete |-> ~got.out.cut /\ ~got.err.cut,
          total |-> got.out.total + got.err.total]
    ELSE [complete |-> ~got.out.cut, total |-> got.out.total]

(* What finding_derivation_is_complete asks of a text (see Findings).         *)
Lossless(part) == part.format = "text" => part.kept >= part.lines

ProvesPayload(capture, payload) ==
    capture.complete /\ \A stream \in DOMAIN payload : Lossless(payload[stream])

-----------------------------------------------------------------------------
(* The call. *)

FetchInit ==
    /\ fetch \in [operation : Operations, args : Arguments, phase : {"ready"},
                  hops : {0}, status : {"none"}]
    /\ wire = [stream \in Streams |->
                 [sent |-> 0, holders |-> IF stream = "out" THEN {"source"}
                    ELSE IF fetch.operation.adapter = "cli" THEN {"source"} ELSE {}]]
    /\ got = [stream \in Streams |->
                [kept |-> 0, total |-> 0, cut |-> FALSE, open |-> TRUE]]
    /\ reply = Unanswered

EndsWith(error) ==
    /\ reply' = [kind |-> "error", error |-> error]
    /\ fetch' = [fetch EXCEPT !.phase = "ended"]
    /\ wire' = [stream \in Streams |-> [wire[stream] EXCEPT !.holders = {}]]
    /\ UNCHANGED got

Adapter == fetch.operation.adapter

(* Checked before anything is sent or started.                                *)
Start ==
    /\ fetch.phase = "ready"
    /\ IF Refused(fetch.operation, fetch.args) # "none"
       THEN EndsWith(Refused(fetch.operation, fetch.args))
       ELSE /\ fetch' = [fetch EXCEPT !.phase = "sent"]
            /\ UNCHANGED <<wire, got, reply>>

(* The request or the start of the process fails.                             *)
TransportFails == fetch.phase = "sent" /\ EndsWith("transport")

(* A redirect is followed to the same origin, and not too often.              *)
Redirect ==
    /\ fetch.phase = "sent" /\ Adapter = "http"
    /\ \E sameOrigin \in BOOLEAN :
          IF sameOrigin /\ fetch.hops < MaxRedirects
          THEN /\ fetch' = [fetch EXCEPT !.hops = @ + 1]
               /\ UNCHANGED <<wire, got, reply>>
          ELSE EndsWith("transport")

(* The header of the response, or the process.                                *)
Replied ==
    /\ fetch.phase = "sent"
    /\ \E status \in IF Adapter = "http" THEN {"success", "failure", "not_modified"}
                                          ELSE {"running"} :
           fetch' = [fetch EXCEPT !.phase = "body", !.status = status]
    /\ UNCHANGED <<wire, got, reply>>

(* The next chunk of a stream: what was sent and not read yet.                *)
ReadChunk(stream) ==
    LET chunk == wire[stream].sent - got[stream].total
    IN  /\ fetch.phase = "body" /\ got[stream].open
        /\ \/ /\ chunk > 0
              /\ got' = [got EXCEPT ![stream] =
                            IF Adapter = "http" THEN TakeChunk(@, chunk) ELSE Drain(@, chunk)]
           \/ /\ chunk = 0 /\ wire[stream].holders = {}
              /\ got' = [got EXCEPT ![stream].open = FALSE]
        /\ UNCHANGED <<fetch, wire, reply>>

(* A response that breaks off, a stream that cannot be read.                  *)
ReadFails ==
    /\ fetch.phase = "body" /\ \E stream \in Streams : got[stream].open
    /\ EndsWith("transport")

(* The time of a call is up: of sending, and again of reading, an HTTP        *)
(* request; of all of it for a process, whose group is killed.                *)
TimeOutOfSending == fetch.phase = "sent" /\ EndsWith("timeout")   \* faulty

TimeOut == fetch.phase \in {"sent", "body"} /\ EndsWith("timeout")

(* capture_process: the process has ended, and so have both its streams.      *)
Complete ==
    /\ fetch.phase = "body"
    /\ \A stream \in Streams : ~got[stream].open
    /\ Adapter = "cli" => fetch.status # "running"
    /\ \E json \in BOOLEAN :
          LET failed == fetch.status = "failure"
              body == IF Adapter = "http"
                      THEN [out |-> HttpBody(got.out, json)]
                      ELSE IF failed
                      THEN [out |-> CliStdout(got.out, json), err |-> CliText(got.err)]
                      ELSE [out |-> CliStdout(got.out, json)]
          IN  reply' = [kind |-> IF fetch.status = "not_modified" THEN "not_modified"
                                 ELSE IF failed THEN "error_evidence" ELSE "answer",
                        payload |-> body, capture |-> AdapterCapture(Adapter)]
    /\ fetch' = [fetch EXCEPT !.phase = "ended"]
    /\ UNCHANGED <<wire, got>>

-----------------------------------------------------------------------------
(* The source. *)

SourceSends ==
    \E stream \in Streams, n \in 1 .. 2 :
        /\ fetch.phase = "body" /\ wire[stream].holders # {}
        /\ wire[stream].sent + n <= MaxSent
        /\ wire' = [wire EXCEPT ![stream].sent = @ + n]
        /\ UNCHANGED <<fetch, got, reply>>

(* The body ends; or the process does, its streams held by another or not.     *)
SourceEnds ==
    /\ fetch.phase = "body"
    /\ "source" \in wire.out.holders \union wire.err.holders
    /\ IF Adapter = "http"
       THEN /\ wire' = [wire EXCEPT !.out.holders = {}]
            /\ UNCHANGED fetch
       ELSE /\ \E held \in SUBSET Streams :
                  wire' = [stream \in Streams |-> [wire[stream] EXCEPT
                             !.holders = IF stream \in held THEN {"helper"} ELSE {}]]
            /\ \E status \in {"success", "failure"} :
                  fetch' = [fetch EXCEPT !.status = status]
    /\ UNCHANGED <<got, reply>>

HelperEnds ==
    /\ \E stream \in Streams : "helper" \in wire[stream].holders
    /\ wire' = [stream \in Streams |->
                  [wire[stream] EXCEPT !.holders = @ \ {"helper"}]]
    /\ UNCHANGED <<fetch, got, reply>>

FetchClient ==
    \/ Start \/ TransportFails \/ Redirect \/ Replied \/ ReadFails \/ Complete
    \/ \E stream \in Streams : ReadChunk(stream)
FetchNext == FetchClient \/ TimeOut \/ SourceSends \/ SourceEnds \/ HelperEnds

(* The timers of tokio fire, and what is ready is taken.                       *)
FetchesFairly == WF_fetchVars(Start) /\ WF_fetchVars(TimeOut)
FetchSpec == FetchInit /\ [][FetchNext]_fetchVars /\ FetchesFairly

-----------------------------------------------------------------------------
(* If the capture of an answer may prove something absent, its payload has     *)
(* every line the source sent, and the source had ended: none beyond a bound,  *)
(* outside a window, or still to come from a process that outlives its parent. *)
ProvenAnswersAreWhole ==
    (reply.kind \in {"answer", "error_evidence"} /\ ProvesPayload(reply.capture, reply.payload)) =>
        \A stream \in DOMAIN reply.payload :
            /\ reply.payload[stream].kept = wire[stream].sent
            /\ wire[stream].holders = {}

FetchTypeOK ==
    /\ fetch \in [operation : Operations, args : Arguments,
                  phase : {"ready", "sent", "body", "ended"},
                  hops : 0 .. MaxRedirects,
                  status : {"none", "success", "failure", "not_modified", "running"}]
    /\ wire \in [Streams -> [sent : 0 .. MaxSent,
                             holders : SUBSET {"source", "helper"}]]
    /\ got \in [Streams -> [kept : 0 .. MaxBytes, total : 0 .. MaxSent,
                            cut : BOOLEAN, open : BOOLEAN]]

(* What is not cut is all that was read, and the end of it was the end.        *)
StreamRead(stream) ==
    /\ got[stream].total <= wire[stream].sent
    /\ ~got[stream].cut =>
          /\ got[stream].kept = got[stream].total
          /\ ~got[stream].open =>
                got[stream].total = wire[stream].sent /\ wire[stream].holders = {}

(* A process holds both its streams until it ends; HTTP has only one.          *)
FetchInv ==
    /\ FetchTypeOK
    /\ \A stream \in Streams : StreamRead(stream)
    /\ IF Adapter = "cli"
       THEN "source" \in wire.out.holders <=> "source" \in wire.err.holders
       ELSE wire.err.holders = {} /\ "helper" \notin wire.out.holders
    /\ reply.kind # "none" => fetch.phase = "ended"
    /\ reply.kind \in {"answer", "error_evidence"} =>
          DOMAIN reply.payload \subseteq Streams
    /\ ProvenAnswersAreWhole

(* A call ends, however slowly a source answers, redirects or stops.           *)
FetchesEnd == <>(fetch.phase = "ended")
=============================================================================
