---------------------------- MODULE CommandRun ----------------------------
(***************************************************************************)
(* How a command is run, and what its capture may claim.                   *)
(*                                                                         *)
(* Three programs share the machinery.  `prog run` starts a child in a     *)
(* process group of its own, reads its two streams up to a cap, and waits  *)
(* for its exit and for the end of both streams under one deadline, or     *)
(* until it is cancelled.  A registered CLI source does the same, and when *)
(* it is interrupted returns an error.  A shim relays everything to where  *)
(* it would have gone without prog, without a deadline.                    *)
(*                                                                         *)
(* The child may leave descendants that hold its streams open after it has *)
(* exited, in its group or in one of their own.  A byte is its position in *)
(* its stream: readers keep a prefix, so a number says what they have.     *)
(***************************************************************************)
EXTENDS Naturals, Sequences, FiniteSets, SequencesExt

CONSTANTS
    None,
    Child,       \* the command that prog starts
    Descendant,  \* what it may start in turn
    Kinds,       \* the programs to consider
    Codes,       \* how a child may exit, by itself or by a signal
    Cap,         \* bytes kept of a stream
    MaxWritten   \* bounds on the bytes written to each stream

Stream == {"stdout", "stderr"}
OsProcess == {Child} \cup Descendant
Kind == {"run", "source", "shim", "merged"}  \* merged: a shim with 2>&1

ASSUME KindsAssumption == Kinds \subseteq Kind
ASSUME ProcessAssumption == Child \notin Descendant
ASSUME CodesAssumption == None \notin Codes
ASSUME CapAssumption == Cap \in Nat /\ MaxWritten \in [Stream -> Nat]

VARIABLES
    kind,      \* which program runs
    os,        \* the child and its descendants
    exit,      \* how the child exited, None while it runs or when prog killed it
    written,   \* bytes written to each stream
    relayed,   \* bytes that were passed on (shims)
    closed,    \* streams whose consumer has gone (shims)
    deadline,  \* none, ahead or passed
    cancelled, \* SIGINT or SIGTERM has reached prog
    pc,
    reader,    \* the task or thread that reads each stream
    chunks,    \* the order in which kept bytes were read
    joined,    \* the readers whose results prog has
    status,    \* the exit prog has seen
    cause,     \* what interrupted the capture
    report     \* the outcome

readVars == <<relayed, reader, chunks>>
loopVars == <<joined, status, cause>>
vars == <<kind, os, exit, written, relayed, closed, deadline, cancelled, pc,
          reader, chunks, joined, status, cause, report>>

Shim == kind \in {"shim", "merged"}
\* With 2>&1 the child has one pipe for both.
Pipes == IF kind = "merged" THEN {"stdout"} ELSE Stream
CapOf(s) == IF kind = "merged" THEN Cap + Cap ELSE Cap

Capture == [kept : Nat, total : Nat, truncated : BOOLEAN]
NothingCaptured == [kept |-> 0, total |-> 0, truncated |-> FALSE]
ReaderState == {"reading", "done", "failed", "aborted"}
Reader == [state : ReaderState, got : Capture]

Outcome == {"exited", "timeout", "cancelled", "spawn_error", "error", "died"}
Availability == {"recoverable", "capture_truncated", "redacted"}
StopReason == {"complete", "byte_limit", "timeout", "cancelled", "redacted",
               "derivation_windowed"}
\* The report of a capture; `evidence`: an observation is recorded.
IsReport(r) ==
    /\ r.outcome \in Outcome /\ r.code \in Codes \cup {None}
    /\ r.evidence \in BOOLEAN /\ r.proves \in BOOLEAN
    /\ DOMAIN r.streams = Stream
    /\ r.combined \in Seq([stream : Stream, n : Nat])
    /\ r.availability \in Availability /\ r.stop \in StopReason

Init ==
    /\ kind \in Kinds
    /\ os = [q \in OsProcess |-> [state |-> "none", grouped |-> FALSE,
                                  holds |-> {}]]
    /\ exit = None
    /\ written = [s \in Stream |-> 0]
    /\ relayed = [s \in Stream |-> 0]
    /\ closed = {}
    /\ deadline \in CASE Shim -> {"none"}
                     [] kind = "run" -> {"none", "ahead"}
                     [] OTHER -> {"ahead"}
    /\ cancelled = FALSE
    /\ pc = "start"
    /\ reader = [s \in Stream |-> [state |-> "reading", got |-> NothingCaptured]]
    /\ chunks = <<>>
    /\ joined = {}
    /\ status = None
    /\ cause = None
    /\ report = None

-----------------------------------------------------------------------------
(* The child and its descendants.                                          *)

Alive(q) == os[q].state = "alive"

\* Faulty variant: prog keeps its own copies of the write ends.
OpenByProg(s) ==
    \/ pc # "ended"
    \/ \E q \in OsProcess : Alive(q) /\ s \in os[q].holds

Open(s) == \E q \in OsProcess : Alive(q) /\ s \in os[q].holds
\* Nobody reads the pipe: the read end of an aborted reader is dropped.
Listening(s) == reader[s].state = "reading"

Write(q, s) ==
    /\ Alive(q) /\ s \in os[q].holds /\ Listening(s)
    /\ written[s] < MaxWritten[s]
    /\ written' = [written EXCEPT ![s] = @ + 1]
    /\ UNCHANGED <<kind, os, exit, closed, deadline, cancelled, pc, readVars,
                   loopVars, report>>

\* A descendant inherits streams and the group, or begins its own.
Fork(q, d, holds, grouped) ==
    /\ Alive(q) /\ os[d].state = "none"
    /\ holds \subseteq os[q].holds
    /\ grouped => os[q].grouped
    /\ os' = [os EXCEPT ![d] = [state |-> "alive", grouped |-> grouped,
                                holds |-> holds]]
    /\ UNCHANGED <<kind, exit, written, closed, deadline, cancelled, pc, readVars,
                   loopVars, report>>

\* A process ends, the child with one of its codes.
Exit(q, code) ==
    /\ Alive(q)
    /\ os' = [os EXCEPT ![q].state = "dead"]
    /\ exit' = IF q = Child THEN code ELSE exit
    /\ UNCHANGED <<kind, written, closed, deadline, cancelled, pc, readVars,
                   loopVars, report>>

\* A consumer such as `head` goes away.
CloseDownstream(s) ==
    /\ Shim /\ s \in Pipes \ closed /\ pc # "ended"
    /\ closed' = closed \cup {s}
    /\ UNCHANGED <<kind, os, exit, written, deadline, cancelled, pc, readVars,
                   loopVars, report>>

DeadlinePasses ==
    /\ deadline = "ahead" /\ pc \notin {"start", "ended"}
    /\ deadline' = "passed"
    /\ UNCHANGED <<kind, os, exit, written, closed, cancelled, pc, readVars,
                   loopVars, report>>

OsStep ==
    \/ \E q \in OsProcess, s \in Stream : Write(q, s)
    \/ \E q \in OsProcess, d \in Descendant, holds \in SUBSET Stream,
          grouped \in BOOLEAN : Fork(q, d, holds, grouped)
    \/ \E q \in OsProcess, code \in Codes : Exit(q, code)
    \/ \E s \in Stream : CloseDownstream(s)
    \/ DeadlinePasses

\* SIGKILL reaches the members of the group and the child.
Killed(q) == Alive(q) /\ (os[q].grouped \/ q = Child)

\* Faulty variant: the group is known by the child's pid, which wait() takes.
KillUnreaped ==
    os' = [q \in OsProcess |->
              IF Killed(q) /\ status = None
              THEN [os[q] EXCEPT !.state = "dead"] ELSE os[q]]

KillGroup ==
    os' = [q \in OsProcess |->
              IF Killed(q) THEN [os[q] EXCEPT !.state = "dead"] ELSE os[q]]

-----------------------------------------------------------------------------
(* The readers: read_run_stream and read_bounded, and the relays of shims. *)

Reads == pc \in {"waiting", "draining"}

\* Faulty variant: a full buffer is what is cut.
ExtendedUntilFull(got, n, cap) ==
    LET remaining == cap - got.kept
    IN  [kept |-> IF n < remaining THEN got.kept + n ELSE cap,
         total |-> got.total + n,
         truncated |-> got.truncated \/ (remaining > 0 /\ n > remaining)]

\* Faulty variant: a chunk that does not fit is kept as a whole.
ExtendedWhole(got, n, cap) ==
    [kept |-> IF got.kept < cap THEN got.kept + n ELSE got.kept,
     total |-> got.total + n, truncated |-> got.truncated \/ got.kept + n > cap]

\* Reading n more bytes into a capture with this cap.
Extended(got, n, cap) ==
    LET remaining == cap - got.kept
    IN  [kept |-> IF n < remaining THEN got.kept + n ELSE cap,
         total |-> got.total + n,
         truncated |-> got.truncated \/ n > remaining]

\* Faulty variant: what is not kept is not relayed.
RelayKept(s, n) ==
    relayed' = [relayed EXCEPT ![s] =
                  @ + Extended(reader[s].got, n, CapOf(s)).kept
                    - reader[s].got.kept]

\* A shim passes on all it reads, also beyond the cap.
Relay(s, n) == relayed' = [relayed EXCEPT ![s] = IF Shim THEN @ + n ELSE @]

Read(s, n) ==
    LET got == Extended(reader[s].got, n, CapOf(s))
        new == got.kept - reader[s].got.kept
    IN  /\ s \in Pipes /\ Reads
        /\ Listening(s) /\ s \notin closed
        /\ n <= written[s] - reader[s].got.total
        /\ reader' = [reader EXCEPT ![s].got = got]
        /\ chunks' = IF new > 0
                     THEN Append(chunks, [stream |-> s, n |-> new]) ELSE chunks
        /\ Relay(s, n)
        /\ UNCHANGED <<kind, os, exit, written, closed, deadline, cancelled, pc,
                       loopVars, report>>

Stopped(s, state, truncated, n) ==
    /\ s \in Pipes /\ Reads /\ Listening(s)
    /\ reader' = [reader EXCEPT ![s] =
          [state |-> state,
           got |-> [kept |-> @.got.kept, total |-> @.got.total + n,
                    truncated |-> @.got.truncated \/ truncated]]]
    /\ UNCHANGED <<kind, os, exit, written, relayed, closed, deadline, cancelled,
                   pc, chunks, loopVars, report>>

\* End of file: everything was read, and nobody can write any more.
ReadEnd(s) ==
    /\ written[s] = reader[s].got.total /\ ~Open(s)
    /\ Stopped(s, "done", FALSE, 0)

\* A shim that fails to read keeps what it has as cut.
ReadFails(s) ==
    IF Shim THEN Stopped(s, "done", TRUE, 0) ELSE Stopped(s, "failed", FALSE, 0)

\* Passing on fails: the shim stops reading, so that the child sees it too.
RelayFails(s, n) ==
    /\ s \in closed /\ n <= written[s] - reader[s].got.total
    /\ Stopped(s, "done", TRUE, n)

ReaderStep(s) ==
    \/ \E n \in 1 .. MaxWritten[s] : Read(s, n) \/ RelayFails(s, n)
    \/ ReadEnd(s)

-----------------------------------------------------------------------------
(* What is recorded.                                                       *)

\* run_capture_completeness and adapter_capture, then record_capture.
\* `redacted`: a value was masked; `windowed`: findings are derived from the
\* first and last lines only.
Recorded(outcome, code, streams, combined, redacted, windowed) ==
    LET truncated == \E s \in Stream : streams[s].truncated
        interrupted == outcome \in {"timeout", "cancelled"}
        stop == IF interrupted THEN outcome
                ELSE IF truncated THEN "byte_limit"
                ELSE IF redacted THEN "redacted" ELSE "complete"
    IN  [outcome |-> outcome, code |-> code, evidence |-> TRUE,
         streams |-> streams, combined |-> combined,
         availability |-> IF interrupted \/ truncated THEN "capture_truncated"
                          ELSE IF redacted THEN "redacted" ELSE "recoverable",
         stop |-> IF windowed /\ stop = "complete" THEN "derivation_windowed"
                  ELSE stop,
         proves |-> ~interrupted /\ ~truncated /\ ~redacted /\ ~windowed]

\* Nothing is recorded.
Failed(outcome) ==
    [outcome |-> outcome, code |-> None, evidence |-> FALSE,
     streams |-> [s \in Stream |-> NothingCaptured], combined |-> <<>>,
     availability |-> "recoverable", stop |-> "complete", proves |-> FALSE]

\* The bytes of stream s in a sequence of chunks.
InChunks(s, seq) ==
    SumFunctionOnSet([i \in DOMAIN seq |-> seq[i].n],
                     {i \in DOMAIN seq : seq[i].stream = s})

\* Faulty variant: an unfinished stream is empty.
FromNothing(s) == NothingCaptured

\* capture_from_chunks
FromChunks(s) ==
    [kept |-> InChunks(s, chunks), total |-> InChunks(s, chunks),
     truncated |-> FALSE]

\* What a content can do to a capture.
Contents == [redacted : BOOLEAN, windowed : BOOLEAN]
End(r) == pc' = "ended" /\ report' = r

-----------------------------------------------------------------------------
(* The program.                                                            *)

\* The call of a source is dropped first when a signal has come.
Polled == ~(kind = "source" /\ cancelled)

\* The write ends that prog has are closed at once.
Spawn ==
    /\ pc = "start"
    /\ os' = [os EXCEPT ![Child] = [state |-> "alive", grouped |-> ~Shim,
                                    holds |-> Pipes]]
    /\ pc' = "spawned"
    /\ UNCHANGED <<kind, exit, written, closed, deadline, cancelled, readVars,
                   loopVars, report>>

\* The command cannot be started.
SpawnFails ==
    /\ pc = "start"
    /\ End(IF kind = "run"
           THEN Recorded("spawn_error", None,
                         [s \in Stream |-> NothingCaptured], <<>>, FALSE, FALSE)
           ELSE Failed("spawn_error"))
    /\ UNCHANGED <<kind, os, exit, written, closed, deadline, cancelled,
                   readVars, loopVars>>

\* The handlers of signals are there from the first poll on, and in a call of a
\* source from the beginning.
Begin ==
    /\ pc = "spawned" /\ Polled
    /\ pc' = "waiting"
    /\ UNCHANGED <<kind, os, exit, written, closed, deadline, cancelled,
                   readVars, loopVars, report>>

\* A signal that reaches `run` or a shim before that kills it, alone.
Die ==
    /\ pc = "spawned" /\ kind # "source"
    /\ End(Failed("died"))
    /\ reader' = [s \in Stream |-> [reader[s] EXCEPT !.state = "aborted"]]
    /\ UNCHANGED <<kind, os, exit, written, relayed, closed, deadline, cancelled,
                   chunks, loopVars>>

\* A shim passes the signal on to its child, which may exit of it, or not.
Cancel ==
    /\ ~Shim /\ ~cancelled /\ pc \notin {"start", "ended"}
    /\ pc = "spawned" => kind = "source"
    /\ cancelled' = TRUE
    /\ UNCHANGED <<kind, os, exit, written, closed, deadline, pc, readVars,
                   loopVars, report>>

\* The future of an interrupted call is dropped, with its child, its group and
\* its readers.
DropCall ==
    /\ kind = "source" /\ cancelled /\ pc \notin {"start", "ended"}
    /\ KillGroup
    /\ reader' = [s \in Stream |->
                    IF Listening(s) THEN [reader[s] EXCEPT !.state = "aborted"]
                    ELSE reader[s]]
    /\ End(Failed("cancelled"))
    /\ UNCHANGED <<kind, exit, written, relayed, closed, deadline, cancelled,
                   chunks, loopVars>>

Complete(exited, have, content) ==
    /\ exited # None /\ have = Stream
    /\ End(Recorded("exited", exited, [s \in Stream |-> reader[s].got],
                    chunks, content.redacted, content.windowed))

\* What was seen may be the last that was missing: then the group is left
\* alone.
Progress(exited, have) ==
    /\ IF exited # None /\ have = Stream
       THEN \E content \in Contents : Complete(exited, have, content)
       ELSE UNCHANGED <<pc, report>>
    /\ status' = exited /\ joined' = have
    /\ UNCHANGED <<kind, os, exit, written, closed, deadline, cancelled,
                   readVars, cause>>

\* After an interruption the group is killed, in any case.
Interrupt(why) ==
    /\ cause' = why /\ pc' = "draining"
    /\ KillGroup
    /\ UNCHANGED <<kind, exit, written, closed, deadline, cancelled, readVars,
                   joined, status, report>>

\* capture_process asks for a signal and for the deadline before it asks the
\* child and its readers.
Waits == pc = "waiting" /\ ~Shim /\ Polled
SeeSignal == Waits /\ cancelled /\ Interrupt("cancelled")
SeeDeadline == Waits /\ ~cancelled /\ deadline = "passed" /\ Interrupt("timeout")
Undisturbed == Waits /\ ~cancelled /\ deadline # "passed"
SeeExit == /\ Undisturbed /\ status = None /\ exit # None
           /\ Progress(exit, joined)
SeeReader(s) ==
    /\ Undisturbed /\ s \notin joined /\ ~Listening(s)
    /\ IF reader[s].state = "done" THEN Progress(status, joined \cup {s})
       ELSE Interrupt("error")

\* A reader that does not end soon is aborted: somebody outside of the group
\* holds its pipe.
GiveUpReading(s) ==
    /\ pc = "draining" /\ Polled /\ Listening(s)
    /\ reader' = [reader EXCEPT ![s].state = "aborted"]
    /\ UNCHANGED <<kind, os, exit, written, relayed, closed, deadline, cancelled,
                   pc, chunks, loopVars, report>>

\* `run` records what it has; a source returns an error.
Conclude ==
    /\ pc = "draining" /\ Polled /\ \A s \in Stream : ~Listening(s)
    /\ IF kind = "run" /\ cause # "error"
       THEN \E content \in Contents :
                End(Recorded(cause, None,
                        [s \in Stream |-> IF reader[s].state = "done"
                                          THEN reader[s].got ELSE FromChunks(s)],
                        chunks, content.redacted, content.windowed))
       ELSE End(Failed(cause))
    /\ UNCHANGED <<kind, os, exit, written, closed, deadline, cancelled,
                   readVars, loopVars>>

\* A shim joins its relays and then waits for its child.
JoinRelays ==
    /\ pc = "waiting" /\ Shim
    /\ \A s \in Pipes : ~Listening(s)
    /\ exit # None
    /\ \E content \in Contents :
          End(Recorded("exited", exit, [s \in Stream |-> reader[s].got], chunks,
                       content.redacted, content.windowed))
    /\ UNCHANGED <<kind, os, exit, written, closed, deadline, cancelled,
                   readVars, loopVars>>

MainStep ==
    \/ Begin
    \/ DropCall
    \/ SeeSignal
    \/ SeeDeadline
    \/ SeeExit
    \/ \E s \in Stream : SeeReader(s)
    \/ \E s \in Stream : GiveUpReading(s)
    \/ Conclude
    \/ JoinRelays

\* What the child and its descendants do after the end is no concern of prog.
Next ==
    \/ pc # "ended" /\ OsStep
    \/ \E s \in Stream : ReaderStep(s) \/ ReadFails(s)
    \/ Spawn
    \/ SpawnFails
    \/ Die
    \/ Cancel
    \/ MainStep
    \/ pc = "ended" /\ UNCHANGED vars

\* The main thread and the readers run; the child and its descendants owe
\* nothing, and the deadline only what the clock does.
Spec == /\ Init /\ [][Next]_vars
        /\ WF_vars(MainStep) /\ \A s \in Stream : WF_vars(ReaderStep(s))

-----------------------------------------------------------------------------
TypeOK ==
    /\ kind \in Kinds
    /\ os \in [OsProcess -> [state : {"none", "alive", "dead"},
                             grouped : BOOLEAN, holds : SUBSET Stream]]
    /\ exit \in Codes \cup {None}
    /\ written \in [Stream -> Nat] /\ relayed \in [Stream -> Nat]
    /\ closed \subseteq Stream
    /\ deadline \in {"none", "ahead", "passed"}
    /\ cancelled \in BOOLEAN
    /\ pc \in {"start", "spawned", "waiting", "draining", "ended"}
    /\ reader \in [Stream -> Reader]
    /\ chunks \in Seq([stream : Stream, n : Nat])
    /\ joined \subseteq Stream
    /\ status \in Codes \cup {None}
    /\ cause \in {None, "timeout", "cancelled", "error"}
    /\ report = None \/ IsReport(report)

\* An observation that claims it can prove absence, of a command that was
\* started, has every byte of both streams, nobody is left who could write
\* more, and its exit is that of the child -- whoever held the streams, and
\* however exit, end of file, deadline and signal raced.
AbsenceIsProved ==
    report # None /\ report.proves /\ report.outcome # "spawn_error" =>
        /\ exit # None /\ report.code = exit
        /\ \A s \in Stream : report.streams[s].kept = written[s] /\ ~Open(s)

\* docs/delta.md: absence is provable only from captures that were not
\* "incompletely executed".
ProofNeedsExecution ==
    report # None /\ report.proves => report.outcome = "exited"

\* Whatever was read and kept is in the evidence, in each stream as in the
\* combined view, also if its reader was aborted.
InterruptionKeepsEvidence ==
    report # None /\ report.evidence =>
        \A s \in Stream :
            /\ report.streams[s].kept = reader[s].got.kept
            /\ report.streams[s].kept = InChunks(s, report.combined)

\* When a capture has been interrupted, nothing of the child's group is left,
\* also if the child itself was reaped long before.
NothingOutlives ==
    pc = "ended" /\ report.outcome \notin {"exited", "died"} =>
        \A q \in OsProcess : ~Killed(q)

\* A shim hands on everything that was written to a consumer that is there, no
\* matter how little it keeps, and ends as its child did.
ShimIsTransparent ==
    Shim => /\ \A s \in Pipes \ closed : relayed[s] = reader[s].got.total
            /\ report # None /\ report.outcome = "exited" =>
                  /\ report.code = exit
                  /\ \A s \in Pipes \ closed :
                        relayed[s] = written[s] \/ report.streams[s].truncated

\* A capture ends when it is interrupted, whoever holds its streams, and when
\* the child and its descendants are gone.
CapturesEnd ==
    /\ ~Shim /\ pc # "start" /\ (deadline = "passed" \/ cancelled)
       ~> pc = "ended"
    /\ pc # "start" /\ (\A q \in OsProcess : ~Alive(q)) ~> pc = "ended"

-----------------------------------------------------------------------------
(* The inductive invariant behind AbsenceIsProved.                         *)

\* A reader has a prefix of its stream, within the cap, and knows if that is
\* not all that it has read.
ReadersHold ==
    \A s \in Stream :
        LET got == reader[s].got
        IN  /\ got.kept <= got.total /\ got.total <= written[s]
            /\ got.kept <= CapOf(s)
            /\ got.truncated \/ got.kept = got.total

\* One that has ended and was not cut has read everything there will be.
EndsHold ==
    \A s \in Stream :
        reader[s].state = "done" /\ ~reader[s].got.truncated =>
            reader[s].got.total = written[s] /\ ~Open(s)

\* The exit that is remembered is final, and the same.
ExitHolds ==
    /\ exit # None => os[Child].state = "dead"
    /\ status # None => status = exit

\* The streams that there are; what is joined is done; only an interruption
\* drains, and a shim aborts nobody.
StepsHold ==
    /\ \A q \in OsProcess : os[q].holds \subseteq Pipes
    /\ \A s \in Stream \ Pipes : written[s] = 0
    /\ \A s \in joined : reader[s].state = "done"
    /\ pc \in {"start", "spawned"} =>
          \A s \in Stream : reader[s].state = "reading"
    /\ pc = "start" => exit = None /\ \A q \in OsProcess : ~Alive(q)
    /\ pc = "draining" => ~Shim /\ cause \in {"timeout", "cancelled", "error"}
    /\ Shim /\ pc # "ended" =>
          \A s \in Stream : reader[s].state \in {"reading", "done"}
    /\ pc # "ended" => report = None

\* What a capture proves follows from what readers and exit guarantee.
CInv == TypeOK /\ ReadersHold /\ EndsHold /\ ExitHolds /\ StepsHold
        /\ AbsenceIsProved

\* The inductive part of NothingOutlives: a killed group stays empty, since only
\* its members could add to it.
GroupIsGone == pc = "draining" => \A q \in OsProcess : ~Killed(q)

\* The inductive part of InterruptionKeepsEvidence: the combined view that the
\* readers share has what each of them has kept.
ChunksHold ==
    /\ \A s \in Stream : InChunks(s, chunks) = reader[s].got.kept
    /\ pc = "start" => chunks = <<>>
=============================================================================
