----------------------------- MODULE CallLocks -----------------------------
(***************************************************************************)
(* Who waits for whom.  The processes that share a store contend for two   *)
(* locks: the database handle, which admits one process and is asked for   *)
(* with a bounded number of retries (crates/prog-core/src/store.rs), and   *)
(* the lock file of the source profile, which is asked for with a bounded  *)
(* number of retries too.  A call takes them in both orders: the first     *)
(* answer is learnt without the handle and further pages are learnt with   *)
(* the handle held.  Sources may take any time to answer.                  *)
(*                                                                         *)
(* No data here: EvidenceLedger and CaptureProcesses say what is stored,   *)
(* ProfileUpdates what is learnt.                                          *)
(***************************************************************************)
EXTENDS Naturals, Absent

CONSTANTS
    Prog,           \* the prog processes that share the store
    OpenAttempts,   \* STORE_OPEN_ATTEMPTS, 200 in the code
    LockTries,      \* attempts at the profile's lock file, 100 in the code
    MostPages,      \* bound on the pages one call follows
    MaxKills,       \* bound on the number of crashes
    Abandoned       \* the owner of a lock file whose creator died

ASSUME AttemptsAssumption ==
    /\ OpenAttempts \in Nat \ {0} /\ LockTries \in Nat \ {0}
    /\ MostPages \in Nat /\ MaxKills \in Nat
    /\ None \notin Prog /\ Abandoned \notin Prog

VARIABLES
    handle,         \* the process that has the database open
    profileLock,    \* the owner of the profile's lock file
    command,
    kills

lockVars == <<handle, profileLock, command, kills>>

(* Steps of a command: asking for the handle, using the store, waiting for *)
(* the source, asking for the profile's lock, updating the profile.        *)
CommandSteps == {"idle", "open", "use", "wait", "learn", "update"}
(* What of the command the step belongs to: its lookup, the first answer,  *)
(* a further page, or what is left to store when the pages are done.       *)
Stages == {"lookup", "answer", "page", "last"}
Command == [pc : CommandSteps, stage : Stages, tries : Nat, pages : 0 .. MostPages]
NoCommand == [pc |-> "idle", stage |-> "lookup", tries |-> 0, pages |-> 0]

LocksInit == /\ handle = None
             /\ profileLock = None
             /\ command = [p \in Prog |-> NoCommand]
             /\ kills = 0

CommandAt(p, step, stage) == command[p].pc = step /\ command[p].stage = stage
Go(p, step, stage) ==
    command' = [command EXCEPT ![p] = [@ EXCEPT !.pc = step, !.stage = stage,
                                                !.tries = 0]]
Release(p) == handle' = IF handle = p THEN None ELSE handle
End(p) == command' = [command EXCEPT ![p] = NoCommand] /\ Release(p)

-----------------------------------------------------------------------------
\* Store::open
BeginCommand(p) ==
    /\ command[p].pc = "idle"
    /\ Go(p, "open", "lookup")
    /\ UNCHANGED <<handle, profileLock, kills>>

\* Faulty variant: attempts are not counted.
TryOpenForever(p) ==
    /\ command[p].pc = "open"
    /\ handle = None
    /\ handle' = p
    /\ Go(p, "use", command[p].stage)
    /\ UNCHANGED <<profileLock, kills>>

\* open_store_handle_with_policy: the last attempt that finds the database
\* open ends the command with StorageBusy.
TryOpen(p) ==
    /\ command[p].pc = "open"
    /\ \/ /\ handle = None
          /\ handle' = p
          /\ Go(p, "use", command[p].stage)
       \/ /\ handle # None
          /\ command[p].tries + 1 < OpenAttempts
          /\ command' = [command EXCEPT ![p].tries = @ + 1]
          /\ UNCHANGED handle
       \/ /\ handle # None
          /\ command[p].tries + 1 = OpenAttempts
          /\ End(p)
    /\ UNCHANGED <<profileLock, kills>>

\* Local commands and cache hits end with the lookup, also with an error.
EndLookup(p) ==
    /\ CommandAt(p, "use", "lookup")
    /\ End(p)
    /\ UNCHANGED <<profileLock, kills>>

\* Faulty variant: the database stays open.
WaitWithHandle(p) ==
    /\ CommandAt(p, "use", "lookup")
    /\ Go(p, "wait", "answer")
    /\ UNCHANGED <<handle, profileLock, kills>>

\* The rest gives the handle up and waits for its source.
ReleaseAndWait(p) ==
    /\ CommandAt(p, "use", "lookup")
    /\ Release(p)
    /\ Go(p, "wait", "answer")
    /\ UNCHANGED <<profileLock, kills>>

\* The first answer is learnt by the profile, or stored without that when the
\* call asked not to cache or the operation is sensitive.
AnswerFirst(p, learns) ==
    /\ CommandAt(p, "wait", "answer")
    /\ Go(p, IF learns THEN "learn" ELSE "open", "answer")
    /\ UNCHANGED <<handle, profileLock, kills>>

\* A page is stored before it is learnt.
AnswerPage(p) ==
    /\ CommandAt(p, "wait", "page")
    /\ Go(p, "open", "page")
    /\ UNCHANGED <<handle, profileLock, kills>>

\* A failed call ends; a failed page, or one past the byte cap, ends the pages.
AnswerFails(p) ==
    /\ command[p].pc = "wait"
    /\ IF command[p].stage = "answer" THEN End(p)
       ELSE Go(p, "open", "last") /\ UNCHANGED handle
    /\ UNCHANGED <<profileLock, kills>>

\* The answer or the page is stored and another page is asked for.
Persisted(p) == CommandAt(p, "use", "answer") \/ CommandAt(p, "use", "page")

\* Faulty variant: the database stays open.
FollowPageWithHandle(p) ==
    /\ Persisted(p)
    /\ command[p].pages < MostPages
    /\ command' = [command EXCEPT ![p].pc = "wait", ![p].stage = "page",
                                  ![p].pages = @ + 1]
    /\ UNCHANGED <<handle, profileLock, kills>>

FollowPage(p) ==
    /\ Persisted(p)
    /\ command[p].pages < MostPages
    /\ Release(p)
    /\ command' = [command EXCEPT ![p].pc = "wait", ![p].stage = "page",
                                  ![p].pages = @ + 1]
    /\ UNCHANGED <<profileLock, kills>>

\* With the handle held, the page goes on to the profile.
LearnPage(p) ==
    /\ CommandAt(p, "use", "page")
    /\ Go(p, "learn", "page")
    /\ UNCHANGED <<handle, profileLock, kills>>

\* The answer, or the metadata of the pages, was the last thing to store.
EndStored(p) ==
    /\ Persisted(p) \/ CommandAt(p, "use", "last")
    /\ End(p)
    /\ UNCHANGED <<profileLock, kills>>

\* Faulty variant: tries are not counted.
TryProfileLockForever(p) ==
    /\ command[p].pc = "learn" /\ profileLock = None
    /\ profileLock' = p
    /\ Go(p, "update", command[p].stage)
    /\ UNCHANGED <<handle, kills>>

\* ProfileLock::acquire
TryProfileLock(p) ==
    /\ command[p].pc = "learn"
    /\ \/ /\ profileLock = None
          /\ profileLock' = p
          /\ Go(p, "update", command[p].stage)
          /\ UNCHANGED handle
       \/ /\ profileLock # None
          /\ command[p].tries + 1 < LockTries
          /\ command' = [command EXCEPT ![p].tries = @ + 1]
          /\ UNCHANGED <<handle, profileLock>>
       \/ /\ profileLock # None
          /\ command[p].tries + 1 = LockTries
          /\ End(p)
          /\ UNCHANGED profileLock
    /\ UNCHANGED kills

\* The update of the profile drops its lock; the call goes on to store the
\* answer, or to the next page, or to the end of the pages.
Learnt(p) ==
    /\ command[p].pc = "update"
    /\ profileLock' = None
    /\ IF command[p].stage = "answer"
       THEN Go(p, "open", "answer") /\ UNCHANGED handle
       ELSE \/ /\ command[p].pages < MostPages
               /\ Release(p)
               /\ command' = [command EXCEPT ![p].pc = "wait", ![p].pages = @ + 1]
            \/ Go(p, "use", "last") /\ UNCHANGED handle
    /\ UNCHANGED kills

\* The operating system closes the database of a process that dies; nobody
\* removes its lock file.
Kill(p) ==
    /\ command[p].pc # "idle" /\ kills < MaxKills
    /\ kills' = kills + 1
    /\ profileLock' = IF profileLock = p THEN Abandoned ELSE profileLock
    /\ End(p)

\* What the process does by itself, and what the source does.
CommandStep(p) ==
    \/ TryOpen(p)
    \/ EndLookup(p) \/ ReleaseAndWait(p)
    \/ FollowPage(p) \/ LearnPage(p) \/ EndStored(p)
    \/ TryProfileLock(p) \/ Learnt(p)

SourceAnswers(p) ==
    \/ \E learns \in BOOLEAN : AnswerFirst(p, learns)
    \/ AnswerPage(p)
    \/ AnswerFails(p)

LocksNext ==
    \E p \in Prog : BeginCommand(p) \/ CommandStep(p) \/ SourceAnswers(p) \/ Kill(p)

LocksSpec == LocksInit /\ [][LocksNext]_lockVars

\* A process that is not waiting for its source runs; sources owe nothing.
LocksFairly == \A p \in Prog : WF_lockVars(CommandStep(p))
LocksRunningSpec == LocksSpec /\ LocksFairly

\* Adapters bound how long they wait, so that every call of one returns.
SourcesAnswer == \A p \in Prog : WF_lockVars(SourceAnswers(p))

-----------------------------------------------------------------------------
\* docs/cache.md: database ownership is released while an upstream source is
\* running; the profile's lock is not held either.
WaitsEmptyHanded ==
    \A p \in Prog : command[p].pc = "wait" => handle # p /\ profileLock # p

\* The steps of a command that hold the database; a page is learnt with it.
HasHandle(c) ==
    c.pc = "use" \/ (c.pc \in {"learn", "update"} /\ c.stage = "page")

LocksTypeOK ==
    /\ handle \in Prog \cup {None}
    /\ profileLock \in Prog \cup {None, Abandoned}
    /\ command \in [Prog -> Command]
    /\ kills \in 0 .. MaxKills

\* A lock belongs to the one command whose step says that it has it, and to
\* nobody else: WaitsEmptyHanded made inductive.
LocksInv ==
    /\ LocksTypeOK
    /\ \A p \in Prog :
          /\ handle = p <=> HasHandle(command[p])
          /\ profileLock = p <=> command[p].pc = "update"
          /\ command[p].pc \in {"learn", "update"}
                => command[p].stage \in {"answer", "page"}

\* Even if no source ever answers, whoever has the database gives it back.
HandleReturns == []<>(handle = None)

\* Even if no source ever answers, asking for the store ends, with the handle
\* or with StorageBusy, and so does asking for the profile's lock.
AskingEnds ==
    \A p \in Prog : /\ command[p].pc = "open" ~> command[p].pc # "open"
                    /\ command[p].pc = "learn" ~> command[p].pc # "learn"

\* Every command ends when its sources answer, crashes and abandoned lock
\* files of others included.
CommandsEnd ==
    SourcesAnswer =>
        \A p \in Prog : command[p].pc # "idle" ~> command[p].pc = "idle"
=============================================================================
