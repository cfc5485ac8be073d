--------------------------- MODULE ProfileUpdates ---------------------------
(***************************************************************************)
(* Concurrent updates of one source profile (Store::update_profile in      *)
(* crates/prog-core/src/store.rs).  A profile is a JSON file that several  *)
(* processes read, change and replace: each creates a lock file, reads the *)
(* profile, writes the changed one to a temporary file whose name they all *)
(* share, renames it over the profile and removes the lock file.  Nobody   *)
(* removes the lock file of a process that died.                           *)
(*                                                                         *)
(* What an update contributes is a fact: the shape a call observed, or     *)
(* what a discovery authored.  Both are joined into what the profile       *)
(* already says.                                                           *)
(***************************************************************************)
EXTENDS Naturals, FiniteSets, Absent

CONSTANTS
    Process,
    Fact,          \* what updates contribute
    Authored,      \* revisions an authored profile may carry
    Tries,         \* attempts at the lock file before an update gives up
    MaxRevision,   \* the largest revision, u64::MAX in the code
    MaxCrashes,    \* bound on the number of crashes
    Torn           \* a file some process has begun to write

Revision == 0 .. MaxRevision
Profile == [revision : Revision, facts : SUBSET Fact]
ASSUME ProfileAssumption ==
    /\ Tries \in Nat \ {0} /\ MaxRevision \in Nat /\ MaxCrashes \in Nat
    /\ Authored \subseteq Revision
ASSUME TornAssumption ==
    /\ None \notin Profile /\ Torn \notin Profile /\ None # Torn
    /\ None \notin Fact /\ None \notin Revision

VARIABLES
    lock,      \* whether the lock file exists
    disk,      \* the profile file; revision 0 stands for no file yet
    tmp,       \* the temporary file
    proc,      \* the update each process is executing
    reported,  \* the facts of the updates that returned successfully
    crashes

vars == <<lock, disk, tmp, proc, reported, crashes>>

Steps == {"idle", "lock", "read", "open", "write", "rename", "unlock"}
Locked == {"read", "open", "write", "rename", "unlock"}
Proc == [pc : Steps, tries : 0 .. Tries - 1, fact : Fact \cup {None},
         authored : Authored \cup {None}, next : Profile \cup {None}]
Idle == [pc |-> "idle", tries |-> 0, fact |-> None, authored |-> None,
         next |-> None]

Init == /\ lock = FALSE
        /\ disk = [revision |-> 0, facts |-> {}]
        /\ tmp = None
        /\ proc = [p \in Process |-> Idle]
        /\ reported = {}
        /\ crashes = 0

Become(p, r) == proc' = [proc EXCEPT ![p] = r]
At(p, step) == proc[p].pc = step

-----------------------------------------------------------------------------
\* A call learns the shape f, or a discovery authors a profile that has its
\* own revision.
Begin(p, f, authored) ==
    /\ At(p, "idle")
    /\ Become(p, [Idle EXCEPT !.pc = "lock", !.fact = f,
                              !.authored = authored])
    /\ UNCHANGED <<lock, disk, tmp, reported, crashes>>

\* Faulty variants: the last try takes the lock over; tries are not counted.
StealLock(p) ==
    /\ At(p, "lock")
    /\ IF ~lock \/ proc[p].tries + 1 = Tries
       THEN /\ lock' = TRUE
            /\ Become(p, [proc[p] EXCEPT !.pc = "read", !.tries = 0])
       ELSE /\ UNCHANGED lock
            /\ Become(p, [proc[p] EXCEPT !.tries = @ + 1])
    /\ UNCHANGED <<disk, tmp, reported, crashes>>

TryLockForever(p) ==
    /\ At(p, "lock") /\ ~lock
    /\ lock' = TRUE
    /\ Become(p, [proc[p] EXCEPT !.pc = "read"])
    /\ UNCHANGED <<disk, tmp, reported, crashes>>

\* ProfileLock::acquire: create_new succeeds for one process only.  The last
\* try that finds the file is a timeout, and the update is an error.
TryLock(p) ==
    /\ At(p, "lock")
    /\ IF ~lock
       THEN /\ lock' = TRUE
            /\ Become(p, [proc[p] EXCEPT !.pc = "read", !.tries = 0])
       ELSE /\ UNCHANGED lock
            /\ Become(p, IF proc[p].tries + 1 = Tries THEN Idle
                         ELSE [proc[p] EXCEPT !.tries = @ + 1])
    /\ UNCHANGED <<disk, tmp, reported, crashes>>

\* saturating_add(1)
Successor(n) == IF n = MaxRevision THEN n ELSE n + 1

\* Faulty variants: an authored profile replaces what was learnt; an equal
\* revision passes.
ReplacedIfAuthored(current, r) ==
    [revision |-> IF r.authored = None \/ r.authored <= current.revision
                  THEN Successor(current.revision) ELSE r.authored,
     facts |-> IF r.authored = None THEN current.facts \cup {r.fact}
               ELSE {r.fact}]

UpdatedOrEqual(current, r) ==
    LET proposed == IF r.authored = None THEN current.revision ELSE r.authored
    IN  [revision |-> IF proposed < current.revision
                      THEN Successor(current.revision) ELSE proposed,
         facts |-> current.facts \cup {r.fact}]

\* The update of the current profile; the revision moves past the current one
\* unless the authored profile is ahead already.
Updated(current, r) ==
    LET proposed == IF r.authored = None THEN current.revision ELSE r.authored
    IN  [revision |-> IF proposed <= current.revision
                      THEN Successor(current.revision) ELSE proposed,
         facts |-> current.facts \cup {r.fact}]

\* Faulty variant: an invalid profile returns without removing the lock file.
ReadAndReturn(p, valid) ==
    /\ At(p, "read")
    /\ Become(p, IF valid
                 THEN [proc[p] EXCEPT !.pc = "open",
                                      !.next = Updated(disk, proc[p])]
                 ELSE Idle)
    /\ UNCHANGED <<lock, disk, tmp, reported, crashes>>

\* The profile is read, changed and validated; an invalid one is an error and
\* leaves the file alone.
ReadAndUpdate(p, valid) ==
    /\ At(p, "read")
    /\ Become(p, IF valid
                 THEN [proc[p] EXCEPT !.pc = "open",
                                      !.next = Updated(disk, proc[p])]
                 ELSE [proc[p] EXCEPT !.pc = "unlock", !.fact = None])
    /\ UNCHANGED <<lock, disk, tmp, reported, crashes>>

\* fs::write truncates the temporary file, then fills it.
OpenTemporary(p) ==
    /\ At(p, "open")
    /\ tmp' = Torn
    /\ Become(p, [proc[p] EXCEPT !.pc = "write"])
    /\ UNCHANGED <<lock, disk, reported, crashes>>

WriteTemporary(p) ==
    /\ At(p, "write")
    /\ tmp' = proc[p].next
    /\ Become(p, [proc[p] EXCEPT !.pc = "rename"])
    /\ UNCHANGED <<lock, disk, reported, crashes>>

\* fs::rename replaces the profile by whatever the temporary file holds; it
\* fails when there is none.
Rename(p) ==
    /\ At(p, "rename")
    /\ IF tmp = None
       THEN /\ Become(p, [proc[p] EXCEPT !.pc = "unlock", !.fact = None])
            /\ UNCHANGED <<disk, tmp>>
       ELSE /\ disk' = tmp /\ tmp' = None
            /\ Become(p, [proc[p] EXCEPT !.pc = "unlock"])
    /\ UNCHANGED <<lock, reported, crashes>>

\* Dropping the lock removes the file, also after an error.
Unlock(p) ==
    /\ At(p, "unlock")
    /\ lock' = FALSE
    /\ reported' = reported \cup ({proc[p].fact} \ {None})
    /\ Become(p, Idle)
    /\ UNCHANGED <<disk, tmp, crashes>>

\* A process killed inside leaves its lock file behind.
Crash(p) ==
    /\ ~At(p, "idle") /\ crashes < MaxCrashes
    /\ crashes' = crashes + 1
    /\ Become(p, Idle)
    /\ UNCHANGED <<lock, disk, tmp, reported>>

Step(p) ==
    \/ TryLock(p)
    \/ \E valid \in BOOLEAN : ReadAndUpdate(p, valid)
    \/ OpenTemporary(p)
    \/ WriteTemporary(p)
    \/ Rename(p)
    \/ Unlock(p)

Next == \E p \in Process :
    \/ \E f \in Fact, authored \in Authored \cup {None} : Begin(p, f, authored)
    \/ Step(p)
    \/ Crash(p)

\* A process that is updating keeps running.
Spec == Init /\ [][Next]_vars
UpdatesFairly == \A p \in Process : WF_vars(Step(p))
FairSpec == Spec /\ UpdatesFairly

-----------------------------------------------------------------------------
\* Every variable has its type; in particular the profile file is never one
\* that some process has only begun to write.
TypeOK ==
    /\ lock \in BOOLEAN
    /\ disk \in Profile
    /\ tmp \in Profile \cup {None, Torn}
    /\ proc \in [Process -> Proc]
    /\ reported \subseteq Fact
    /\ crashes \in 0 .. MaxCrashes

\* No update that returned successfully is ever lost: what it contributed is
\* in the profile, whatever the others wrote meanwhile.
ReportedIsKept == reported \subseteq disk.facts

\* docs/contracts.md: the revision serializes concurrent updates.  Each
\* replacement of the file has a larger revision, short of the largest one,
\* and forgets nothing.
RevisionSerializes ==
    [][disk' # disk => /\ \/ disk'.revision > disk.revision
                          \/ disk.revision = MaxRevision
                       /\ disk.facts \subseteq disk'.facts]_vars

\* An update always ends, with the profile replaced or with an error, even
\* when a crash left the lock file behind; and as long as nobody crashes the
\* lock file is removed again and again.
EveryUpdateEnds ==
    /\ \A p \in Process : ~At(p, "idle") ~> At(p, "idle")
    /\ (crashes = 0 /\ lock) ~> (crashes > 0 \/ ~lock)

\* The inductive invariant: with no crash or after one, whoever is between
\* lock and unlock is alone there, what it read is still the profile, and the
\* temporary file holds its update when it renames it.
Exclusive ==
    /\ \A p, q \in Process :
          proc[p].pc \in Locked /\ proc[q].pc \in Locked => p = q
    /\ \A p \in Process : proc[p].pc \in Locked => lock

UpdateInv(p) ==
    /\ proc[p].pc \notin {"idle", "unlock"} => proc[p].fact # None
    /\ proc[p].pc \in {"open", "write", "rename"} =>
          /\ proc[p].next # None
          /\ proc[p].next = Updated(disk, proc[p])
    /\ At(p, "rename") => tmp = proc[p].next
    /\ At(p, "unlock") /\ proc[p].fact # None => proc[p].fact \in disk.facts

ProfileInv == /\ TypeOK
              /\ Exclusive
              /\ ReportedIsKept
              /\ \A p \in Process : UpdateInv(p)
=============================================================================
