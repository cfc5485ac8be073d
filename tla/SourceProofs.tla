----------------------------- MODULE SourceProofs -----------------------------
(***************************************************************************)
(* What is proved of prog and its sources, whose parts share no state.     *)
(*                                                                         *)
(* Profiles: concurrent updates lose nothing and the revision serializes   *)
(* them, by ProfileInv: whoever is between creating and removing the lock  *)
(* file is alone there, so the profile it read is still the profile when   *)
(* it renames its temporary file over it, and the temporary file, whose    *)
(* name all processes share, is still its own.                             *)
(* Locks: nobody waits for a source with a lock in its hands.              *)
(* Exchanges: what an MCP session, an HTTP request or a command reports    *)
(* as whole is whole.  Pages: the pages of a call begin the chain.         *)
(***************************************************************************)
EXTENDS ProfileUpdates, CallLocks, McpSession, AdapterCalls, Pages,
        SequenceTheorems, TLAPS

-----------------------------------------------------------------------------
(* Profiles.                                                               *)

\* An update of a profile is a profile: the revision stays in its range, and
\* the facts are the old ones with the one the update contributes.
LEMMA UpdatedIsProfile ==
    ASSUME NEW current \in Profile, NEW r \in Proc, r.fact # None
    PROVE  /\ Updated(current, r) \in Profile
           /\ Updated(current, r).facts = current.facts \cup {r.fact}
           /\ \/ Updated(current, r).revision > current.revision
              \/ current.revision = MaxRevision
  <1>1. /\ current.revision \in Revision /\ current.facts \subseteq Fact
        /\ r.fact \in Fact /\ r.authored \in Revision \cup {None}
    BY ProfileAssumption DEF Profile, Proc
  <1>2. /\ Successor(current.revision) \in Revision
        /\ \/ Successor(current.revision) > current.revision
           \/ current.revision = MaxRevision
    BY <1>1, ProfileAssumption DEF Successor, Revision
  <1>3. /\ Updated(current, r).revision \in Revision
        /\ \/ Updated(current, r).revision > current.revision
           \/ current.revision = MaxRevision
    BY <1>1, <1>2, ProfileAssumption DEF Updated, Revision
  <1> QED  BY <1>1, <1>3 DEF Updated, Profile

\* An update depends only on what its process contributes.
LEMMA UpdatedDependsOn ==
    ASSUME NEW current, NEW r, NEW s,
           r.fact = s.fact, r.authored = s.authored
    PROVE  Updated(current, r) = Updated(current, s)
  BY Zenon DEF Updated

\* The initial state satisfies the inductive invariant.
LEMMA ProfileInitHolds == Init => ProfileInv
  <1> SUFFICES ASSUME Init PROVE ProfileInv  OBVIOUS
  <1>1. Idle \in Proc
    BY ProfileAssumption DEF Idle, Proc, Steps
  <1>2. TypeOK
    <2>1. disk \in Profile
      BY ProfileAssumption DEF Init, Profile, Revision
    <2>2. proc \in [Process -> Proc]
      BY <1>1 DEF Init
    <2>3. lock \in BOOLEAN /\ tmp \in Profile \cup {None, Torn}
      BY Zenon DEF Init
    <2>4. reported \subseteq Fact /\ crashes \in 0 .. MaxCrashes
      BY ProfileAssumption DEF Init
    <2> QED  BY <2>1, <2>2, <2>3, <2>4, Zenon DEF TypeOK
  <1>3. \A p \in Process : proc[p] = Idle
    BY DEF Init
  <1>4. Exclusive
    BY <1>3 DEF Exclusive, Idle, Locked
  <1> QED  BY <1>2, <1>3, <1>4 DEF ProfileInv, UpdateInv, Init, ReportedIsKept, Idle, At

\* A step of one process that neither takes nor returns the lock file, and that
\* does not enter the locked section, keeps the others out of it.
LEMMA StepOfOne ==
    ASSUME TypeOK, Exclusive, NEW p \in Process, NEW r \in Proc,
           proc' = [proc EXCEPT ![p] = r],
           lock' = lock, r.pc \in Locked => proc[p].pc \in Locked
    PROVE  /\ proc' \in [Process -> Proc]
           /\ Exclusive'
           /\ proc'[p] = r
           /\ \A q \in Process \ {p} : proc'[q] = proc[q]
  <1>1. proc \in [Process -> Proc]
    BY Zenon DEF TypeOK
  <1>2. proc'[p] = r /\ \A q \in Process \ {p} : proc'[q] = proc[q]
    BY <1>1
  <1>3. proc' \in [Process -> Proc]
    BY <1>1
  <1>4. \A q \in Process : proc'[q].pc \in Locked => proc[q].pc \in Locked
    BY <1>2
  <1>5. Exclusive'
    BY <1>4, Zenon DEF Exclusive
  <1> QED  BY <1>2, <1>3, <1>5

\* Each step of an update or of the environment preserves it.
LEMMA ProfileStepPreserves == ProfileInv /\ [Next]_vars => ProfileInv'
  <1> SUFFICES ASSUME ProfileInv, [Next]_vars PROVE ProfileInv'  OBVIOUS
  <1> USE DEF ProfileInv
  <1>0. /\ Idle \in Proc /\ \A p \in Process : proc[p] \in Proc
        /\ disk \in Profile /\ tmp \in Profile \cup {None, Torn}
        /\ reported \subseteq Fact /\ crashes \in 0 .. MaxCrashes
        /\ proc \in [Process -> Proc]
    BY ProfileAssumption DEF TypeOK, Idle, Proc, Steps
  <1>1. ASSUME NEW p \in Process, NEW f \in Fact,
               NEW authored \in Authored \cup {None}, Begin(p, f, authored)
        PROVE  ProfileInv'
    <2> DEFINE r == [Idle EXCEPT !.pc = "lock", !.fact = f,
                                 !.authored = authored]
    <2>1. r \in Proc /\ r.pc = "lock" /\ r.fact = f
      BY <1>0, ProfileAssumption DEF Proc, Steps
    <2>2. proc' = [proc EXCEPT ![p] = r]
      BY <1>1 DEF Begin, Become
    <2> HIDE DEF r
    <2>3. /\ proc' \in [Process -> Proc] /\ Exclusive'
          /\ proc'[p] = r
          /\ \A q \in Process \ {p} : proc'[q] = proc[q]
      <3>1. r.pc \notin Locked
        BY <2>1 DEF Locked
      <3> QED  BY <1>1, <2>1, <2>2, <3>1, StepOfOne, Zenon DEF Begin
    <2>4. TypeOK'
      BY <1>1, <2>3, Zenon DEF Begin, TypeOK
    <2>5. ReportedIsKept'
      BY <1>1 DEF Begin, ReportedIsKept
    <2>6. \A q \in Process : UpdateInv(q)'
      BY <1>1, <2>1, <2>3, TornAssumption DEF Begin, UpdateInv, At
    <2> QED  BY <2>3, <2>4, <2>5, <2>6, Zenon
  <1>2. ASSUME NEW p \in Process, TryLock(p) PROVE ProfileInv'
    <2>1. proc[p] \in Proc /\ proc[p].pc = "lock" /\ proc[p].fact # None
      BY <1>0, <1>2 DEF TryLock, At, UpdateInv
    <2>2. CASE ~lock
      <3> DEFINE r == [proc[p] EXCEPT !.pc = "read", !.tries = 0]
      <3>1. lock' = TRUE /\ proc' = [proc EXCEPT ![p] = r]
            /\ UNCHANGED <<disk, tmp, reported, crashes>>
        BY <1>2, <2>2, Zenon DEF TryLock, Become
      <3>2. r \in Proc /\ r.pc = "read" /\ r.fact # None
        <4>1. 0 \in 0 .. Tries - 1
          BY ProfileAssumption
        <4> QED  BY <2>1, <4>1 DEF Proc, Steps
      <3> HIDE DEF r
      <3>3. TypeOK'
        <4>1. proc' \in [Process -> Proc]
          BY <1>0, <3>1, <3>2
        <4> QED  BY <3>1, <4>1, Zenon DEF TypeOK
      <3>4. \A q \in Process : proc[q].pc \notin Locked
        BY <2>2, Zenon DEF Exclusive
      <3>5. Exclusive'
        <4>1. \A q \in Process : proc'[q].pc \in Locked => q = p
          BY <1>0, <3>1, <3>4
        <4> QED  BY <3>1, <4>1, Zenon DEF Exclusive
      <3>6. \A q \in Process : UpdateInv(q)'
        BY <1>0, <3>1, <3>2 DEF UpdateInv, At
      <3> QED  BY <3>1, <3>3, <3>5, <3>6, Zenon DEF ReportedIsKept
    <2>3. CASE lock
      <3> DEFINE r == IF proc[p].tries + 1 = Tries THEN Idle
                      ELSE [proc[p] EXCEPT !.tries = @ + 1]
      <3>1. lock' = lock /\ proc' = [proc EXCEPT ![p] = r]
            /\ UNCHANGED <<disk, tmp, reported, crashes>>
        BY <1>2, <2>3, Zenon DEF TryLock, Become
      <3>2. r \in Proc /\ r.pc \in {"idle", "lock"}
            /\ (r.pc = "lock" => r.fact # None)
        <4>1. CASE proc[p].tries + 1 = Tries
          BY <1>0, <4>1 DEF Idle
        <4>2. CASE proc[p].tries + 1 # Tries
          <5>1. proc[p].tries + 1 \in 0 .. Tries - 1
            BY <2>1, <4>2, ProfileAssumption DEF Proc
          <5>2. r = [proc[p] EXCEPT !.tries = proc[p].tries + 1]
            BY <4>2
          <5> QED  BY <2>1, <5>1, <5>2 DEF Proc
        <4> QED  BY <4>1, <4>2
      <3> HIDE DEF r
      <3>3. /\ proc' \in [Process -> Proc] /\ Exclusive'
            /\ proc'[p] = r
            /\ \A q \in Process \ {p} : proc'[q] = proc[q]
        <4>1. r.pc \notin Locked
          BY <3>2 DEF Locked
        <4> QED  BY <3>1, <3>2, <4>1, StepOfOne, Zenon
      <3>4. TypeOK'
        BY <3>1, <3>3, Zenon DEF TypeOK
      <3>5. \A q \in Process : UpdateInv(q)'
        BY <3>1, <3>2, <3>3 DEF UpdateInv, At
      <3> QED  BY <3>1, <3>3, <3>4, <3>5, Zenon DEF ReportedIsKept
    <2> QED  BY <2>2, <2>3
  <1>3. ASSUME NEW p \in Process, NEW valid \in BOOLEAN,
               ReadAndUpdate(p, valid)
        PROVE  ProfileInv'
    <2>1. proc[p] \in Proc /\ proc[p].pc = "read" /\ proc[p].fact # None
      BY <1>0, <1>3 DEF ReadAndUpdate, At, UpdateInv
    <2> DEFINE written == [proc[p] EXCEPT !.pc = "open",
                                          !.next = Updated(disk, proc[p])]
               rejected == [proc[p] EXCEPT !.pc = "unlock", !.fact = None]
               r == IF valid THEN written ELSE rejected
    <2>2. UNCHANGED <<lock, disk, tmp, reported, crashes>>
          /\ proc' = [proc EXCEPT ![p] = r]
      BY <1>3, Zenon DEF ReadAndUpdate, Become
    <2>3. /\ written \in Proc /\ written.pc = "open" /\ written.fact # None
          /\ written.next # None /\ written.next = Updated(disk, written)
      <3>1. Updated(disk, proc[p]) \in Profile
        BY <1>0, <2>1, UpdatedIsProfile
      <3>2. /\ written \in Proc /\ written.pc = "open"
            /\ written.fact = proc[p].fact
            /\ written.authored = proc[p].authored
            /\ written.next = Updated(disk, proc[p])
        BY <2>1, <3>1 DEF Proc, Steps
      <3> HIDE DEF written
      <3>3. Updated(disk, written) = Updated(disk, proc[p])
        BY <3>2, UpdatedDependsOn
      <3> QED  BY <2>1, <3>1, <3>2, <3>3, TornAssumption
    <2>4. /\ rejected \in Proc /\ rejected.pc = "unlock"
          /\ rejected.fact = None
      BY <2>1 DEF Proc, Steps
    <2> HIDE DEF written, rejected
    <2>5. /\ r \in Proc
          /\ \/ /\ r.pc = "open" /\ r.fact # None
                /\ r.next # None /\ r.next = Updated(disk, r)
             \/ r.pc = "unlock" /\ r.fact = None
      BY <2>3, <2>4, Zenon
    <2> HIDE DEF r
    <2>6. /\ proc' \in [Process -> Proc] /\ Exclusive'
          /\ proc'[p] = r
          /\ \A q \in Process \ {p} : proc'[q] = proc[q]
      <3>1. proc[p].pc \in Locked
        BY <2>1 DEF Locked
      <3> QED  BY <2>2, <2>5, <3>1, StepOfOne, Zenon
    <2>7. TypeOK'
      BY <2>2, <2>6, Zenon DEF TypeOK
    <2>8. \A q \in Process : UpdateInv(q)'
      <3>1. ASSUME NEW q \in Process \ {p} PROVE UpdateInv(q)'
        BY <2>2, <2>6 DEF UpdateInv, At
      <3>2. UpdateInv(p)'
        BY <2>2, <2>5, <2>6 DEF UpdateInv, At
      <3> QED  BY <3>1, <3>2
    <2> QED  BY <2>2, <2>6, <2>7, <2>8, Zenon DEF ReportedIsKept
  <1>4. ASSUME NEW p \in Process, OpenTemporary(p) PROVE ProfileInv'
    <2>1. /\ proc[p] \in Proc /\ proc[p].pc = "open" /\ proc[p].fact # None
          /\ proc[p].next # None /\ proc[p].next = Updated(disk, proc[p])
      BY <1>0, <1>4 DEF OpenTemporary, At, UpdateInv
    <2> DEFINE r == [proc[p] EXCEPT !.pc = "write"]
    <2>2. UNCHANGED <<lock, disk, reported, crashes>>
          /\ proc' = [proc EXCEPT ![p] = r] /\ tmp' = Torn
      BY <1>4, Zenon DEF OpenTemporary, Become
    <2>3. /\ r \in Proc /\ r.pc = "write" /\ r.fact = proc[p].fact
          /\ r.authored = proc[p].authored /\ r.next = proc[p].next
      BY <2>1 DEF Proc, Steps
    <2> HIDE DEF r
    <2>4. r.next = Updated(disk, r)
      BY <2>1, <2>3, UpdatedDependsOn
    <2>5. proc[p].pc \in Locked
      BY <2>1 DEF Locked
    <2>6. /\ proc' \in [Process -> Proc] /\ Exclusive'
          /\ proc'[p] = r
          /\ \A q \in Process \ {p} : proc'[q] = proc[q]
      BY <2>2, <2>3, <2>5, StepOfOne, Zenon
    <2>7. TypeOK'
      <3>1. tmp' \in Profile \cup {None, Torn}
        BY <1>0, <2>1, <2>2 DEF Proc
      <3> QED  BY <2>2, <2>6, <3>1, Zenon DEF TypeOK
    <2>8. \A q \in Process : UpdateInv(q)'
      <3>1. ASSUME NEW q \in Process \ {p} PROVE UpdateInv(q)'
        <4>1. proc[q].pc \notin Locked
          BY <2>5, Zenon DEF Exclusive
        <4> QED  BY <2>2, <2>6, <4>1 DEF UpdateInv, At, Locked
      <3>2. UpdateInv(p)'
        BY <2>1, <2>2, <2>3, <2>4, <2>6 DEF UpdateInv, At
      <3> QED  BY <3>1, <3>2
    <2> QED  BY <2>2, <2>6, <2>7, <2>8, Zenon DEF ReportedIsKept
  <1>5. ASSUME NEW p \in Process, WriteTemporary(p) PROVE ProfileInv'
    <2>1. /\ proc[p] \in Proc /\ proc[p].pc = "write" /\ proc[p].fact # None
          /\ proc[p].next # None /\ proc[p].next = Updated(disk, proc[p])
      BY <1>0, <1>5 DEF WriteTemporary, At, UpdateInv
    <2> DEFINE r == [proc[p] EXCEPT !.pc = "rename"]
    <2>2. UNCHANGED <<lock, disk, reported, crashes>>
          /\ proc' = [proc EXCEPT ![p] = r] /\ tmp' = proc[p].next
      BY <1>5, Zenon DEF WriteTemporary, Become
    <2>3. /\ r \in Proc /\ r.pc = "rename" /\ r.fact = proc[p].fact
          /\ r.authored = proc[p].authored /\ r.next = proc[p].next
      BY <2>1 DEF Proc, Steps
    <2> HIDE DEF r
    <2>4. r.next = Updated(disk, r)
      BY <2>1, <2>3, UpdatedDependsOn
    <2>5. proc[p].pc \in Locked
      BY <2>1 DEF Locked
    <2>6. /\ proc' \in [Process -> Proc] /\ Exclusive'
          /\ proc'[p] = r
          /\ \A q \in Process \ {p} : proc'[q] = proc[q]
      BY <2>2, <2>3, <2>5, StepOfOne, Zenon
    <2>7. TypeOK'
      <3>1. tmp' \in Profile \cup {None, Torn}
        BY <1>0, <2>1, <2>2 DEF Proc
      <3> QED  BY <2>2, <2>6, <3>1, Zenon DEF TypeOK
    <2>8. \A q \in Process : UpdateInv(q)'
      <3>1. ASSUME NEW q \in Process \ {p} PROVE UpdateInv(q)'
        <4>1. proc[q].pc \notin Locked
          BY <2>5, Zenon DEF Exclusive
        <4> QED  BY <2>2, <2>6, <4>1 DEF UpdateInv, At, Locked
      <3>2. UpdateInv(p)'
        BY <2>1, <2>2, <2>3, <2>4, <2>6 DEF UpdateInv, At
      <3> QED  BY <3>1, <3>2
    <2> QED  BY <2>2, <2>6, <2>7, <2>8, Zenon DEF ReportedIsKept
  <1>6. ASSUME NEW p \in Process, Rename(p) PROVE ProfileInv'
    <2>1. /\ proc[p] \in Proc /\ proc[p].pc = "rename"
          /\ proc[p].fact # None
          /\ proc[p].next # None /\ proc[p].next = Updated(disk, proc[p])
          /\ tmp = proc[p].next
      BY <1>0, <1>6 DEF Rename, At, UpdateInv
    <2>2. /\ tmp \in Profile
          /\ tmp.facts = disk.facts \cup {proc[p].fact}
      BY <1>0, <2>1, UpdatedIsProfile
    <2> DEFINE r == [proc[p] EXCEPT !.pc = "unlock"]
    <2>3. /\ UNCHANGED <<lock, reported, crashes>>
          /\ disk' = tmp /\ tmp' = None /\ proc' = [proc EXCEPT ![p] = r]
      BY <1>6, <2>1, Zenon DEF Rename, Become
    <2>4. r \in Proc /\ r.pc = "unlock" /\ r.fact = proc[p].fact
      BY <2>1 DEF Proc, Steps
    <2> HIDE DEF r
    <2>5. proc[p].pc \in Locked
      BY <2>1 DEF Locked
    <2>6. /\ proc' \in [Process -> Proc] /\ Exclusive'
          /\ proc'[p] = r
          /\ \A q \in Process \ {p} : proc'[q] = proc[q]
      BY <2>3, <2>4, <2>5, StepOfOne, Zenon
    <2>7. TypeOK'
      BY <2>2, <2>3, <2>6, Zenon DEF TypeOK
    <2>8. \A q \in Process : UpdateInv(q)'
      <3>1. ASSUME NEW q \in Process \ {p} PROVE UpdateInv(q)'
        <4>1. proc[q].pc \notin Locked
          BY <2>5, Zenon DEF Exclusive
        <4> QED  BY <2>6, <4>1 DEF UpdateInv, At, Locked
      <3>2. UpdateInv(p)'
        BY <2>2, <2>3, <2>4, <2>6 DEF UpdateInv, At
      <3> QED  BY <3>1, <3>2
    <2>9. ReportedIsKept'
      BY <2>2, <2>3 DEF ReportedIsKept
    <2> QED  BY <2>6, <2>7, <2>8, <2>9, Zenon
  <1>7. ASSUME NEW p \in Process, Unlock(p) PROVE ProfileInv'
    <2>1. /\ proc[p] \in Proc /\ proc[p].pc = "unlock"
          /\ proc[p].fact # None => proc[p].fact \in disk.facts
      BY <1>0, <1>7 DEF Unlock, At, UpdateInv
    <2>2. /\ UNCHANGED <<disk, tmp, crashes>> /\ lock' = FALSE
          /\ reported' = reported \cup ({proc[p].fact} \ {None})
          /\ proc' = [proc EXCEPT ![p] = Idle]
      BY <1>7, Zenon DEF Unlock, Become
    <2>3. /\ proc' \in [Process -> Proc] /\ proc'[p] = Idle
          /\ \A q \in Process \ {p} : proc'[q] = proc[q]
      BY <1>0, <2>2
    <2>4. Idle.pc = "idle"
      BY DEF Idle
    <2>5. \A q \in Process \ {p} : proc[q].pc \notin Locked
      <3>1. proc[p].pc \in Locked
        BY <2>1 DEF Locked
      <3> QED  BY <3>1, Zenon DEF Exclusive
    <2>6. Exclusive'
      <3>1. \A q \in Process : proc'[q].pc \notin Locked
        BY <2>3, <2>4, <2>5 DEF Locked
      <3> QED  BY <3>1, Zenon DEF Exclusive
    <2>7. reported' \subseteq Fact
      BY <1>0, <2>1, <2>2 DEF Profile
    <2>8. TypeOK'
      BY <2>2, <2>3, <2>7, Zenon DEF TypeOK
    <2>9. ReportedIsKept'
      BY <2>1, <2>2 DEF ReportedIsKept
    <2>10. \A q \in Process : UpdateInv(q)'
      BY <2>2, <2>3, <2>4 DEF UpdateInv, At
    <2> QED  BY <2>6, <2>8, <2>9, <2>10, Zenon
  <1>8. ASSUME NEW p \in Process, Crash(p) PROVE ProfileInv'
    <2>1. /\ UNCHANGED <<lock, disk, tmp, reported>>
          /\ crashes < MaxCrashes /\ crashes' = crashes + 1
          /\ proc' = [proc EXCEPT ![p] = Idle]
      BY <1>8, Zenon DEF Crash, Become
    <2>2. Idle.pc = "idle" /\ Idle.pc \notin Locked
      BY DEF Idle, Locked
    <2>3. /\ proc' \in [Process -> Proc] /\ Exclusive'
          /\ proc'[p] = Idle
          /\ \A q \in Process \ {p} : proc'[q] = proc[q]
      BY <1>0, <2>1, <2>2, StepOfOne, Zenon
    <2>4. crashes' \in 0 .. MaxCrashes
      BY <1>0, <2>1, ProfileAssumption
    <2>5. TypeOK'
      BY <2>1, <2>3, <2>4, Zenon DEF TypeOK
    <2>6. \A q \in Process : UpdateInv(q)'
      BY <2>1, <2>2, <2>3 DEF UpdateInv, At
    <2> QED  BY <2>1, <2>3, <2>5, <2>6, Zenon DEF ReportedIsKept
  <1>9. CASE UNCHANGED vars
    BY <1>9, Zenon DEF vars, TypeOK, Exclusive, ReportedIsKept, UpdateInv, At
  <1> QED
    BY <1>1, <1>2, <1>3, <1>4, <1>5, <1>6, <1>7, <1>8, <1>9, Zenon
    DEF Next, Step


\* The inductive invariant holds in every reachable state.
THEOREM ProfileInvariant == Spec => []ProfileInv
  BY ProfileInitHolds, ProfileStepPreserves, PTL DEF Spec

\* Store::update_profile: an update that returned successfully is never lost.
THEOREM NoLostUpdate == Spec => []ReportedIsKept
  <1>1. ProfileInv => ReportedIsKept
    BY DEF ProfileInv
  <1> QED  BY <1>1, ProfileInvariant, PTL

\* Every replacement of the profile file moves the revision forward and keeps
\* what the profile said.
THEOREM Serialized == Spec => RevisionSerializes
  <1> DEFINE Grows == disk' # disk => /\ \/ disk'.revision > disk.revision
                                         \/ disk.revision = MaxRevision
                                      /\ disk.facts \subseteq disk'.facts
  <1>1. ProfileInv /\ [Next]_vars => [Grows]_vars
    <2> SUFFICES ASSUME ProfileInv, Next PROVE Grows
      OBVIOUS
    <2>1. ASSUME NEW p \in Process, Rename(p) PROVE Grows
      <3>1. /\ proc[p] \in Proc /\ disk \in Profile
            /\ proc[p].fact # None /\ proc[p].next # None
            /\ tmp = Updated(disk, proc[p]) /\ tmp # None
        BY <2>1, TornAssumption
        DEF ProfileInv, TypeOK, Rename, At, UpdateInv
      <3>2. disk' = tmp
        BY <2>1, <3>1, Zenon DEF Rename
      <3> QED  BY <3>1, <3>2, UpdatedIsProfile
    <2>2. (\A p \in Process : ~Rename(p)) => disk' = disk
      BY Zenon DEF Next, Step, Begin, TryLock, ReadAndUpdate, OpenTemporary,
                   WriteTemporary, Unlock, Crash
    <2> QED  BY <2>1, <2>2
  <1> QED  BY <1>1, ProfileInvariant, PTL DEF Spec, RevisionSerializes

-----------------------------------------------------------------------------
(* Locks.                                                                  *)

\* A step of one command that takes at most what its next step says it has,
\* gives back the rest and leaves what others have keeps the locks in order.
LEMMA LocksStepOfOne ==
    ASSUME LocksInv, NEW p \in Prog, NEW c \in Command,
           command' = [command EXCEPT ![p] = c], kills' \in 0 .. MaxKills,
           c.pc \in {"learn", "update"} => c.stage \in {"answer", "page"},
           HasHandle(c) => handle' = p /\ handle \in {p, None},
           ~HasHandle(c) => handle' = IF handle = p THEN None ELSE handle,
           c.pc = "update" => profileLock' = p /\ profileLock \in {p, None},
           c.pc # "update" =>
                IF profileLock = p THEN profileLock' \in {None, Abandoned}
                                   ELSE profileLock' = profileLock
    PROVE  LocksInv'
  <1>1. /\ handle \in Prog \cup {None}
        /\ profileLock \in Prog \cup {None, Abandoned}
        /\ command \in [Prog -> Command]
    BY Zenon DEF LocksInv, LocksTypeOK
  <1>2. command' \in [Prog -> Command]
    BY <1>1
  <1>3. handle' \in Prog \cup {None}
    BY <1>1
  <1>4. profileLock' \in Prog \cup {None, Abandoned}
    BY <1>1
  <1>5. command'[p] = c /\ \A q \in Prog \ {p} : command'[q] = command[q]
    BY <1>1
  <1>6. None \notin Prog /\ Abandoned \notin Prog
    BY AttemptsAssumption
  <1>7. ASSUME NEW q \in Prog
        PROVE  /\ handle' = q <=> HasHandle(command'[q])
               /\ profileLock' = q <=> command'[q].pc = "update"
               /\ command'[q].pc \in {"learn", "update"}
                    => command'[q].stage \in {"answer", "page"}
    <2>1. CASE q = p
      BY <1>5, <1>6, <2>1
    <2>2. CASE q # p
      <3>1. /\ handle = q <=> HasHandle(command[q])
            /\ profileLock = q <=> command[q].pc = "update"
            /\ command[q].pc \in {"learn", "update"}
                  => command[q].stage \in {"answer", "page"}
        BY Zenon DEF LocksInv
      <3>2. command'[q] = command[q]
        BY <1>5, <2>2
      <3>3. handle' = q <=> handle = q
        BY <1>6, <2>2
      <3>4. profileLock' = q <=> profileLock = q
        BY <1>6, <2>2
      <3> QED  BY <3>1, <3>2, <3>3, <3>4
    <2> QED  BY <2>1, <2>2
  <1>8. \A q \in Prog :
            /\ handle' = q <=> HasHandle(command[q])'
            /\ profileLock' = q <=> command'[q].pc = "update"
            /\ command'[q].pc \in {"learn", "update"}
                 => command'[q].stage \in {"answer", "page"}
    BY <1>7 DEF HasHandle
  <1> QED  BY <1>2, <1>3, <1>4, <1>8, Zenon DEF LocksInv, LocksTypeOK

\* The commands that a step may leave: at another step with its tries at zero,
\* one try further, on the way to a further page, or over.
LEMMA NextCommands ==
    ASSUME LocksInv, NEW p \in Prog
    PROVE  /\ command[p] \in Command
           /\ \A step \in CommandSteps, stage \in Stages :
                 [command[p] EXCEPT !.pc = step, !.stage = stage, !.tries = 0]
                    \in Command
           /\ [command[p] EXCEPT !.tries = @ + 1] \in Command
           /\ command[p].pages < MostPages =>
                 /\ [command[p] EXCEPT !.pc = "wait", !.stage = "page",
                                       !.pages = @ + 1] \in Command
                 /\ [command[p] EXCEPT !.pc = "wait", !.pages = @ + 1] \in Command
           /\ NoCommand \in Command
  <1>1. command[p] \in Command
    BY DEF LocksInv, LocksTypeOK
  <1>2. command[p].pages < MostPages => command[p].pages + 1 \in 0 .. MostPages
    BY <1>1, AttemptsAssumption DEF Command
  <1>3. command[p].tries + 1 \in Nat /\ 0 \in 0 .. MostPages
    BY <1>1, AttemptsAssumption DEF Command
  <1> QED
    BY <1>1, <1>2, <1>3 DEF Command, CommandSteps, Stages, NoCommand

\* The initial state satisfies the inductive invariant.
LEMMA LocksInitHolds == LocksInit => LocksInv
  <1> SUFFICES ASSUME LocksInit PROVE LocksInv  OBVIOUS
  <1>1. NoCommand \in Command
    BY AttemptsAssumption DEF NoCommand, Command, CommandSteps, Stages
  <1>2. LocksTypeOK
    BY <1>1, AttemptsAssumption DEF LocksInit, LocksTypeOK
  <1> QED
    BY <1>2, AttemptsAssumption DEF LocksInit, LocksInv, HasHandle, NoCommand

\* Every step of a command, of its source and of the environment keeps the
\* locks in order.
LEMMA LocksStepPreserves == LocksInv /\ [LocksNext]_lockVars => LocksInv'
  <1> SUFFICES ASSUME LocksInv, [LocksNext]_lockVars PROVE LocksInv'
    OBVIOUS
  <1>1. CASE UNCHANGED lockVars
    BY <1>1 DEF lockVars, LocksInv, LocksTypeOK, HasHandle
  <1>2. ASSUME NEW p \in Prog,
               \/ BeginCommand(p) \/ CommandStep(p) \/ SourceAnswers(p)
               \/ Kill(p)
        PROVE  LocksInv'
    <2>1. /\ command[p] \in Command /\ kills \in 0 .. MaxKills
          /\ handle = p <=> HasHandle(command[p])
          /\ profileLock = p <=> command[p].pc = "update"
          /\ command[p].pc \in {"learn", "update"}
                => command[p].stage \in {"answer", "page"}
          /\ handle \in Prog \cup {None}
          /\ profileLock \in Prog \cup {None, Abandoned}
      BY DEF LocksInv, LocksTypeOK
    <2>2. None \notin Prog /\ Abandoned \notin Prog
      BY AttemptsAssumption
    <2>3. /\ NoCommand.pc = "idle" /\ NoCommand \in Command
          /\ NoCommand.pc # "update" /\ ~HasHandle(NoCommand)
      BY NextCommands DEF NoCommand, HasHandle
    <2>4. ASSUME End(p), kills' \in 0 .. MaxKills,
                 IF profileLock = p THEN profileLock' \in {None, Abandoned}
                                    ELSE profileLock' = profileLock
          PROVE  LocksInv'
      <3>1. /\ command' = [command EXCEPT ![p] = NoCommand]
            /\ handle' = IF handle = p THEN None ELSE handle
        BY <2>4 DEF End, Release
      <3> QED  BY <2>3, <2>4, <3>1, LocksStepOfOne
    <2>5. ASSUME NEW step \in CommandSteps, NEW stage \in Stages,
                 Go(p, step, stage), kills' = kills,
                 step \in {"learn", "update"} => stage \in {"answer", "page"},
                 IF step = "use" \/ (step \in {"learn", "update"} /\ stage = "page")
                 THEN handle' = p /\ handle \in {p, None}
                 ELSE handle' = IF handle = p THEN None ELSE handle,
                 IF step = "update" THEN profileLock' = p /\ profileLock \in {p, None}
                 ELSE IF profileLock = p THEN profileLock' \in {None, Abandoned}
                                         ELSE profileLock' = profileLock
          PROVE  LocksInv'
      <3> DEFINE c == [command[p] EXCEPT !.pc = step, !.stage = stage,
                                         !.tries = 0]
      <3>1. c \in Command /\ c.pc = step /\ c.stage = stage
        BY <2>1, NextCommands DEF Command
      <3>2. command' = [command EXCEPT ![p] = c]
        BY <2>5 DEF Go
      <3> HIDE DEF c
      <3>3. HasHandle(c)
              <=> step = "use" \/ (step \in {"learn", "update"} /\ stage = "page")
        BY <3>1 DEF HasHandle
      <3> QED  BY <2>1, <2>5, <3>1, <3>2, <3>3, LocksStepOfOne
    <2>6. ASSUME NEW c \in Command, command' = [command EXCEPT ![p] = c],
                 c.pc = command[p].pc, c.stage = command[p].stage,
                 UNCHANGED <<handle, profileLock, kills>>
          PROVE  LocksInv'
      <3>1. HasHandle(c) <=> HasHandle(command[p])
        BY <2>6 DEF HasHandle
      <3> QED  BY <2>1, <2>6, <3>1, LocksStepOfOne
    <2>7. [command[p] EXCEPT !.tries = @ + 1] \in Command
      BY NextCommands
    <2>8. command[p].pc \in CommandSteps /\ command[p].stage \in Stages
      BY <2>1 DEF Command
    <2> USE DEF CommandAt, HasHandle
    <2>9. CASE BeginCommand(p)
      BY <2>1, <2>5, <2>9 DEF BeginCommand, CommandSteps, Stages
    <2>10. CASE TryOpen(p)
      <3>1. handle # p /\ profileLock # p
        BY <2>1, <2>10 DEF TryOpen
      <3>2. CASE handle = None
        BY <2>1, <2>2, <2>5, <2>8, <2>10, <3>1, <3>2
        DEF TryOpen, CommandSteps
      <3>3. CASE handle # None /\ ~End(p)
        <4> DEFINE c == [command[p] EXCEPT !.tries = @ + 1]
        <4>1. command' = [command EXCEPT ![p] = c]
              /\ UNCHANGED <<handle, profileLock, kills>>
          BY <2>10, <3>3 DEF TryOpen
        <4> QED  BY <2>1, <2>6, <2>7, <4>1 DEF Command
      <3>4. CASE End(p)
        BY <2>1, <2>4, <2>10, <3>1, <3>4 DEF TryOpen
      <3> QED  BY <3>2, <3>3, <3>4
    <2>11. CASE EndLookup(p)
      BY <2>1, <2>4, <2>11 DEF EndLookup
    <2>12. CASE ReleaseAndWait(p)
      BY <2>1, <2>5, <2>12 DEF ReleaseAndWait, Release, CommandSteps, Stages
    <2>13. ASSUME FollowPage(p) PROVE LocksInv'
      <3> DEFINE c == [command[p] EXCEPT !.pc = "wait", !.stage = "page",
                                         !.pages = @ + 1]
      <3>1. c \in Command /\ c.pc = "wait" /\ c.stage = "page"
        BY <2>1, <2>13, NextCommands DEF FollowPage, Command
      <3>2. command' = [command EXCEPT ![p] = c]
        BY <2>13 DEF FollowPage
      <3> HIDE DEF c
      <3> QED
        BY <2>1, <2>13, <3>1, <3>2, LocksStepOfOne
        DEF FollowPage, Persisted, Release
    <2>14. CASE LearnPage(p)
      BY <2>1, <2>5, <2>14 DEF LearnPage, CommandSteps, Stages
    <2>15. CASE EndStored(p)
      BY <2>1, <2>4, <2>15 DEF EndStored, Persisted
    <2>16. CASE TryProfileLock(p)
      <3>1. profileLock # p
        BY <2>1, <2>16 DEF TryProfileLock
      <3>2. CASE profileLock = None
        BY <2>1, <2>2, <2>5, <2>8, <2>16, <3>1, <3>2
        DEF TryProfileLock, CommandSteps
      <3>3. CASE profileLock # None /\ ~End(p)
        <4> DEFINE c == [command[p] EXCEPT !.tries = @ + 1]
        <4>1. command' = [command EXCEPT ![p] = c]
              /\ UNCHANGED <<handle, profileLock, kills>>
          BY <2>16, <3>3 DEF TryProfileLock
        <4> QED  BY <2>1, <2>6, <2>7, <4>1 DEF Command
      <3>4. CASE profileLock # None /\ End(p)
        BY <2>1, <2>4, <2>16, <3>1, <3>4 DEF TryProfileLock
      <3> QED  BY <3>2, <3>3, <3>4
    <2>17. ASSUME Learnt(p) PROVE LocksInv'
      <3>1. command[p].pc = "update" /\ profileLock = p /\ profileLock' = None
            /\ kills' = kills
        BY <2>1, <2>17 DEF Learnt
      <3>2. CASE command[p].stage = "answer"
        BY <2>1, <2>5, <2>17, <3>1, <3>2 DEF Learnt, CommandSteps, Stages
      <3>3. CASE command[p].stage = "page" /\ Go(p, "use", "last")
                 /\ UNCHANGED handle
        BY <2>1, <2>5, <3>1, <3>3 DEF CommandSteps, Stages
      <3> DEFINE c == [command[p] EXCEPT !.pc = "wait", !.pages = @ + 1]
      <3>4. CASE command[p].stage = "page" /\ command[p].pages < MostPages
                 /\ Release(p) /\ command' = [command EXCEPT ![p] = c]
        <4>1. c \in Command /\ c.pc = "wait"
          BY <2>1, <3>4, NextCommands DEF Command
        <4> HIDE DEF c
        <4> QED
          BY <2>1, <3>1, <3>4, <4>1, LocksStepOfOne DEF Release
      <3> QED
        BY <2>1, <2>17, <3>1, <3>2, <3>3, <3>4 DEF Learnt
    <2>18. ASSUME NEW learns \in BOOLEAN, AnswerFirst(p, learns)
           PROVE  LocksInv'
      BY <2>1, <2>5, <2>18 DEF AnswerFirst, CommandSteps, Stages
    <2>19. CASE AnswerPage(p)
      BY <2>1, <2>5, <2>19 DEF AnswerPage, CommandSteps, Stages
    <2>20. CASE AnswerFails(p)
      <3>1. CASE End(p)
        BY <2>1, <2>4, <2>20, <3>1 DEF AnswerFails
      <3>2. CASE Go(p, "open", "last") /\ UNCHANGED handle
        BY <2>1, <2>5, <2>20, <3>2 DEF AnswerFails, CommandSteps, Stages
      <3> QED  BY <2>20, <3>1, <3>2 DEF AnswerFails
    <2>21. CASE Kill(p)
      <3>1. kills' \in 0 .. MaxKills
        BY <2>1, <2>21, AttemptsAssumption DEF Kill
      <3> QED  BY <2>1, <2>4, <2>21, <3>1 DEF Kill
    <2> QED
      BY <1>2, <2>9, <2>10, <2>11, <2>12, <2>13, <2>14, <2>15, <2>16, <2>17,
         <2>18, <2>19, <2>20, <2>21, Zenon DEF CommandStep, SourceAnswers
  <1> QED  BY <1>1, <1>2 DEF LocksNext

\* For any number of commands, pages, attempts and crashes, the locks are in
\* order in every reachable state.
THEOREM LocksInvariant == LocksSpec => []LocksInv
  BY LocksInitHolds, LocksStepPreserves, PTL DEF LocksSpec

\* docs/cache.md: no command waits for its source with the database or the
\* profile's lock in its hands, whatever crashes around it.
THEOREM NobodyWaitsWithALock == LocksSpec => []WaitsEmptyHanded
  <1>1. LocksInv => WaitsEmptyHanded
    BY DEF LocksInv, WaitsEmptyHanded, HasHandle
  <1> QED  BY <1>1, LocksInvariant, PTL

-----------------------------------------------------------------------------
(* MCP sessions.                                                           *)

\* A result that may prove something absent is kept with all its lines, and,
\* but for a blob, is no larger than the cap.
LEMMA NormalizedWhole ==
    ASSUME NEW method, NEW result \in Results,
           ProvesAbsence(Normalize(method, result))
    PROVE  /\ Normalize(method, result).kept = result.lines
           /\ result.content # "blob" => result.bytes <= ContentCap
  <1> DEFINE data == NormalData(result)
  <1>1. result \in Result /\ ContentCap \in Nat
    BY McpAssumption
  <1>2. /\ data.truncated \in BOOLEAN
        /\ ProvesAbsence(data) =>
              /\ data.kept = result.lines
              /\ result.content # "blob" => result.bytes <= ContentCap
    <2>1. CASE result.content = "structured"
      BY <1>1, <2>1 DEF NormalData, Whole, Normal, ProvesAbsence, Result
    <2>2. CASE result.content = "text"
      <3> DEFINE cut == result.bytes > ContentCap
      <3>1. data = NormalText(result)
        BY <2>2 DEF NormalData
      <3>2. CASE ~cut /\ result.isJson
        BY <1>1, <3>1, <3>2 DEF NormalText, Whole, Normal, Result
      <3>3. CASE cut
        <4>1. data.truncated = (result.bytes > ContentCap)
          BY <3>1, <3>3 DEF NormalText, Normal
        <4> QED  BY <3>3, <4>1 DEF ProvesAbsence
      <3>4. CASE ~cut /\ ~result.isJson
        BY <1>1, <3>1, <3>4
        DEF NormalText, Normal, ProvesAbsence, Window, Result
      <3> QED  BY <3>2, <3>3, <3>4
    <2>3. CASE result.content = "blob"
      BY <1>1, <2>3 DEF NormalData, Whole, Normal, ProvesAbsence, Result
    <2> QED  BY <1>1, <2>1, <2>2, <2>3 DEF Result
  <1>3. DOMAIN data = {"format", "lines", "kept", "truncated", "received_error"}
    BY <1>1 DEF NormalData, NormalText, Whole, Normal, Result
  <1> HIDE DEF data
  <1>4. CASE method = "read"
    BY <1>2, <1>4 DEF Normalize, data
  <1>5. CASE method # "read"
    <2>1. Normalize(method, result)
            = [data EXCEPT !.truncated = @ \/ result.blockBytes > ContentCap,
                           !.received_error = result.isError]
      BY <1>5, Zenon DEF Normalize, data
    <2>2. /\ Normalize(method, result).kept = data.kept
          /\ Normalize(method, result).lines = data.lines
          /\ Normalize(method, result).format = data.format
          /\ Normalize(method, result).truncated
                = (data.truncated \/ result.blockBytes > ContentCap)
      BY <1>3, <2>1
    <2> QED  BY <1>2, <2>2 DEF ProvesAbsence
  <1> QED  BY <1>4, <1>5

\* The initial state satisfies the inductive invariant.
LEMMA McpInitHolds == McpInit => McpInv
  <1> SUFFICES ASSUME McpInit PROVE McpInv  OBVIOUS
  <1>1. McpTypeOK
    BY McpAssumption DEF McpInit, McpTypeOK, Lists
  <1> QED
    BY <1>1 DEF McpInit, McpInv, StreamInv, NormalizedInv, DiagnosticsAreWhole,
                Ended

\* A session that is killed ends in order: its group is killed, with it goes
\* what its processes held, and its reader is done or aborted.
LEMMA McpKilled ==
    ASSUME McpInv, ~Ended, mcp' = [mcp EXCEPT !.phase = "ended"], Killed,
           errors' = [errors EXCEPT
                        !.drain = IF @ = "reading" THEN "aborted" ELSE @,
                        !.severed = @ \/ errors.held # {}, !.held = {}],
           outcome'.kind # "error" =>
              (outcome'.complete =>
                  errors.drain = "eof" /\ outcome'.observed = errors.seen)
    PROVE  McpInv'
  <1>1. /\ McpTypeOK /\ StreamInv
    BY DEF McpInv
  <1>2. McpTypeOK'
    <2>1. mcp' \in [method : Methods, list : 1 .. Len(Lists),
                    phase : {"spawn", "handshake", "request", "close", "drain",
                             "ended"},
                    interrupted : {None, "shutdown_timeout", "shutdown_failed"}]
      BY <1>1 DEF McpTypeOK
    <2>2. peer' \in [server : BOOLEAN, helper : BOOLEAN, offers : Capabilities,
                     executed : Nat, answered : BOOLEAN]
      BY <1>1 DEF McpTypeOK, Killed
    <2>3. errors' \in [written : 0 .. MaxWrites,
                       held : SUBSET {"server", "helper"},
                       seen : 0 .. MaxWrites, severed : BOOLEAN,
                       drain : {"reading", "eof", "failed", "aborted"}]
      BY <1>1 DEF McpTypeOK
    <2> QED  BY <2>1, <2>2, <2>3, Zenon DEF McpTypeOK, Killed
  <1>3. /\ Ended' /\ ~peer'.server /\ group' = "killed"
        /\ errors'.held = {} /\ errors'.written = errors.written
        /\ errors'.seen = errors.seen
        /\ errors'.drain = "eof" <=> errors.drain = "eof"
        /\ errors.drain = "eof" => ~errors'.severed
    BY <1>1 DEF McpTypeOK, StreamInv, Killed, Ended
  <1>4. StreamInv'
    BY <1>1, <1>3 DEF StreamInv, Ended
  <1>5. NormalizedInv'
    BY <1>3, Zenon DEF NormalizedInv
  <1>6. DiagnosticsAreWhole'
    BY <1>1, <1>3 DEF DiagnosticsAreWhole, StreamInv
  <1> QED  BY <1>2, <1>4, <1>5, <1>6, Zenon DEF McpInv

\* So does one that fails.
LEMMA McpFails ==
    ASSUME McpInv, ~Ended, NEW error, Fail(error)
    PROVE  McpInv'
  <1>1. outcome'.kind = "error"
    BY DEF Fail
  <1>2. /\ mcp' = [mcp EXCEPT !.phase = "ended"] /\ Killed
        /\ errors' = [errors EXCEPT
                        !.drain = IF @ = "reading" THEN "aborted" ELSE @,
                        !.severed = @ \/ errors.held # {}, !.held = {}]
    BY Zenon DEF Fail
  <1> QED  BY <1>1, <1>2, McpKilled

\* What the invariant needs of a step of the client that neither fails nor
\* ends the session and leaves the stream alone.
LEMMA McpGoesOn ==
    ASSUME McpInv, ~Ended, mcp.phase # "spawn", UNCHANGED <<errors, group>>,
           McpTypeOK', mcp'.phase \notin {"spawn", "ended"},
           mcp'.method = mcp.method, peer'.server = peer.server, NormalizedInv'
    PROVE  McpInv'
  BY DEF McpInv, StreamInv, DiagnosticsAreWhole, Ended

\* A step of the reader or of the server's processes, with the session under
\* way: the reader stays behind, and its end is one.
LEMMA McpStreams ==
    ASSUME McpInv, UNCHANGED <<mcp, group, outcome>>, McpTypeOK',
           errors'.severed = errors.severed,
           errors'.seen <= errors'.written,
           peer'.server => "server" \in errors'.held,
           errors'.drain = "eof" =>
              errors'.seen = errors'.written /\ errors'.held = {}
                /\ mcp.phase # "spawn",
           Ended => errors'.held = {} /\ errors'.drain = errors.drain
                      /\ errors'.written = errors.written
    PROVE  McpInv'
  BY DEF McpInv, StreamInv, NormalizedInv, DiagnosticsAreWhole, Ended

\* An accepted answer: the session closes, or a discovery asks for another list.
LEMMA McpAccepts ==
    ASSUME McpInv, mcp.phase = "request", NEW value, Accept(value),
           (value # None /\ value.kind = "result") =>
              /\ value.result \in Results
              /\ value.normal = Normalize(mcp.method, value.result)
    PROVE  McpInv'
  <1>1. McpTypeOK
    BY DEF McpInv
  <1>2. /\ mcp' \in [method : Methods, list : 1 .. Len(Lists),
                     phase : {"request", "close"},
                     interrupted : {None, "shutdown_timeout", "shutdown_failed"}]
        /\ mcp'.method = mcp.method
    <2>1. Len(Lists) \in Nat
      BY DEF Lists
    <2>2. CASE mcp.method = "discover" /\ mcp.list < Len(Lists)
      <3>1. mcp' = [mcp EXCEPT !.list = mcp.list + 1]
        BY <2>2 DEF Accept
      <3>2. mcp.list + 1 \in 1 .. Len(Lists)
        BY <1>1, <2>1, <2>2 DEF McpTypeOK
      <3> QED  BY <1>1, <3>1, <3>2 DEF McpTypeOK
    <2>3. CASE ~(mcp.method = "discover" /\ mcp.list < Len(Lists))
      BY <1>1, <2>3 DEF Accept, McpTypeOK
    <2> QED  BY <2>2, <2>3
  <1>3. /\ peer' \in [server : BOOLEAN, helper : BOOLEAN, offers : Capabilities,
                      executed : Nat, answered : BOOLEAN]
        /\ peer'.server = peer.server
    BY <1>1 DEF Accept, McpTypeOK
  <1>4. UNCHANGED <<errors, group>> /\ outcome' = value
    BY DEF Accept
  <1>5. McpTypeOK'
    BY <1>1, <1>2, <1>3, <1>4 DEF McpTypeOK
  <1>6. NormalizedInv'
    <2>1. Normalize(mcp'.method, value.result) = Normalize(mcp.method, value.result)
      BY <1>2
    <2> QED  BY <1>4, <2>1 DEF NormalizedInv, Normalize
  <1> QED  BY <1>2, <1>3, <1>4, <1>5, <1>6, McpGoesOn DEF Ended

\* The server or its helper may go, and let go of the stream.
LEMMA StreamLetGo ==
    ASSUME McpTypeOK, NEW held \in SUBSET {"server", "helper"}
    PROVE  LET stream == [errors EXCEPT !.held = held]
           IN  /\ stream \in [written : 0 .. MaxWrites,
                              held : SUBSET {"server", "helper"},
                              seen : 0 .. MaxWrites, severed : BOOLEAN,
                              drain : {"reading", "eof", "failed", "aborted"}]
               /\ stream.held = held
               /\ stream.severed = errors.severed /\ stream.drain = errors.drain
               /\ stream.seen = errors.seen /\ stream.written = errors.written
  BY DEF McpTypeOK

\* A change of the server's processes changes nothing else of the server.
LEMMA PeerLives ==
    ASSUME McpTypeOK, NEW alive \in BOOLEAN
    PROVE  /\ [peer EXCEPT !.server = alive] \in
                 [server : BOOLEAN, helper : BOOLEAN, offers : Capabilities,
                  executed : Nat, answered : BOOLEAN]
           /\ [peer EXCEPT !.helper = alive] \in
                 [server : BOOLEAN, helper : BOOLEAN, offers : Capabilities,
                  executed : Nat, answered : BOOLEAN]
           /\ [peer EXCEPT !.server = alive].server = alive
           /\ [peer EXCEPT !.helper = alive].server = peer.server
  BY DEF McpTypeOK

\* Each step of the client, its reader and the server's processes preserves it.
LEMMA McpStepPreserves == McpInv /\ [McpNext]_mcpVars => McpInv'
  <1> SUFFICES ASSUME McpInv, [McpNext]_mcpVars PROVE McpInv'  OBVIOUS
  <1>0. McpTypeOK /\ StreamInv
    BY DEF McpInv
  <1>1. CASE UNCHANGED mcpVars
    BY <1>1 DEF mcpVars, McpInv, McpTypeOK, StreamInv, NormalizedInv,
                DiagnosticsAreWhole, Ended
  <1>2. ASSUME NEW error, ~Ended, Fail(error) PROVE McpInv'
    BY <1>2, McpFails
  <1>3. ASSUME SpawnServer PROVE McpInv'
    <2>1. ~Ended /\ mcp.phase = "spawn"
      BY <1>3 DEF SpawnServer, Ended
    <2>2. CASE Fail("transport")
      BY <1>2, <2>1, <2>2
    <2>3. CASE /\ mcp' = [mcp EXCEPT !.phase = "handshake"]
               /\ peer' = [peer EXCEPT !.server = TRUE]
               /\ errors' = [errors EXCEPT !.held = {"server"}]
               /\ UNCHANGED <<group, outcome>>
      <3>1. McpTypeOK'
        BY <1>0, <2>3 DEF McpTypeOK
      <3>2. StreamInv'
        BY <1>0, <2>1, <2>3 DEF McpTypeOK, StreamInv, Ended
      <3>3. mcp'.method = mcp.method /\ ~Ended'
        BY <1>0, <2>3 DEF McpTypeOK, Ended
      <3>4. NormalizedInv'
        BY <2>1, <2>3, <3>3 DEF McpInv, NormalizedInv, Normalize
      <3>5. DiagnosticsAreWhole'
        BY <1>0, <2>1, <2>3, <3>3 DEF StreamInv, DiagnosticsAreWhole
      <3> QED  BY <3>1, <3>2, <3>4, <3>5 DEF McpInv
    <2> QED  BY <1>3, <2>2, <2>3 DEF SpawnServer
  <1>4. ASSUME NEW phase \in {"request", "close"},
               mcp.phase \in {"handshake", "request"},
               mcp' = [mcp EXCEPT !.phase = phase],
               UNCHANGED <<peer, errors, group, outcome>>
        PROVE  McpInv'
    <2>1. McpTypeOK' /\ mcp'.method = mcp.method /\ mcp'.phase = phase
      BY <1>0, <1>4 DEF McpTypeOK
    <2>2. NormalizedInv'
      BY <1>4, <2>1 DEF McpInv, NormalizedInv, Normalize, Ended
    <2> QED  BY <1>4, <2>1, <2>2, McpGoesOn DEF Ended
  <1>5. CASE Handshake
    BY <1>2, <1>4, <1>5 DEF Handshake, Ended
  <1>6. CASE HandshakeFails
    BY <1>2, <1>6 DEF HandshakeFails, Ended
  <1>7. ASSUME SkipList PROVE McpInv'
    <2>1. CASE mcp.list < Len(Lists)
      <3>1. mcp' = [mcp EXCEPT !.list = mcp.list + 1]
            /\ mcp.phase = "request" /\ UNCHANGED <<peer, errors, group, outcome>>
        BY <1>7, <2>1 DEF SkipList
      <3>2. mcp.list + 1 \in 1 .. Len(Lists)
        BY <1>0, <2>1 DEF McpTypeOK, Lists
      <3>3. McpTypeOK' /\ mcp'.method = mcp.method /\ mcp'.phase = "request"
        BY <1>0, <3>1, <3>2 DEF McpTypeOK
      <3>4. NormalizedInv'
        BY <3>1, <3>3 DEF McpInv, NormalizedInv, Normalize, Ended
      <3> QED  BY <3>1, <3>3, <3>4, McpGoesOn DEF Ended
    <2>2. CASE ~(mcp.list < Len(Lists))
      BY <1>4, <1>7, <2>2 DEF SkipList
    <2> QED  BY <2>1, <2>2
  <1>8. ASSUME ServerExecutes PROVE McpInv'
    <2>1. /\ mcp.phase = "request" /\ UNCHANGED <<mcp, errors, group, outcome>>
          /\ peer' = [peer EXCEPT !.executed = peer.executed + 1,
                                  !.answered = TRUE]
      BY <1>8 DEF ServerExecutes
    <2>2. /\ peer' \in [server : BOOLEAN, helper : BOOLEAN,
                        offers : Capabilities, executed : Nat, answered : BOOLEAN]
          /\ peer'.server = peer.server
      <3>1. peer.executed + 1 \in Nat
        BY <1>0 DEF McpTypeOK
      <3> QED  BY <1>0, <2>1, <3>1 DEF McpTypeOK
    <2>3. McpTypeOK'
      BY <1>0, <2>1, <2>2 DEF McpTypeOK
    <2>4. NormalizedInv'
      BY <2>1 DEF McpInv, NormalizedInv, Normalize, Ended
    <2> QED  BY <2>1, <2>2, <2>3, <2>4, McpGoesOn DEF Ended
  <1>9. CASE Answer
    <2>1. mcp.phase = "request"
      BY <1>9 DEF Answer, DiscoverList, CallTool, ReadResource, CallToolAsTask,
                  GetTask, CancelTask, GetTaskResult, Answered
    <2>2. ASSUME NEW result \in Results, Accept(Normalized(result))
          PROVE  McpInv'
      BY <2>1, <2>2, McpAccepts DEF Normalized
    <2>3. ASSUME Accept(None) PROVE McpInv'
      BY <2>1, <2>3, McpAccepts
    <2>4. ASSUME Accept([kind |-> "task"]) PROVE McpInv'
      BY <2>1, <2>4, McpAccepts
    <2>5. ASSUME Fail("protocol") PROVE McpInv'
      BY <1>2, <2>1, <2>5 DEF Ended
    <2> QED
      BY <1>9, <2>2, <2>3, <2>4, <2>5, Zenon
      DEF Answer, DiscoverList, CallTool, ReadResource, CallToolAsTask, GetTask,
          CancelTask, GetTaskResult
  <1>10. CASE RequestFails
    BY <1>2, <1>10 DEF RequestFails, Ended
  <1>11. ASSUME Close PROVE McpInv'
    <2>1. /\ mcp.phase = "close" /\ UNCHANGED <<group, outcome>>
          /\ \/ /\ peer' = [peer EXCEPT !.server = FALSE]
                /\ errors' = [errors EXCEPT !.held = errors.held \ {"server"}]
             \/ UNCHANGED <<peer, errors>>
      BY <1>11 DEF Close
    <2>2. \E reason \in {mcp.interrupted, "shutdown_timeout", "shutdown_failed"} :
             mcp' = [mcp EXCEPT !.phase = "drain", !.interrupted = reason]
      BY <1>0, <1>11, ZenonT(60) DEF Close, McpTypeOK
    <2>3. /\ mcp' \in [method : Methods, list : 1 .. Len(Lists), phase : {"drain"},
                       interrupted : {None, "shutdown_timeout", "shutdown_failed"}]
          /\ mcp'.method = mcp.method
      BY <1>0, <2>2 DEF McpTypeOK
    <2>4. /\ peer' \in [server : BOOLEAN, helper : BOOLEAN,
                        offers : Capabilities, executed : Nat, answered : BOOLEAN]
          /\ errors' \in [written : 0 .. MaxWrites,
                          held : SUBSET {"server", "helper"},
                          seen : 0 .. MaxWrites, severed : BOOLEAN,
                          drain : {"reading", "eof", "failed", "aborted"}]
          /\ errors'.drain = errors.drain /\ errors'.severed = errors.severed
          /\ errors'.seen = errors.seen /\ errors'.written = errors.written
          /\ errors'.held \subseteq errors.held
          /\ peer'.server => "server" \in errors'.held
      <3>1. CASE UNCHANGED <<peer, errors>>
        BY <1>0, <3>1 DEF McpTypeOK, StreamInv
      <3>2. CASE /\ peer' = [peer EXCEPT !.server = FALSE]
                 /\ errors' = [errors EXCEPT !.held = errors.held \ {"server"}]
        <4>1. errors.held \ {"server"} \in SUBSET {"server", "helper"}
          BY <1>0 DEF McpTypeOK
        <4>2. ~peer'.server
          BY <1>0, <3>2 DEF McpTypeOK
        <4> QED  BY <1>0, <3>2, <4>1, <4>2, StreamLetGo, PeerLives
      <3> QED  BY <2>1, <3>1, <3>2
    <2>5. McpTypeOK'
      BY <1>0, <2>1, <2>3, <2>4 DEF McpTypeOK
    <2>6. StreamInv'
      BY <1>0, <2>1, <2>3, <2>4 DEF StreamInv, Ended
    <2>7. NormalizedInv'
      BY <2>1, <2>3 DEF McpInv, NormalizedInv, Normalize, Ended
    <2>8. DiagnosticsAreWhole'
      BY <1>0, <2>1, <2>3 DEF StreamInv, DiagnosticsAreWhole, Ended
    <2> QED  BY <2>5, <2>6, <2>7, <2>8 DEF McpInv
  <1>12. ASSUME Collect PROVE McpInv'
    <2>1. /\ mcp.phase = "drain" /\ ~Ended
          /\ mcp' = [mcp EXCEPT !.phase = "ended"]
          /\ outcome'.complete = (StopReason = "eof")
          /\ outcome'.observed = errors.seen
      BY <1>12 DEF Collect, CollectThenDispose, Ended
    <2>2. StopReason = "eof" => errors.drain = "eof"
      BY <1>0 DEF StopReason, McpTypeOK
    <2>3. CASE ~(mcp.interrupted = None /\ StopReason = "eof")
      <3>1. /\ Killed
            /\ errors' = [errors EXCEPT
                            !.drain = IF @ = "reading" THEN "aborted" ELSE @,
                            !.severed = @ \/ errors.held # {}, !.held = {}]
        BY <1>12, <2>3, Zenon DEF Collect, CollectThenDispose
      <3> QED  BY <2>1, <2>2, <3>1, McpKilled
    <2>4. CASE mcp.interrupted = None /\ StopReason = "eof"
      <3>1. group' = "disarmed" /\ UNCHANGED <<peer, errors>>
        BY <1>12, <2>4 DEF Collect, CollectThenDispose
      <3>2. /\ errors.held = {} /\ ~peer.server /\ ~errors.severed
            /\ errors.seen = errors.written /\ errors.drain = "eof"
        BY <1>0, <2>1, <2>2, <2>4 DEF StreamInv
      <3>3. McpTypeOK' /\ Ended'
        BY <1>0, <2>1, <3>1 DEF McpTypeOK, Ended
      <3>4. StreamInv'
        BY <1>0, <3>1, <3>2, <3>3 DEF StreamInv, Ended
      <3>5. NormalizedInv'
        BY <3>3 DEF NormalizedInv
      <3>6. DiagnosticsAreWhole'
        BY <2>1, <3>1, <3>2 DEF DiagnosticsAreWhole
      <3> QED  BY <3>3, <3>4, <3>5, <3>6 DEF McpInv
    <2> QED  BY <2>3, <2>4
  <1>13. ASSUME ReadStderr PROVE McpInv'
    <2>1. /\ ~Ended /\ errors.drain = "reading"
          /\ UNCHANGED <<mcp, peer, group, outcome>>
      BY <1>13 DEF ReadStderr, Ended
    <2>2. \/ /\ errors.seen < errors.written
             /\ errors' = [errors EXCEPT !.seen = errors.seen + 1]
          \/ /\ errors.seen = errors.written /\ errors.held = {}
             /\ mcp.phase # "spawn"
             /\ errors' = [errors EXCEPT !.drain = "eof"]
          \/ errors' = [errors EXCEPT !.drain = "failed"]
      BY <1>13 DEF ReadStderr
    <2>3. /\ errors' \in [written : 0 .. MaxWrites,
                          held : SUBSET {"server", "helper"},
                          seen : 0 .. MaxWrites, severed : BOOLEAN,
                          drain : {"reading", "eof", "failed", "aborted"}]
          /\ errors'.severed = errors.severed /\ errors'.held = errors.held
          /\ errors'.seen <= errors'.written
          /\ errors'.drain = "eof" =>
                errors'.seen = errors'.written /\ errors'.held = {}
                  /\ mcp.phase # "spawn"
      BY <1>0, <2>1, <2>2, McpAssumption DEF McpTypeOK, StreamInv
    <2>4. McpTypeOK'
      BY <1>0, <2>1, <2>3 DEF McpTypeOK
    <2> QED  BY <1>0, <2>1, <2>3, <2>4, McpStreams DEF StreamInv
  <1>14. ASSUME WriteStderr PROVE McpInv'
    <2>1. /\ errors.held # {} /\ errors.written < MaxWrites
          /\ errors' = [errors EXCEPT !.written = errors.written + 1]
          /\ UNCHANGED <<mcp, peer, group, outcome>>
      BY <1>14 DEF WriteStderr
    <2>2. /\ errors' \in [written : 0 .. MaxWrites,
                          held : SUBSET {"server", "helper"},
                          seen : 0 .. MaxWrites, severed : BOOLEAN,
                          drain : {"reading", "eof", "failed", "aborted"}]
          /\ errors'.severed = errors.severed /\ errors'.held = errors.held
          /\ errors'.drain = errors.drain /\ errors'.seen <= errors'.written
      BY <1>0, <2>1, McpAssumption DEF McpTypeOK, StreamInv
    <2>3. McpTypeOK'
      BY <1>0, <2>1, <2>2 DEF McpTypeOK
    <2>4. ~Ended
      BY <2>1 DEF McpInv, DiagnosticsAreWhole
    <2> QED  BY <1>0, <2>1, <2>2, <2>3, <2>4, McpStreams DEF StreamInv
  <1>15. ASSUME StartHelper \/ ServerExits \/ HelperExits PROVE McpInv'
    <2>1. /\ UNCHANGED <<mcp, group, outcome>>
          /\ peer' \in [server : BOOLEAN, helper : BOOLEAN,
                        offers : Capabilities, executed : Nat, answered : BOOLEAN]
          /\ errors' \in [written : 0 .. MaxWrites,
                          held : SUBSET {"server", "helper"},
                          seen : 0 .. MaxWrites, severed : BOOLEAN,
                          drain : {"reading", "eof", "failed", "aborted"}]
          /\ errors'.severed = errors.severed
          /\ errors'.drain = errors.drain /\ errors'.seen = errors.seen
          /\ errors'.written = errors.written
          /\ peer'.server => "server" \in errors'.held
          /\ errors.held = {} => errors'.held = {}
      <3>1. errors.held \in SUBSET {"server", "helper"}
        BY <1>0 DEF McpTypeOK
      <3>2. peer.server => "server" \in errors.held
        BY <1>0 DEF StreamInv
      <3>3. CASE StartHelper
        <4>1. /\ peer.server /\ UNCHANGED <<mcp, group, outcome>>
              /\ peer' = [peer EXCEPT !.helper = TRUE]
              /\ \/ errors' = [errors EXCEPT
                                   !.held = errors.held \union {"helper"}]
                 \/ errors' = errors
          BY <3>3 DEF StartHelper
        <4>2. CASE errors' = errors
          BY <1>0, <3>2, <4>1, <4>2, PeerLives DEF McpTypeOK
        <4>3. CASE errors' = [errors EXCEPT
                                !.held = errors.held \union {"helper"}]
          BY <1>0, <3>1, <3>2, <4>1, <4>3, PeerLives, StreamLetGo
        <4> QED  BY <4>1, <4>2, <4>3
      <3>4. CASE ServerExits
        <4>1. ~[peer EXCEPT !.server = FALSE].server
          BY <1>0 DEF McpTypeOK
        <4> QED
          BY <1>0, <3>1, <3>4, <4>1, PeerLives, StreamLetGo DEF ServerExits
      <3>5. CASE HelperExits
        BY <1>0, <3>1, <3>2, <3>5, PeerLives, StreamLetGo DEF HelperExits
      <3> QED  BY <1>15, <3>3, <3>4, <3>5
    <2>2. McpTypeOK'
      BY <1>0, <2>1 DEF McpTypeOK
    <2>3. Ended => errors.held = {}
      BY DEF McpInv, DiagnosticsAreWhole
    <2> QED  BY <1>0, <2>1, <2>2, <2>3, McpStreams DEF StreamInv
  <1> QED
    BY <1>1, <1>3, <1>5, <1>6, <1>7, <1>8, <1>9, <1>10, <1>11, <1>12, <1>13,
       <1>14, <1>15, Zenon
    DEF McpNext, McpClient

\* For any methods, capabilities, results and caps, every reachable state of a
\* session satisfies the inductive invariant.
THEOREM McpInvariant == McpSpec => []McpInv
  BY McpInitHolds, McpStepPreserves, PTL DEF McpSpec

\* mcp.rs, shutdown: the end of the diagnostics that the clean-up causes never
\* makes a complete capture of interrupted ones.
THEOREM DiagnosticsAreComplete == McpSpec => []DiagnosticsAreWhole
  <1>1. McpInv => DiagnosticsAreWhole
    BY DEF McpInv
  <1> QED  BY <1>1, McpInvariant, PTL

\* A result of a tool or a resource that may prove something absent is whole.
THEOREM ProvenResults == McpSpec => []ProvenResultsAreWhole
  <1>1. McpInv => ProvenResultsAreWhole
    BY NormalizedWhole DEF McpInv, NormalizedInv, ProvenResultsAreWhole
  <1> QED  BY <1>1, McpInvariant, PTL

-----------------------------------------------------------------------------
(* HTTP requests and commands.                                             *)

\* One more chunk of a stream, no longer than what was sent and not read yet:
\* whichever way it is read, what is not cut is kept whole.
LEMMA ChunkTaken ==
    ASSUME NEW sent \in 0 .. MaxSent,
           NEW stream \in [kept : 0 .. MaxBytes, total : 0 .. MaxSent,
                           cut : BOOLEAN, open : BOOLEAN],
           stream.open, NEW chunk \in Nat \ {0}, stream.total + chunk = sent,
           ~stream.cut => stream.kept = stream.total,
           NEW taken \in {TakeChunk(stream, chunk), Drain(stream, chunk)}
    PROVE  /\ taken \in [kept : 0 .. MaxBytes, total : 0 .. MaxSent,
                         cut : BOOLEAN, open : BOOLEAN]
           /\ taken.total <= sent
           /\ ~taken.cut => taken.kept = taken.total /\ taken.open
  <1>1. MaxBytes \in Nat /\ MaxSent \in Nat
    BY AdapterCallsAssumption
  <1>2. /\ stream.kept \in 0 .. MaxBytes /\ stream.total \in 0 .. MaxSent
        /\ stream.cut \in BOOLEAN
    OBVIOUS
  <1> DEFINE room == MaxBytes - stream.kept
             take == IF chunk < room THEN chunk ELSE room
             over == room = 0 \/ take < chunk
             cut == stream.cut \/ chunk > room \/ stream.total + chunk > MaxBytes
  <1>3. /\ stream.kept + take \in 0 .. MaxBytes
        /\ stream.total + take \in 0 .. MaxSent /\ stream.total + take <= sent
        /\ ~over => take = chunk
        /\ chunk <= room => take = chunk
    BY <1>1, <1>2
  <1>4. CASE taken = TakeChunk(stream, chunk)
    <2>1. taken = [stream EXCEPT !.kept = stream.kept + take,
                                 !.total = stream.total + take,
                                 !.cut = stream.cut \/ over, !.open = ~over]
      BY <1>4 DEF TakeChunk
    <2>2. over \in BOOLEAN /\ (stream.cut \/ over) \in BOOLEAN
      OBVIOUS
    <2> HIDE DEF take, over
    <2>3. /\ taken.kept = stream.kept + take
          /\ taken.total = stream.total + take
          /\ taken.cut = (stream.cut \/ over) /\ taken.open = ~over
      BY <2>1
    <2>4. taken \in [kept : 0 .. MaxBytes, total : 0 .. MaxSent,
                     cut : BOOLEAN, open : BOOLEAN]
      BY <1>3, <2>1, <2>2
    <2> QED  BY <1>3, <2>3, <2>4
  <1>5. CASE taken = Drain(stream, chunk)
    <2>1. taken = [stream EXCEPT !.kept = stream.kept + take,
                                 !.total = stream.total + chunk, !.cut = cut]
      BY <1>5 DEF Drain
    <2>2. cut \in BOOLEAN /\ stream.total + chunk \in 0 .. MaxSent
          /\ (~cut => ~stream.cut /\ chunk <= room)
      BY <1>1, <1>2
    <2> HIDE DEF take, cut
    <2>3. /\ taken.kept = stream.kept + take
          /\ taken.total = stream.total + chunk
          /\ taken.cut = cut /\ taken.open = stream.open
      BY <2>1
    <2>4. taken \in [kept : 0 .. MaxBytes, total : 0 .. MaxSent,
                     cut : BOOLEAN, open : BOOLEAN]
      BY <1>3, <2>1, <2>2
    <2> QED  BY <1>3, <2>2, <2>3, <2>4
  <1> QED  BY <1>4, <1>5

\* A normalized body or stream without lines outside the windows has them all.
LEMMA LosslessParts ==
    ASSUME NEW stream, stream.kept \in Nat, NEW json \in BOOLEAN,
           NEW part \in {HttpBody(stream, json), CliStdout(stream, json),
                         CliText(stream)},
           Lossless(part)
    PROVE  part.kept = stream.kept
  <1>1. HttpWindow \in Nat /\ 2 * CliWindow \in Nat
    BY AdapterCallsAssumption
  <1>2. CASE part = HttpBody(stream, json)
    BY <1>1, <1>2 DEF HttpBody, Json, Text, Lossless
  <1>3. CASE part = CliText(stream)
    BY <1>1, <1>3 DEF CliText, Text, Lossless
  <1>4. CASE part = CliStdout(stream, json)
    <2>1. CASE part = CliText(stream)
      BY <1>3, <2>1
    <2>2. CASE part = Json(stream.kept)
      BY <2>2 DEF Json
    <2> QED  BY <1>4, <2>1, <2>2 DEF CliStdout
  <1> QED  BY <1>2, <1>3, <1>4

\* The initial state satisfies the inductive invariant.
LEMMA FetchInitHolds == FetchInit => FetchInv
  <1> SUFFICES ASSUME FetchInit PROVE FetchInv  OBVIOUS
  <1>1. FetchTypeOK
    BY AdapterCallsAssumption DEF FetchInit, FetchTypeOK
  <1>2. \A stream \in Streams : StreamRead(stream)
    BY AdapterCallsAssumption DEF FetchInit, StreamRead
  <1>3. Adapter \in {"http", "cli"}
    BY <1>1, AdapterCallsAssumption DEF FetchTypeOK, Adapter
  <1>4. IF Adapter = "cli"
        THEN "source" \in wire.out.holders <=> "source" \in wire.err.holders
        ELSE wire.err.holders = {} /\ "helper" \notin wire.out.holders
    BY DEF FetchInit, Streams, Adapter
  <1>5. reply.kind = "none"
    BY DEF FetchInit, Unanswered
  <1> QED
    BY <1>1, <1>2, <1>4, <1>5, Zenon DEF FetchInv, ProvenAnswersAreWhole

\* A call that ends with an error closes its streams.
LEMMA FetchEndsWith ==
    ASSUME FetchInv, NEW error, EndsWith(error)
    PROVE  FetchInv'
  <1>1. FetchTypeOK /\ \A stream \in Streams : StreamRead(stream)
    BY DEF FetchInv
  <1>2. /\ \A stream \in Streams : /\ wire'[stream].holders = {}
                                   /\ wire'[stream].sent = wire[stream].sent
        /\ wire' \in [Streams -> [sent : 0 .. MaxSent,
                                  holders : SUBSET {"source", "helper"}]]
    BY <1>1 DEF EndsWith, FetchTypeOK
  <1>3. /\ fetch' = [fetch EXCEPT !.phase = "ended"] /\ got' = got
        /\ reply'.kind = "error"
    BY DEF EndsWith
  <1>4. FetchTypeOK' /\ fetch'.phase = "ended" /\ Adapter' = Adapter
    BY <1>1, <1>2, <1>3 DEF FetchTypeOK, Adapter
  <1>5. \A stream \in Streams : StreamRead(stream)'
    BY <1>1, <1>2, <1>3 DEF StreamRead
  <1>6. ProvenAnswersAreWhole'
    BY <1>3 DEF ProvenAnswersAreWhole
  <1>7. wire'.out.holders = {} /\ wire'.err.holders = {}
    BY <1>2 DEF Streams
  <1> QED  BY <1>3, <1>4, <1>5, <1>6, <1>7 DEF FetchInv

\* A step of a call under way has no reply to be right about.
LEMMA FetchGoesOn ==
    ASSUME FetchInv, fetch.phase # "ended", reply' = reply, FetchTypeOK',
           \A stream \in Streams : StreamRead(stream)',
           Adapter' = Adapter,
           IF Adapter = "cli"
           THEN "source" \in wire'.out.holders <=> "source" \in wire'.err.holders
           ELSE wire'.err.holders = {} /\ "helper" \notin wire'.out.holders
    PROVE  FetchInv'
  BY DEF FetchInv, ProvenAnswersAreWhole

\* Each step of the call, its timer and its source preserves it.
LEMMA FetchStepPreserves == FetchInv /\ [FetchNext]_fetchVars => FetchInv'
  <1> SUFFICES ASSUME FetchInv, [FetchNext]_fetchVars PROVE FetchInv'  OBVIOUS
  <1>0. /\ FetchTypeOK /\ \A stream \in Streams : StreamRead(stream)
        /\ IF Adapter = "cli"
           THEN "source" \in wire.out.holders <=> "source" \in wire.err.holders
           ELSE wire.err.holders = {} /\ "helper" \notin wire.out.holders
        /\ reply.kind # "none" => fetch.phase = "ended"
        /\ ProvenAnswersAreWhole
    BY DEF FetchInv
  <1>a. Adapter \in {"http", "cli"}
    BY <1>0, AdapterCallsAssumption DEF FetchTypeOK, Adapter
  <1>1. CASE UNCHANGED fetchVars
    BY <1>1 DEF fetchVars, FetchInv, FetchTypeOK, StreamRead, Adapter,
                ProvenAnswersAreWhole
  <1>2. ASSUME NEW error, EndsWith(error) PROVE FetchInv'
    BY <1>2, FetchEndsWith
  <1>3. ASSUME NEW phase \in {"sent", "body"}, NEW hops \in 0 .. MaxRedirects,
               NEW status \in {"none", "success", "failure", "not_modified",
                               "running"},
               fetch.phase # "ended",
               fetch' = [fetch EXCEPT !.phase = phase, !.hops = hops,
                                      !.status = status],
               UNCHANGED <<wire, got, reply>>
        PROVE  FetchInv'
    <2>1. FetchTypeOK' /\ Adapter' = Adapter
      BY <1>0, <1>3 DEF FetchTypeOK, Adapter
    <2>2. \A stream \in Streams : StreamRead(stream)'
      BY <1>0, <1>3 DEF StreamRead
    <2> QED  BY <1>0, <1>3, <2>1, <2>2, FetchGoesOn
  <1>b. /\ fetch.hops \in 0 .. MaxRedirects
        /\ fetch.status \in {"none", "success", "failure", "not_modified",
                             "running"}
        /\ fetch.operation \in Operations /\ fetch.args \in Arguments
    BY <1>0 DEF FetchTypeOK
  <1>4. CASE Start
    <2>1. fetch.phase = "ready"
      BY <1>4 DEF Start
    <2>2. CASE fetch' = [fetch EXCEPT !.phase = "sent"]
               /\ UNCHANGED <<wire, got, reply>>
      <3>1. fetch' = [fetch EXCEPT !.phase = "sent", !.hops = fetch.hops,
                                   !.status = fetch.status]
        BY <1>0, <2>2 DEF FetchTypeOK
      <3> QED  BY <1>3, <1>b, <2>1, <2>2, <3>1
    <2> QED  BY <1>2, <1>4, <2>2 DEF Start
  <1>5. CASE Redirect
    <2>1. fetch.phase = "sent"
      BY <1>5 DEF Redirect
    <2>2. CASE fetch.hops < MaxRedirects /\ UNCHANGED <<wire, got, reply>>
               /\ fetch' = [fetch EXCEPT !.hops = fetch.hops + 1]
      <3>1. fetch.hops + 1 \in 0 .. MaxRedirects
        BY <1>b, <2>2, AdapterCallsAssumption
      <3>2. fetch' = [fetch EXCEPT !.phase = "sent", !.hops = fetch.hops + 1,
                                   !.status = fetch.status]
        BY <1>0, <2>1, <2>2 DEF FetchTypeOK
      <3> QED  BY <1>3, <1>b, <2>1, <2>2, <3>1, <3>2
    <2> QED  BY <1>2, <1>5, <2>2 DEF Redirect
  <1>6. CASE Replied
    <2>1. PICK status \in {"none", "success", "failure", "not_modified",
                           "running"} :
             fetch' = [fetch EXCEPT !.phase = "body", !.status = status]
      BY <1>6 DEF Replied
    <2>2. fetch' = [fetch EXCEPT !.phase = "body", !.hops = fetch.hops,
                                 !.status = status]
      BY <1>0, <2>1 DEF FetchTypeOK
    <2> QED  BY <1>3, <1>6, <1>b, <2>2 DEF Replied
  <1>7. CASE TransportFails \/ ReadFails \/ TimeOut
    BY <1>2, <1>7 DEF TransportFails, ReadFails, TimeOut
  <1>8. ASSUME NEW stream \in Streams, ReadChunk(stream) PROVE FetchInv'
    <2>1. /\ fetch.phase = "body" /\ UNCHANGED <<fetch, wire, reply>>
          /\ got[stream].open /\ wire[stream].sent \in 0 .. MaxSent
          /\ got[stream] \in [kept : 0 .. MaxBytes, total : 0 .. MaxSent,
                              cut : BOOLEAN, open : BOOLEAN]
          /\ got \in [Streams -> [kept : 0 .. MaxBytes, total : 0 .. MaxSent,
                                  cut : BOOLEAN, open : BOOLEAN]]
          /\ StreamRead(stream)
      BY <1>0, <1>8 DEF ReadChunk, FetchTypeOK
    <2> DEFINE chunk == wire[stream].sent - got[stream].total
    <2>2. \E taken \in [kept : 0 .. MaxBytes, total : 0 .. MaxSent,
                        cut : BOOLEAN, open : BOOLEAN] :
             /\ got' = [got EXCEPT ![stream] = taken]
             /\ taken.total <= wire[stream].sent
             /\ ~taken.cut =>
                   /\ taken.kept = taken.total
                   /\ taken.open \/ (taken.total = wire[stream].sent
                                       /\ wire[stream].holders = {})
      <3>1. CASE chunk > 0
        <4>1. chunk \in Nat \ {0}
              /\ got[stream].total + chunk = wire[stream].sent
          BY <2>1, <3>1
        <4>2. PICK taken \in {TakeChunk(got[stream], chunk),
                              Drain(got[stream], chunk)} :
                 got' = [got EXCEPT ![stream] = taken]
          <5>1. CASE Adapter = "http"
            <6>1. got' = [got EXCEPT ![stream] = TakeChunk(got[stream], chunk)]
              BY <1>8, <3>1, <5>1 DEF ReadChunk
            <6> QED  BY <6>1
          <5>2. CASE Adapter # "http"
            <6>1. got' = [got EXCEPT ![stream] = Drain(got[stream], chunk)]
              BY <1>8, <3>1, <5>2 DEF ReadChunk
            <6> QED  BY <6>1
          <5> QED  BY <5>1, <5>2
        <4>3. ~got[stream].cut => got[stream].kept = got[stream].total
          BY <2>1 DEF StreamRead
        <4> HIDE DEF chunk
        <4>4. /\ taken \in [kept : 0 .. MaxBytes, total : 0 .. MaxSent,
                            cut : BOOLEAN, open : BOOLEAN]
              /\ taken.total <= wire[stream].sent
              /\ ~taken.cut => taken.kept = taken.total /\ taken.open
          BY <2>1, <4>1, <4>3, ChunkTaken
        <4> QED  BY <4>2, <4>4
      <3>2. CASE ~(chunk > 0)
        <4>1. /\ chunk = 0 /\ wire[stream].holders = {}
              /\ got' = [got EXCEPT ![stream].open = FALSE]
          BY <1>8, <3>2 DEF ReadChunk
        <4> DEFINE taken == [got[stream] EXCEPT !.open = FALSE]
        <4>2. /\ taken \in [kept : 0 .. MaxBytes, total : 0 .. MaxSent,
                            cut : BOOLEAN, open : BOOLEAN]
              /\ taken.total = got[stream].total /\ taken.cut = got[stream].cut
              /\ taken.kept = got[stream].kept /\ ~taken.open
          BY <2>1
        <4>3. got' = [got EXCEPT ![stream] = taken]
          BY <4>1
        <4>4. got[stream].total = wire[stream].sent
          BY <2>1, <4>1
        <4> HIDE DEF taken
        <4> QED  BY <2>1, <4>1, <4>2, <4>3, <4>4 DEF StreamRead
      <3> QED  BY <3>1, <3>2
    <2>3. FetchTypeOK'
      BY <1>0, <2>1, <2>2 DEF FetchTypeOK
    <2>4. ASSUME NEW s \in Streams PROVE StreamRead(s)'
      BY <1>0, <2>1, <2>2 DEF StreamRead
    <2>5. Adapter' = Adapter
      BY <2>1 DEF Adapter
    <2> QED  BY <1>0, <2>1, <2>3, <2>4, <2>5, FetchGoesOn
  <1>9. ASSUME SourceSends PROVE FetchInv'
    <2>1. PICK stream \in Streams, n \in 1 .. 2 :
             /\ fetch.phase = "body" /\ wire[stream].holders # {}
             /\ wire[stream].sent + n <= MaxSent
             /\ wire' = [wire EXCEPT ![stream].sent = wire[stream].sent + n]
             /\ UNCHANGED <<fetch, got, reply>>
      BY <1>9 DEF SourceSends
    <2>2. wire[stream].sent + n \in 0 .. MaxSent
      BY <1>0, <2>1, AdapterCallsAssumption DEF FetchTypeOK
    <2>3. /\ wire' \in [Streams -> [sent : 0 .. MaxSent,
                                    holders : SUBSET {"source", "helper"}]]
          /\ \A s \in Streams : wire'[s].holders = wire[s].holders
          /\ \A s \in Streams \ {stream} : wire'[s] = wire[s]
          /\ wire'[stream].sent = wire[stream].sent + n
      BY <1>0, <2>1, <2>2 DEF FetchTypeOK
    <2>4. FetchTypeOK' /\ Adapter' = Adapter
      BY <1>0, <2>1, <2>3 DEF FetchTypeOK, Adapter
    <2>5. ASSUME NEW s \in Streams PROVE StreamRead(s)'
      <3>1. CASE s = stream
        BY <1>0, <2>1, <2>3, <3>1 DEF StreamRead, FetchTypeOK
      <3>2. CASE s # stream
        BY <1>0, <2>1, <2>3, <3>2 DEF StreamRead
      <3> QED  BY <3>1, <3>2
    <2>6. wire'.out.holders = wire.out.holders /\ wire'.err.holders = wire.err.holders
      BY <2>3 DEF Streams
    <2> QED  BY <1>0, <2>1, <2>4, <2>5, <2>6, FetchGoesOn
  <1>c. "out" \in Streams /\ "err" \in Streams
    BY DEF Streams
  <1>10. ASSUME SourceEnds PROVE FetchInv'
    <2>1. fetch.phase = "body" /\ UNCHANGED <<got, reply>>
      BY <1>10 DEF SourceEnds
    <2>2. CASE Adapter = "http"
      <3>1. wire' = [wire EXCEPT !["out"].holders = {}] /\ fetch' = fetch
        BY <1>10, <2>2 DEF SourceEnds
      <3>2. /\ wire' \in [Streams -> [sent : 0 .. MaxSent,
                                      holders : SUBSET {"source", "helper"}]]
            /\ wire'["out"].holders = {} /\ wire'["err"] = wire["err"]
            /\ \A s \in Streams : /\ wire'[s].sent = wire[s].sent
                                  /\ wire[s].holders = {} => wire'[s].holders = {}
        BY <1>0, <1>c, <3>1 DEF FetchTypeOK
      <3>3. FetchTypeOK' /\ Adapter' = Adapter
        BY <1>0, <2>1, <3>1, <3>2 DEF FetchTypeOK, Adapter
      <3>4. ASSUME NEW s \in Streams PROVE StreamRead(s)'
        BY <1>0, <2>1, <3>2 DEF StreamRead
      <3> QED  BY <1>0, <2>1, <2>2, <3>2, <3>3, <3>4, FetchGoesOn
    <2>3. CASE Adapter = "cli"
      <3>1. PICK held \in SUBSET Streams :
               wire' = [stream \in Streams |-> [wire[stream] EXCEPT
                          !.holders = IF stream \in held THEN {"helper"} ELSE {}]]
        BY <1>10, <2>3 DEF SourceEnds
      <3>2. PICK status \in {"success", "failure"} :
               fetch' = [fetch EXCEPT !.status = status]
        BY <1>10, <2>3 DEF SourceEnds
      <3>3. /\ wire' \in [Streams -> [sent : 0 .. MaxSent,
                                      holders : SUBSET {"source", "helper"}]]
            /\ \A s \in Streams : /\ wire'[s].sent = wire[s].sent
                                  /\ "source" \notin wire'[s].holders
        BY <1>0, <3>1 DEF FetchTypeOK
      <3>4. FetchTypeOK' /\ Adapter' = Adapter
        BY <1>0, <2>1, <3>2, <3>3 DEF FetchTypeOK, Adapter
      <3>5. \A s \in Streams : wire[s].holders # {}
        BY <1>0, <1>10, <2>3 DEF SourceEnds, Streams
      <3>6. ASSUME NEW s \in Streams PROVE StreamRead(s)'
        BY <1>0, <2>1, <3>3, <3>5 DEF StreamRead
      <3> QED  BY <1>0, <1>c, <2>1, <2>3, <3>3, <3>4, <3>6, FetchGoesOn
    <2> QED  BY <1>a, <2>2, <2>3
  <1>11. ASSUME HelperEnds PROVE FetchInv'
    <2>1. /\ UNCHANGED <<fetch, got, reply>>
          /\ wire' = [stream \in Streams |->
                        [wire[stream] EXCEPT !.holders = @ \ {"helper"}]]
      BY <1>11 DEF HelperEnds
    <2>2. /\ wire' \in [Streams -> [sent : 0 .. MaxSent,
                                    holders : SUBSET {"source", "helper"}]]
          /\ \A s \in Streams : /\ wire'[s].sent = wire[s].sent
                                /\ wire'[s].holders = wire[s].holders \ {"helper"}
      BY <1>0, <2>1 DEF FetchTypeOK
    <2>3. FetchTypeOK' /\ Adapter' = Adapter
      BY <1>0, <2>1, <2>2 DEF FetchTypeOK, Adapter
    <2>4. ASSUME NEW s \in Streams PROVE StreamRead(s)'
      BY <1>0, <2>1, <2>2 DEF StreamRead
    <2>5. ProvenAnswersAreWhole'
      <3>1. CASE reply.kind = "none"
        BY <2>1, <3>1 DEF ProvenAnswersAreWhole
      <3>2. CASE reply.kind # "none"
        <4>1. reply.kind \in {"answer", "error_evidence"} =>
                 DOMAIN reply.payload \subseteq Streams
          BY DEF FetchInv
        <4> QED  BY <1>0, <2>1, <2>2, <4>1 DEF ProvenAnswersAreWhole
      <3> QED  BY <3>1, <3>2
    <2>6. IF Adapter = "cli"
          THEN "source" \in wire'.out.holders <=> "source" \in wire'.err.holders
          ELSE wire'.err.holders = {} /\ "helper" \notin wire'.out.holders
      BY <1>0, <1>c, <2>2
    <2> QED  BY <1>0, <2>1, <2>3, <2>4, <2>5, <2>6 DEF FetchInv
  <1>12. ASSUME Complete PROVE FetchInv'
    <2>1. /\ fetch.phase = "body" /\ UNCHANGED <<wire, got>>
          /\ \A stream \in Streams : ~got[stream].open
          /\ fetch' = [fetch EXCEPT !.phase = "ended"]
      BY <1>12 DEF Complete
    <2>2. PICK json \in BOOLEAN :
             /\ reply'.capture = AdapterCapture(Adapter)
             /\ \/ /\ Adapter = "http"
                   /\ reply'.payload = [out |-> HttpBody(got.out, json)]
                \/ /\ Adapter # "http"
                   /\ \/ reply'.payload = [out |-> CliStdout(got.out, json),
                                           err |-> CliText(got.err)]
                      \/ reply'.payload = [out |-> CliStdout(got.out, json)]
      BY <1>12 DEF Complete
    <2>3. FetchTypeOK' /\ Adapter' = Adapter /\ fetch'.phase = "ended"
      BY <1>0, <2>1 DEF FetchTypeOK, Adapter
    <2>4. \A stream \in Streams : StreamRead(stream)'
      BY <1>0, <2>1 DEF StreamRead
    <2>5. DOMAIN reply'.payload \subseteq Streams
      BY <2>2 DEF Streams
    <2>6. ASSUME ProvesPayload(reply'.capture, reply'.payload),
                 NEW stream \in DOMAIN reply'.payload
          PROVE  /\ reply'.payload[stream].kept = wire[stream].sent
                 /\ wire[stream].holders = {}
      <3>1. Lossless(reply'.payload[stream]) /\ reply'.capture.complete
        BY <2>6, Zenon DEF ProvesPayload
      <3>2. stream \in Streams /\ stream \in {"out", "err"}
        BY <2>5, <2>6 DEF Streams
      <3>3. ~got[stream].cut
        <4>1. CASE Adapter = "http"
          <5>1. stream = "out"
            BY <2>2, <2>6, <4>1
          <5>2. reply'.capture.complete = (~got.out.cut)
            BY <2>2, <4>1 DEF AdapterCapture
          <5> QED  BY <3>1, <5>1, <5>2
        <4>2. CASE Adapter = "cli"
          <5>1. reply'.capture.complete = (~got.out.cut /\ ~got.err.cut)
            BY <2>2, <4>2 DEF AdapterCapture
          <5> QED  BY <3>1, <3>2, <5>1
        <4> QED  BY <1>a, <4>1, <4>2
      <3>4. /\ got[stream].kept = wire[stream].sent
            /\ wire[stream].holders = {}
        BY <1>0, <2>1, <3>2, <3>3 DEF StreamRead
      <3>5. reply'.payload[stream] \in {HttpBody(got[stream], json),
                                        CliStdout(got[stream], json),
                                        CliText(got[stream])}
        BY <2>2, <2>6
      <3>6. got[stream].kept \in Nat
        BY <1>0, <3>2, AdapterCallsAssumption DEF FetchTypeOK
      <3>7. reply'.payload[stream].kept = got[stream].kept
        BY <3>1, <3>5, <3>6, LosslessParts
      <3> QED  BY <3>4, <3>7
    <2>7. ProvenAnswersAreWhole'
      BY <2>1, <2>6 DEF ProvenAnswersAreWhole, ProvesPayload, Lossless
    <2> QED  BY <1>0, <2>1, <2>3, <2>4, <2>5, <2>7 DEF FetchInv
  <1> QED
    BY <1>1, <1>4, <1>5, <1>6, <1>7, <1>8, <1>9, <1>10, <1>11, <1>12, Zenon
    DEF FetchNext, FetchClient

\* For any operations, arguments and bounds, every reachable state of a call
\* satisfies the inductive invariant.
THEOREM FetchInvariant == FetchSpec => []FetchInv
  BY FetchInitHolds, FetchStepPreserves, PTL DEF FetchSpec

\* adapter_capture: an answer over HTTP or from a command that may prove
\* something absent has every line the source sent, and the source had ended.
THEOREM ProvenAnswers == FetchSpec => []ProvenAnswersAreWhole
  <1>1. FetchInv => ProvenAnswersAreWhole
    BY DEF FetchInv
  <1> QED  BY <1>1, FetchInvariant, PTL

-----------------------------------------------------------------------------
(* Pages.                                                                  *)

\* Of a request that says in one way which page it asks for.
LEMMA IndexOfRequest ==
    ASSUME NEW args
    PROVE  /\ (/\ args.url # None /\ args.token = None /\ args.page = None
               /\ args.offset = None) => Index(args) = args.url
           /\ (/\ args.url = None /\ args.token # None /\ args.page = None
               /\ args.offset = None) => Index(args) = args.token
           /\ (/\ args.url = None /\ args.token = None /\ args.page # None
               /\ args.offset = None) => Index(args) = args.page
           /\ (/\ args.url = None /\ args.token = None /\ args.page = None
               /\ args.offset # None)
                => Index(args) = args.offset \div args.limit + 1
  BY DEF Index

\* What the hints of an answer say, for each way to continue.
LEMMA HintsOfAnswer ==
    ASSUME NEW following \in Nat \cup {None}, paged.strategy \in Strategy
    PROVE  LET hints == ExtractHints(Body(following))
           IN  /\ Numbered => hints # None /\ hints.token = None
               /\ ~Numbered => (hints = None <=> following = None)
               /\ paged.strategy = "link" /\ hints # None =>
                     /\ hints.token = None /\ hints.link = following
                     /\ hints.url = None
               /\ paged.strategy = "next_url" /\ hints # None =>
                     /\ hints.token = None /\ hints.link = None
                     /\ hints.url = following
               /\ paged.strategy \in {"token", "next", "both"} /\ hints # None =>
                     hints.token = following
  <1>1. /\ paged.strategy \in {"token", "next", "page", "offset", "link",
                               "next_url", "both"}
        /\ None \notin [token : Nat \cup {None}, more : BOOLEAN \cup {None},
                        echoes : {"page", "offset", None},
                        link : Nat \cup {None}, url : Nat \cup {None}]
    BY PagesAssumption
  <1> DEFINE body == Body(following)
             found == [token |-> IF body.cursor # None THEN body.cursor
                                 ELSE body.next,
                       more |-> body.more, echoes |-> body.echoes,
                       link |-> body.link, url |-> body.nextUrl]
  <1>2. ExtractHints(body) = IF body = NoBody THEN None ELSE found
    BY Zenon DEF ExtractHints
  <1>3. CASE paged.strategy = "page"
    <2>1. body = [NoBody EXCEPT !.more = following # None, !.echoes = "page"]
      BY <1>3 DEF Body
    <2>2. found \in [token : Nat \cup {None}, more : BOOLEAN \cup {None},
                     echoes : {"page", "offset", None},
                     link : Nat \cup {None}, url : Nat \cup {None}]
          /\ found.token = None
      BY <2>1 DEF NoBody
    <2>3. body # NoBody
      <3>1. /\ body.more = (following # None) /\ NoBody.more = None
            /\ body.echoes = "page" /\ NoBody.echoes = None
        BY <2>1 DEF NoBody
      <3>2. "page" # None
        BY PagesAssumption
      <3> QED  BY <3>1, <3>2
    <2> HIDE DEF body, found
    <2>4. ExtractHints(body) = found
      BY <1>2, <2>3
    <2> QED  BY <1>1, <1>3, <2>2, <2>4 DEF Numbered, body
  <1>4. CASE paged.strategy = "offset"
    <2>1. body = [NoBody EXCEPT !.echoes = "offset"]
      BY <1>4 DEF Body
    <2>2. found \in [token : Nat \cup {None}, more : BOOLEAN \cup {None},
                     echoes : {"page", "offset", None},
                     link : Nat \cup {None}, url : Nat \cup {None}]
          /\ found.token = None
      BY <2>1 DEF NoBody
    <2>3. body # NoBody
      <3>1. body.echoes = "offset" /\ NoBody.echoes = None
        BY <2>1 DEF NoBody
      <3>2. "offset" # None
        BY PagesAssumption
      <3> QED  BY <3>1, <3>2
    <2> HIDE DEF body, found
    <2>4. ExtractHints(body) = found
      BY <1>2, <2>3
    <2> QED  BY <1>1, <1>4, <2>2, <2>4 DEF Numbered, body
  <1>5. CASE ~Numbered
    <2>1. /\ body \in [cursor : Nat \cup {None}, next : Nat \cup {None},
                       nextUrl : Nat \cup {None}, more : {None},
                       echoes : {None}, link : Nat \cup {None}]
          /\ body = NoBody <=> following = None
          /\ paged.strategy = "link" =>
                /\ body.cursor = None /\ body.next = None
                /\ body.link = following /\ body.nextUrl = None
          /\ paged.strategy = "next_url" =>
                /\ body.cursor = None /\ body.next = None
                /\ body.link = None /\ body.nextUrl = following
          /\ paged.strategy \in {"token", "next", "both"} =>
                (IF body.cursor # None THEN body.cursor ELSE body.next) = following
      <3>1. CASE paged.strategy = "link"
        BY <3>1 DEF Body, NoBody
      <3>2. CASE paged.strategy = "next_url"
        BY <3>2 DEF Body, NoBody
      <3>3. CASE paged.strategy = "token"
        BY <3>3 DEF Body, NoBody
      <3>4. CASE paged.strategy = "next"
        BY <3>4 DEF Body, NoBody
      <3>5. CASE paged.strategy = "both"
        BY <3>5 DEF Body, NoBody
      <3> QED  BY <1>1, <1>5, <3>1, <3>2, <3>3, <3>4, <3>5 DEF Numbered
    <2> HIDE DEF body
    <2>2. found \in [token : Nat \cup {None}, more : BOOLEAN \cup {None},
                     echoes : {"page", "offset", None},
                     link : Nat \cup {None}, url : Nat \cup {None}]
      BY <2>1
    <2>3. /\ found.token = IF body.cursor # None THEN body.cursor ELSE body.next
          /\ found.link = body.link /\ found.url = body.nextUrl
      OBVIOUS
    <2> HIDE DEF found
    <2>4. ExtractHints(body) = None <=> following = None
      BY <1>1, <1>2, <2>1, <2>2
    <2>5. ExtractHints(body) # None => ExtractHints(body) = found
      BY <1>2
    <2> QED  BY <1>1, <1>5, <2>1, <2>3, <2>4, <2>5 DEF body
  <1> QED  BY <1>1, <1>3, <1>4, <1>5 DEF Numbered

\* The hints that the loop goes by on the n-th page of a chain: the profile's
\* stand in for those of the first only where pages are numbered.
LEMMA HintsOfPage ==
    ASSUME paged.strategy \in Strategy, paged.count \in PageCounts,
           paged.speaks \in BOOLEAN, paged.probed \in Probed \cup {None},
           ~Astray, NEW n \in Nat \ {0}
    PROVE  LET hints == HintsAt(n)
               following == Following(n)
           IN  /\ following \in Nat \cup {None}
               /\ following = IF n < paged.count THEN n + 1 ELSE None
               /\ Numbered /\ hints # None => hints.token = None
               /\ Numbered /\ paged.speaks => hints # None
               /\ ~Numbered /\ hints # None => paged.speaks /\ following # None
               /\ ~Numbered /\ paged.speaks /\ following # None => hints # None
               /\ paged.strategy = "link" /\ hints # None =>
                     /\ hints.token = None /\ hints.link = following
                     /\ hints.url = None
               /\ paged.strategy = "next_url" /\ hints # None =>
                     /\ hints.token = None /\ hints.link = None
                     /\ hints.url = following
               /\ paged.strategy \in {"token", "next", "both"} /\ hints # None =>
                     hints.token = following
  <1>1. paged.count \in Nat \ {0} /\ None \notin Nat /\ Probed \subseteq Nat
    BY PagesAssumption
  <1>2. /\ Following(n) \in Nat \cup {None}
        /\ Following(n) = IF n < paged.count THEN n + 1 ELSE None
    BY <1>1 DEF Following
  <1>3. HintsOf(n) = IF paged.speaks THEN ExtractHints(Body(Following(n))) ELSE None
    BY DEF HintsOf
  <1>4. CASE Numbered
    <2>1. HintsOf(n) # None => HintsOf(n).token = None
      BY <1>2, <1>3, <1>4, HintsOfAnswer
    <2>2. paged.speaks => HintsOf(n) # None
      BY <1>2, <1>3, <1>4, HintsOfAnswer
    <2>3. StoredHints # None => StoredHints.token = None
      <3>1. CASE paged.probed = None
        BY <3>1 DEF StoredHints
      <3>2. CASE paged.probed # None
        <4> DEFINE kept == [Body(paged.probed) EXCEPT !.link = None]
        <4>1. kept.cursor = None /\ kept.next = None
          <5>1. CASE paged.strategy = "page"
            BY <5>1 DEF Body, NoBody
          <5>2. CASE paged.strategy = "offset"
            BY <5>2 DEF Body, NoBody
          <5> QED  BY <1>4, <5>1, <5>2 DEF Numbered
        <4> HIDE DEF kept
        <4>2. ExtractHints(kept) # None => ExtractHints(kept).token = None
          BY <4>1 DEF ExtractHints
        <4>3. StoredHints = ExtractHints(kept)
          BY <3>2 DEF StoredHints, kept
        <4> QED  BY <4>2, <4>3
      <3> QED  BY <3>1, <3>2
    <2>4. HintsAt(n) \in {HintsOf(n), StoredHints}
          /\ (HintsOf(n) # None => HintsAt(n) = HintsOf(n))
      BY DEF HintsAt, FirstHints
    <2> QED  BY <1>2, <1>4, <2>1, <2>2, <2>3, <2>4 DEF Numbered
  <1>5. CASE ~Numbered
    <2>1. HintsAt(n) = HintsOf(n)
      BY <1>5 DEF HintsAt, FirstHints, Astray
    <2>2. HintsOf(n) # None => paged.speaks
      BY <1>3
    <2>3. CASE paged.speaks
      BY <1>2, <1>3, <1>5, <2>1, <2>3, HintsOfAnswer
    <2> QED  BY <1>2, <1>5, <2>1, <2>2, <2>3
  <1> QED  BY <1>4, <1>5

\* From its n-th page the chain goes on to the next, or ends: with every way
\* to continue, the request that the hints of the page and the arguments it
\* was asked with make is the request for the page after it.
LEMMA ChainGoesOn ==
    ASSUME paged.strategy \in Strategy, paged.count \in PageCounts,
           paged.speaks \in BOOLEAN, paged.probed \in Probed \cup {None}, ~Astray,
           NEW n \in Nat \ {0}, Numbered \/ n <= paged.count
    PROVE  LET hints == HintsAt(n)
               target == IF hints = None THEN None
                         ELSE NextTarget(hints, ArgsAt(n))
           IN  /\ paged.speaks => (target = None <=> ~Numbered /\ n = paged.count)
               /\ target # None => /\ target = ArgsAt(n + 1)
                                   /\ Index(target) = n + 1
                                   /\ Numbered \/ n + 1 <= paged.count
                                   /\ target.url # None => paged.speaks
  <1>1. /\ paged.count \in Nat \ {0} /\ None \notin Nat
        /\ paged.strategy \in {"token", "next", "page", "offset", "link",
                               "next_url", "both"}
    BY PagesAssumption
  <1> DEFINE Args == [token : Nat \cup {None}, page : Nat \cup {None},
                      offset : Nat \cup {None}, limit : Nat \cup {None},
                      url : Nat \cup {None}]
             hints == HintsAt(n)
             following == Following(n)
             next == NextTarget(hints, ArgsAt(n))
  <1>2. /\ n # None /\ n + 1 # None /\ n + 1 > 1 /\ n + 1 \in Nat
        /\ 2 * (n - 1) \in Nat /\ 2 * (n - 1) # None /\ 2 # None
        /\ 2 * (n - 1) + 2 = 2 * ((n + 1) - 1) /\ 2 * n # None
        /\ (2 * ((n + 1) - 1)) \div 2 + 1 = n + 1
    BY <1>1
  <1>3. None \notin Args
    BY PagesAssumption
  <1>4. NoArgs \in Args /\ NoArgs.page = None /\ NoArgs.offset = None
        /\ NoArgs.url = None /\ NoArgs.token = None
    BY DEF NoArgs
  <1>5. following = IF n < paged.count THEN n + 1 ELSE None
    BY HintsOfPage
  <1>6. ASSUME Numbered, hints # None
        PROVE  /\ next = ArgsAt(n + 1) /\ Index(next) = n + 1
               /\ next # None /\ next.url = None
    <2>1. hints.token = None
      BY <1>6, HintsOfPage
    <2> HIDE DEF hints
    <2>2. CASE paged.strategy = "page"
      <3>1. ArgsAt(n) = [NoArgs EXCEPT !.page = n]
            /\ ArgsAt(n + 1) = [NoArgs EXCEPT !.page = n + 1]
        BY <2>2 DEF ArgsAt
      <3>2. next = [NoArgs EXCEPT !.page = n + 1]
        BY <1>2, <2>1, <3>1 DEF NextTarget, NoArgs
      <3>3. next \in Args /\ next.url = None
        BY <1>2, <3>2 DEF NoArgs
      <3>4. Index(next) = n + 1
        BY <1>2, <3>2, IndexOfRequest DEF NoArgs
      <3> HIDE DEF next, Args
      <3> QED  BY <1>3, <3>1, <3>2, <3>3, <3>4
    <2>3. CASE paged.strategy = "offset"
      <3>1. ArgsAt(n) = [NoArgs EXCEPT !.offset = 2 * (n - 1), !.limit = 2]
            /\ ArgsAt(n + 1) = [NoArgs EXCEPT !.offset = 2 * ((n + 1) - 1),
                                              !.limit = 2]
        BY <2>3 DEF ArgsAt
      <3>2. next = [NoArgs EXCEPT !.offset = 2 * ((n + 1) - 1), !.limit = 2]
        BY <1>2, <2>1, <3>1 DEF NextTarget, NoArgs
      <3>3. next \in Args
        <4>1. 2 * ((n + 1) - 1) \in Nat
          BY <1>2
        <4>2. \A m \in Nat : [NoArgs EXCEPT !.offset = m, !.limit = 2] \in Args
          BY DEF NoArgs
        <4> HIDE DEF Args, next
        <4> QED  BY <3>2, <4>1, <4>2
      <3>4. /\ next.offset = 2 * ((n + 1) - 1) /\ next.limit = 2
            /\ next.url = None /\ next.token = None /\ next.page = None
        BY <3>2 DEF NoArgs
      <3> HIDE DEF next, Args
      <3>5. Index(next) = n + 1
        <4>1. 2 * ((n + 1) - 1) # None
          BY <1>1
        <4>2. Index(next) = (2 * ((n + 1) - 1)) \div 2 + 1
          BY <3>4, <4>1, IndexOfRequest
        <4> QED  BY <1>2, <4>2
      <3> QED  BY <1>3, <3>1, <3>2, <3>3, <3>4, <3>5
    <2> QED  BY <1>6, <2>2, <2>3 DEF Numbered
  <1>7. ASSUME ~Numbered, hints # None
        PROVE  /\ next = ArgsAt(n + 1) /\ Index(next) = n + 1
               /\ next # None /\ n < paged.count /\ paged.speaks
    <2>1. n < paged.count /\ paged.speaks /\ following = n + 1
      BY <1>1, <1>5, <1>7, HintsOfPage
    <2>2. CASE paged.strategy \in {"link", "next_url"}
      <3>1. /\ ArgsAt(n) \in {NoArgs, [NoArgs EXCEPT !.url = n]}
            /\ ArgsAt(n + 1) = [NoArgs EXCEPT !.url = n + 1]
        BY <1>2, <2>2 DEF ArgsAt
      <3>2. /\ hints.token = None
            /\ \/ hints.link = n + 1 /\ hints.url = None
               \/ hints.link = None /\ hints.url = n + 1
        BY <1>7, <2>1, <2>2, HintsOfPage
      <3> HIDE DEF hints
      <3>3. ArgsAt(n).page = None /\ ArgsAt(n).offset = None
        BY <1>4, <3>1 DEF NoArgs
      <3>4. next = [NoArgs EXCEPT !.url = n + 1]
        BY <1>2, <3>2, <3>3, Zenon DEF NextTarget
      <3>5. next \in Args /\ Index(next) = n + 1
        BY <1>2, <3>4, IndexOfRequest DEF NoArgs
      <3> HIDE DEF next, Args
      <3> QED  BY <1>3, <2>1, <3>1, <3>4, <3>5
    <2>3. CASE paged.strategy \in {"token", "next", "both"}
      <3>1. /\ ArgsAt(n) \in {NoArgs, [NoArgs EXCEPT !.token = n]}
            /\ ArgsAt(n + 1) = [NoArgs EXCEPT !.token = n + 1]
        BY <1>2, <2>3 DEF ArgsAt
      <3>2. hints.token = n + 1
        BY <1>7, <2>1, <2>3, HintsOfPage
      <3> HIDE DEF hints
      <3>3. [ArgsAt(n) EXCEPT !.token = n + 1] = [NoArgs EXCEPT !.token = n + 1]
        BY <1>4, <3>1 DEF NoArgs
      <3>4. next = [NoArgs EXCEPT !.token = n + 1]
        BY <1>2, <3>2, <3>3, Zenon DEF NextTarget
      <3>5. next \in Args /\ Index(next) = n + 1
        BY <1>2, <3>4, IndexOfRequest DEF NoArgs
      <3> HIDE DEF next, Args
      <3> QED  BY <1>3, <2>1, <3>1, <3>4, <3>5
    <2> QED  BY <1>1, <1>7, <2>2, <2>3 DEF Numbered
  <1>8. paged.speaks => (hints = None <=> ~Numbered /\ n = paged.count)
    BY <1>1, <1>5, HintsOfPage
  <1> HIDE DEF hints, next
  <1>9. Numbered \/ hints = None \/ n + 1 <= paged.count
    BY <1>1, <1>7
  <1> QED  BY <1>6, <1>7, <1>8, <1>9 DEF hints, next

\* The first request and its answer begin the chain.
LEMMA LoopStarts ==
    ASSUME paged.strategy \in Strategy, paged.count \in PageCounts,
           NEW asked \in Asked
    PROVE  LET start == LoopStart(asked)
           IN  /\ start.args = ArgsAt(1) /\ start.hints = HintsAt(1)
               /\ start.pages = <<1>> /\ ~start.failed
               /\ DOMAIN start = {"asked", "args", "hints", "pages", "bytes",
                                  "wall", "failed"}
               /\ start.asked \in 1 .. MaxPages
               /\ start.asked = asked \/ start.asked = MaxPages
  <1>1. /\ asked \in Nat \ {0} /\ MaxPages \in Nat \ {0}
        /\ paged.strategy \in {"token", "next", "page", "offset", "link",
                               "next_url", "both"}
    BY PagesAssumption
  <1>2. FirstArgs = ArgsAt(1)
    <2>1. 2 * (1 - 1) = 0 /\ ~(1 > 1)
      OBVIOUS
    <2>2. CASE paged.strategy = "offset"
      BY <2>1, <2>2 DEF FirstArgs, ArgsAt
    <2>3. CASE paged.strategy # "offset"
      BY <1>1, <2>1, <2>3 DEF FirstArgs, ArgsAt
    <2> QED  BY <2>2, <2>3
  <1>3. HintsAt(1) = FirstHints
    BY DEF HintsAt
  <1> QED  BY <1>1, <1>2, <1>3 DEF LoopStart

\* What a loop that nothing has broken has left when it ends.
LEMMA LoopLeaves ==
    ASSUME NEW stop, ended' = LoopEnded(stop),
           stop = "no_more" => Target = None \/ Len(loop.pages) >= loop.asked
    PROVE  /\ ended'.resume = Target
           /\ ended'.stop = "no_more" => Target = None
  BY DEF LoopEnded

\* One more page.
LEMMA OneMorePage ==
    ASSUME NEW pages, pages \in Seq(Range(pages)), NEW page
    PROVE  LET longer == Append(pages, page)
           IN  /\ longer \in Seq(Range(longer))
               /\ Len(longer) = Len(pages) + 1 /\ Len(pages) \in Nat
               /\ DOMAIN longer = DOMAIN pages \cup {Len(pages) + 1}
               /\ longer[Len(pages) + 1] = page
               /\ \A i \in DOMAIN pages : longer[i] = pages[i]
  <1> DEFINE S == Range(pages) \cup {page}
  <1>1. pages \in Seq(S)
    BY SeqMonotonic
  <1>2. /\ Append(pages, page) \in Seq(S)
        /\ Len(Append(pages, page)) = Len(pages) + 1
        /\ \A i \in 1 .. Len(pages) : Append(pages, page)[i] = pages[i]
        /\ Append(pages, page)[Len(pages) + 1] = page
    BY <1>1, AppendProperties
  <1>3. Append(pages, page) \in Seq(Range(Append(pages, page)))
    BY <1>2, SeqOfRange
  <1>4. /\ Len(pages) \in Nat /\ DOMAIN pages = 1 .. Len(pages)
        /\ DOMAIN Append(pages, page) = 1 .. Len(Append(pages, page))
    BY <1>1, <1>2, LenProperties
  <1> QED  BY <1>2, <1>3, <1>4

\* A loop that has just answered its first page, with nothing left or served.
LEMMA FirstPage ==
    ASSUME paged.strategy \in Strategy, paged.count \in PageCounts,
           NEW asked \in Asked
    PROVE  LET start == LoopStart(asked)
           IN  /\ start.pages \in Seq(Range(start.pages))
               /\ Len(start.pages) = 1 /\ start.pages[1] = 1
               /\ DOMAIN start.pages = {1}
               /\ start.asked \in 1 .. MaxPages /\ ~start.failed
               /\ start.args = ArgsAt(1) /\ start.hints = HintsAt(1)
               /\ Numbered \/ 1 <= paged.count
               /\ DOMAIN start = {"asked", "args", "hints", "pages", "bytes",
                                  "wall", "failed"}
  <1> DEFINE one == <<1>>
  <1>1. one \in Seq(Nat) /\ Len(one) = 1 /\ one[1] = 1 /\ DOMAIN one = {1}
    OBVIOUS
  <1>2. one \in Seq(Range(one))
    BY <1>1, SeqOfRange
  <1>3. paged.count \in Nat \ {0}
    BY PagesAssumption
  <1>4. LoopStart(asked).pages = one
    BY LoopStarts
  <1> HIDE DEF one
  <1>5. /\ LoopStart(asked).asked \in 1 .. MaxPages /\ ~LoopStart(asked).failed
        /\ LoopStart(asked).args = ArgsAt(1)
        /\ LoopStart(asked).hints = HintsAt(1)
        /\ DOMAIN LoopStart(asked)
              = {"asked", "args", "hints", "pages", "bytes", "wall", "failed"}
    BY LoopStarts
  <1> QED  BY <1>1, <1>2, <1>3, <1>4, <1>5

\* The initial state satisfies the inductive invariant.
LEMMA PagesInitHolds == PagesInit => PagesInv
  <1> SUFFICES ASSUME PagesInit PROVE PagesInv  OBVIOUS
  <1>1. /\ paged.strategy \in Strategy /\ paged.count \in PageCounts
        /\ paged.speaks \in BOOLEAN /\ paged.probed \in Probed \cup {None}
        /\ ended = None /\ servedPages = None
    BY DEF PagesInit
  <1>2. PICK asked \in Asked : loop = LoopStart(asked)
    BY DEF PagesInit
  <1> DEFINE start == LoopStart(asked)
  <1>3. /\ loop.pages \in Seq(Range(loop.pages))
        /\ Len(loop.pages) = 1 /\ loop.pages[1] = 1 /\ DOMAIN loop.pages = {1}
        /\ loop.asked \in 1 .. MaxPages /\ ~loop.failed
        /\ loop.args = ArgsAt(1) /\ loop.hints = HintsAt(1)
        /\ Numbered \/ 1 <= paged.count
        /\ DOMAIN loop
              = {"asked", "args", "hints", "pages", "bytes", "wall", "failed"}
    BY <1>1, <1>2, FirstPage
  <1>4. PrefetchIsAPrefix
    BY <1>1, <1>3, PagesAssumption DEF PrefetchIsAPrefix
  <1>5. 1 \in 1 .. MaxPages
    BY PagesAssumption
  <1> QED  BY <1>1, <1>3, <1>4, <1>5 DEF PagesInv

\* What depends on the source alone stays as it is as long as the source does.
LEMMA SourceUnchanged ==
    ASSUME UNCHANGED paged
    PROVE  /\ \A n \in Nat : /\ ArgsAt(n)' = ArgsAt(n) /\ HintsOf(n)' = HintsOf(n)
                             /\ HintsAt(n)' = HintsAt(n)
           /\ Numbered' <=> Numbered
           /\ Astray' <=> Astray
  BY DEF ArgsAt, HintsOf, HintsAt, FirstHints, StoredHints, Body, Following,
         Numbered, Astray

\* A page more: what the loop has is still the beginning of the chain, and so
\* is what it had when the source fails.
LEMMA PageFetched ==
    ASSUME PagesInv, ended = None, Len(loop.pages) < loop.asked,
           UNCHANGED <<paged, ended, servedPages>>, NEW page,
           loop'.pages = Append(loop.pages, page), loop'.asked = loop.asked,
           loop'.bytes <= MaxTotalBytes, DOMAIN loop' = DOMAIN loop,
           ~loop'.failed =>
              /\ ~loop.failed /\ Followable /\ page = Index(Target)
              /\ loop'.args = Target /\ loop'.hints = HintsOf(page)
    PROVE  PagesInv'
  <1>1. /\ paged.strategy \in Strategy /\ paged.count \in PageCounts
        /\ paged.speaks \in BOOLEAN /\ paged.probed \in Probed \cup {None}
        /\ loop.pages \in Seq(Range(loop.pages)) /\ Len(loop.pages) >= 1
        /\ loop.asked \in 1 .. MaxPages
        /\ DOMAIN loop
              = {"asked", "args", "hints", "pages", "bytes", "wall", "failed"}
        /\ ~loop.failed /\ ~Astray =>
              \A i \in DOMAIN loop.pages : loop.pages[i] = i
        /\ servedPages = None /\ loop.asked <= MaxPages
    BY DEF PagesInv, PrefetchIsAPrefix
  <1>2. /\ loop'.pages \in Seq(Range(loop'.pages))
        /\ Len(loop'.pages) = Len(loop.pages) + 1 /\ Len(loop.pages) \in Nat
        /\ DOMAIN loop'.pages = DOMAIN loop.pages \cup {Len(loop.pages) + 1}
        /\ loop'.pages[Len(loop.pages) + 1] = page
        /\ \A i \in DOMAIN loop.pages : loop'.pages[i] = loop.pages[i]
    BY <1>1, OneMorePage
  <1>3. Len(loop'.pages) <= loop'.asked
    BY <1>1, <1>2, PagesAssumption
  <1>4. ASSUME ~loop'.failed, ~Astray
        PROVE  LET n == Len(loop.pages)
               IN  /\ page = n + 1 /\ loop'.args = ArgsAt(n + 1)
                   /\ loop'.hints = HintsAt(n + 1)
                   /\ Numbered \/ n + 1 <= paged.count
    <2>1. PICK n \in 1 .. MaxPages :
            /\ Len(loop.pages) = n /\ (Numbered \/ n <= paged.count)
            /\ loop.args = ArgsAt(n) /\ loop.hints = HintsAt(n)
      BY <1>4 DEF PagesInv
    <2>2. n \in Nat \ {0}
      BY <2>1, PagesAssumption
    <2>3. paged.count \in Nat
      BY <1>1, PagesAssumption
    <2>4. Target = IF HintsAt(n) = None THEN None
                   ELSE NextTarget(HintsAt(n), ArgsAt(n))
      BY <2>1 DEF Target
    <2>5. Target # None => /\ Target = ArgsAt(n + 1) /\ Index(Target) = n + 1
                           /\ Numbered \/ n + 1 <= paged.count
      BY <1>1, <1>4, <2>1, <2>2, <2>4, ChainGoesOn
    <2>6. HintsAt(n + 1) = HintsOf(n + 1)
      BY <2>2 DEF HintsAt
    <2>7. Target # None
      BY <1>4 DEF Followable
    <2> QED  BY <1>4, <2>1, <2>2, <2>3, <2>5, <2>6, <2>7
  <1>5. /\ \A n \in Nat : ArgsAt(n)' = ArgsAt(n) /\ HintsAt(n)' = HintsAt(n)
        /\ Numbered' <=> Numbered
        /\ Astray' <=> Astray
    BY SourceUnchanged
  <1>6. ~loop'.failed /\ ~Astray' => \E n \in 1 .. MaxPages :
          /\ Len(loop'.pages) = n /\ (Numbered' \/ n <= paged'.count)
          /\ loop'.args = ArgsAt(n)' /\ loop'.hints = HintsAt(n)'
    <2>1. Len(loop.pages) + 1 \in 1 .. MaxPages
      BY <1>1, <1>2, <1>3, PagesAssumption
    <2> QED  BY <1>2, <1>4, <1>5, <2>1
  <1>7. PrefetchIsAPrefix'
    BY <1>1, <1>2, <1>3, <1>4, <1>5 DEF PrefetchIsAPrefix
  <1> QED  BY <1>1, <1>2, <1>6, <1>7 DEF PagesInv

\* What the loop leaves when it ends, unless the source has failed.
LEMMA LoopEnds ==
    ASSUME PagesInv, ended = None, UNCHANGED <<paged, servedPages>>,
           loop' = loop,
           ~loop.failed /\ ~Astray =>
              ended'.resume = Target /\ (ended'.stop = "no_more" => Target = None)
    PROVE  PagesInv'
  <1>1. /\ paged.strategy \in Strategy /\ paged.count \in PageCounts
        /\ paged.speaks \in BOOLEAN /\ paged.probed \in Probed \cup {None}
        /\ loop.pages \in Seq(Range(loop.pages)) /\ Len(loop.pages) >= 1
        /\ loop.asked \in 1 .. MaxPages /\ servedPages = None
        /\ DOMAIN loop
              = {"asked", "args", "hints", "pages", "bytes", "wall", "failed"}
        /\ PrefetchIsAPrefix
    BY DEF PagesInv
  <1>2. /\ \A n \in Nat : ArgsAt(n)' = ArgsAt(n) /\ HintsAt(n)' = HintsAt(n)
        /\ Numbered' <=> Numbered
        /\ Astray' <=> Astray
    BY SourceUnchanged
  <1>3. ~loop.failed /\ ~Astray' => \E n \in 1 .. MaxPages :
          /\ Len(loop.pages) = n /\ (Numbered' \/ n <= paged'.count)
          /\ loop.args = ArgsAt(n)' /\ loop.hints = HintsAt(n)'
    BY <1>2 DEF PagesInv
  <1>4. Target' = Target
    BY DEF Target
  <1>5. ASSUME ~loop.failed, ~Astray
        PROVE  IF Target = None THEN paged.speaks => Len(loop.pages) >= paged.count
               ELSE Index(Target) = Len(loop.pages) + 1
    <2>1. PICK n \in 1 .. MaxPages :
            /\ Len(loop.pages) = n /\ (Numbered \/ n <= paged.count)
            /\ loop.args = ArgsAt(n) /\ loop.hints = HintsAt(n)
      BY <1>5 DEF PagesInv
    <2>2. n \in Nat \ {0}
      BY <2>1, PagesAssumption
    <2>3. paged.count \in Nat
      BY <1>1, PagesAssumption
    <2>4. Target = IF HintsAt(n) = None THEN None
                   ELSE NextTarget(HintsAt(n), ArgsAt(n))
      BY <2>1 DEF Target
    <2>5. /\ paged.speaks => (Target = None <=> ~Numbered /\ n = paged.count)
          /\ Target # None => Index(Target) = n + 1
      BY <1>1, <1>5, <2>1, <2>2, <2>4, ChainGoesOn
    <2> QED  BY <2>1, <2>3, <2>5
  <1>6. PrefetchIsAPrefix'
    BY <1>1, <1>2, <1>5 DEF PrefetchIsAPrefix
  <1> QED  BY <1>1, <1>2, <1>3, <1>4, <1>6 DEF PagesInv

\* Each step of the loop and of a later call preserves it.
LEMMA PagesStepPreserves == PagesInv /\ [PagesNext]_pagesVars => PagesInv'
  <1> SUFFICES ASSUME PagesInv, [PagesNext]_pagesVars PROVE PagesInv'
    OBVIOUS
  <1>1. /\ paged.strategy \in Strategy /\ paged.count \in PageCounts
        /\ paged.speaks \in BOOLEAN /\ paged.probed \in Probed \cup {None}
        /\ loop.pages \in Seq(Range(loop.pages)) /\ Len(loop.pages) >= 1
        /\ loop.asked \in 1 .. MaxPages /\ PrefetchIsAPrefix
        /\ DOMAIN loop
              = {"asked", "args", "hints", "pages", "bytes", "wall", "failed"}
        /\ servedPages # None => ended # None /\ servedPages.pages = loop.pages
        /\ (ended # None /\ ~loop.failed /\ ~Astray) =>
              ended.resume = Target /\ (ended.stop = "no_more" => Target = None)
    BY DEF PagesInv
  <1>2. UNCHANGED paged =>
           /\ \A n \in Nat : ArgsAt(n)' = ArgsAt(n) /\ HintsAt(n)' = HintsAt(n)
           /\ Numbered' <=> Numbered
           /\ Astray' <=> Astray
    BY SourceUnchanged
  <1>3. ASSUME UNCHANGED <<paged, loop, ended>>,
               servedPages' # None => /\ ended # None
                                      /\ servedPages'.pages = loop.pages,
               (servedPages' # None /\ ~loop.failed /\ ~Astray /\ paged.speaks) =>
                  \/ Len(servedPages'.pages) >= servedPages'.asked
                  \/ Len(servedPages'.pages) \in {paged.count, MaxPages}
        PROVE  PagesInv'
    <2>1. ~loop.failed /\ ~Astray' => \E n \in 1 .. MaxPages :
            /\ Len(loop.pages) = n /\ (Numbered' \/ n <= paged'.count)
            /\ loop.args = ArgsAt(n)' /\ loop.hints = HintsAt(n)'
      BY <1>2, <1>3 DEF PagesInv
    <2>2. Target' = Target
      BY <1>3 DEF Target
    <2>3. PrefetchIsAPrefix'
      BY <1>1, <1>2, <1>3 DEF PrefetchIsAPrefix
    <2> QED  BY <1>1, <1>2, <1>3, <2>1, <2>2, <2>3 DEF PagesInv
  <1>4. CASE UNCHANGED pagesVars
    BY <1>1, <1>3, <1>4 DEF pagesVars, PrefetchIsAPrefix
  <1>5. ASSUME FetchPage PROVE PagesInv'
    <2> DEFINE page == Index(Target)
               bytes == loop.bytes + BytesOf(page)
    <2>1. PICK t : loop' = [loop EXCEPT !.args = Target, !.hints = HintsOf(page),
                                        !.pages = Append(loop.pages, page),
                                        !.bytes = bytes, !.wall = t]
      BY <1>5 DEF FetchPage
    <2>2. /\ ended = None /\ Len(loop.pages) < loop.asked /\ Followable
          /\ bytes <= MaxTotalBytes /\ UNCHANGED <<paged, ended, servedPages>>
      BY <1>5 DEF FetchPage
    <2> HIDE DEF page, bytes
    <2>3. /\ loop'.pages = Append(loop.pages, page) /\ loop'.asked = loop.asked
          /\ loop'.bytes = bytes /\ loop'.failed = loop.failed
          /\ loop'.args = Target /\ loop'.hints = HintsOf(page)
          /\ DOMAIN loop' = DOMAIN loop
      BY <1>1, <2>1
    <2>4. page = Index(Target)
      BY DEF page
    <2> QED  BY <2>2, <2>3, <2>4, PageFetched
  <1>6. ASSUME DropPage PROVE PagesInv'
    BY <1>6, LoopLeaves, LoopEnds DEF DropPage
  <1>7. ASSUME FailPage PROVE PagesInv'
    <2>1. /\ ended = None /\ UNCHANGED <<paged, servedPages>>
          /\ loop' = [loop EXCEPT !.failed = TRUE]
      BY <1>7 DEF FailPage
    <2>2. /\ loop'.pages = loop.pages /\ loop'.asked = loop.asked
          /\ loop'.bytes = loop.bytes /\ loop'.failed
          /\ DOMAIN loop' = DOMAIN loop
      BY <1>1, <2>1
    <2>3. PrefetchIsAPrefix'
      BY <1>1, <2>2 DEF PrefetchIsAPrefix
    <2>4. loop'.asked \in 1 .. MaxPages
      BY <2>2 DEF PagesInv
    <2> QED  BY <1>1, <2>1, <2>2, <2>3, <2>4 DEF PagesInv
  <1>8. ASSUME ErrorPage PROVE PagesInv'
    <2>1. PICK t : loop' = [loop EXCEPT !.args = Target, !.hints = None,
                                        !.pages = Append(loop.pages, None),
                                        !.bytes = loop.bytes + 1, !.wall = t,
                                        !.failed = TRUE]
      BY <1>8 DEF ErrorPage
    <2>2. /\ ended = None /\ Len(loop.pages) < loop.asked
          /\ loop.bytes + 1 <= MaxTotalBytes
          /\ UNCHANGED <<paged, ended, servedPages>>
      BY <1>8 DEF ErrorPage
    <2>3. /\ loop'.pages = Append(loop.pages, None) /\ loop'.asked = loop.asked
          /\ loop'.bytes <= MaxTotalBytes /\ loop'.failed
          /\ DOMAIN loop' = DOMAIN loop
      BY <1>1, <2>1, <2>2
    <2> QED  BY <2>2, <2>3, PageFetched
  <1>9. ASSUME StopLoop PROVE PagesInv'
    BY <1>9, LoopLeaves, LoopEnds DEF StopLoop
  <1>10. ASSUME RefuseUrl PROVE PagesInv'
    <2>1. /\ ended = None /\ Target # None /\ ~Followable
          /\ UNCHANGED <<paged, loop, servedPages>>
      BY <1>10 DEF RefuseUrl
    <2>2. Target.url # None /\ ~paged.speaks
      BY <2>1 DEF Followable
    <2>3. loop.failed \/ Astray
      <3> SUFFICES ASSUME ~loop.failed, ~Astray PROVE FALSE  OBVIOUS
      <3>1. PICK n \in 1 .. MaxPages :
              /\ Len(loop.pages) = n /\ (Numbered \/ n <= paged.count)
              /\ loop.args = ArgsAt(n) /\ loop.hints = HintsAt(n)
        BY DEF PagesInv
      <3>2. n \in Nat \ {0}
        BY <3>1, PagesAssumption
      <3>3. Target = IF HintsAt(n) = None THEN None
                     ELSE NextTarget(HintsAt(n), ArgsAt(n))
        BY <3>1 DEF Target
      <3> QED  BY <1>1, <2>1, <2>2, <3>1, <3>2, <3>3, ChainGoesOn
    <2> QED  BY <2>1, <2>3, LoopEnds
  <1>11. ASSUME CallAgain PROVE PagesInv'
    <2>1. PICK asked \in Asked :
             IF asked = 1 \/ ended.stop = "no_more"
                  \/ Len(loop.pages) >= LoopStart(asked).asked
             THEN /\ servedPages' = [asked |-> asked, pages |-> loop.pages]
                  /\ UNCHANGED <<loop, ended>>
             ELSE /\ servedPages' = None
                  /\ loop' = LoopStart(asked)
                  /\ ended' = None
      BY <1>11 DEF CallAgain
    <2>2. ended # None /\ UNCHANGED paged
      BY <1>11 DEF CallAgain
    <2>3. CASE asked = 1 \/ ended.stop = "no_more"
                 \/ Len(loop.pages) >= LoopStart(asked).asked
      <3>1. /\ servedPages' = [asked |-> asked, pages |-> loop.pages]
            /\ UNCHANGED <<paged, loop, ended>>
        BY <2>1, <2>2, <2>3
      <3>2. servedPages'.pages = loop.pages /\ servedPages'.asked = asked
        BY <3>1
      <3>3. ASSUME ~loop.failed, ~Astray, paged.speaks
            PROVE  \/ Len(loop.pages) >= asked
                   \/ Len(loop.pages) \in {paged.count, MaxPages}
        <4>1. CASE asked = 1
          BY <1>1, <4>1
        <4>2. CASE ended.stop = "no_more"
          <5>1. Target = None
            BY <1>1, <2>2, <3>3, <4>2
          <5>2. PICK n \in 1 .. MaxPages :
                  /\ Len(loop.pages) = n /\ (Numbered \/ n <= paged.count)
                  /\ loop.args = ArgsAt(n) /\ loop.hints = HintsAt(n)
            BY <3>3 DEF PagesInv
          <5>3. n \in Nat \ {0}
            BY <5>2, PagesAssumption
          <5>4. Target = IF HintsAt(n) = None THEN None
                         ELSE NextTarget(HintsAt(n), ArgsAt(n))
            BY <5>2 DEF Target
          <5>5. n = paged.count
            BY <1>1, <3>3, <5>1, <5>2, <5>3, <5>4, ChainGoesOn
          <5> QED  BY <5>2, <5>5
        <4>3. CASE Len(loop.pages) >= LoopStart(asked).asked
          <5>1. LoopStart(asked).asked \in {asked, MaxPages}
            BY <1>1, LoopStarts
          <5>2. Len(loop.pages) <= loop.asked /\ loop.asked \in 1 .. MaxPages
            BY <1>1 DEF PrefetchIsAPrefix
          <5>3. Len(loop.pages) \in Nat
            BY <1>1, LenProperties
          <5> QED  BY <4>3, <5>1, <5>2, <5>3, PagesAssumption
        <4> QED  BY <2>3, <4>1, <4>2, <4>3
      <3> QED  BY <1>3, <2>2, <3>1, <3>2, <3>3
    <2>4. CASE /\ servedPages' = None /\ ended' = None
               /\ loop' = LoopStart(asked)
      <3>1. /\ loop'.pages \in Seq(Range(loop'.pages))
            /\ Len(loop'.pages) = 1 /\ loop'.pages[1] = 1
            /\ DOMAIN loop'.pages = {1}
            /\ loop'.asked \in 1 .. MaxPages /\ ~loop'.failed
            /\ loop'.args = ArgsAt(1) /\ loop'.hints = HintsAt(1)
            /\ Numbered \/ 1 <= paged.count
            /\ DOMAIN loop'
                 = {"asked", "args", "hints", "pages", "bytes", "wall", "failed"}
        BY <1>1, <2>4, FirstPage
      <3>2. PrefetchIsAPrefix'
        BY <2>4, <3>1, PagesAssumption DEF PrefetchIsAPrefix
      <3>3. \E n \in 1 .. MaxPages :
              /\ Len(loop'.pages) = n /\ (Numbered' \/ n <= paged'.count)
              /\ loop'.args = ArgsAt(n)' /\ loop'.hints = HintsAt(n)'
        <4>1. 1 \in 1 .. MaxPages
          BY PagesAssumption
        <4> QED  BY <1>2, <2>2, <3>1, <4>1
      <3>4. /\ paged'.strategy \in Strategy /\ paged'.count \in PageCounts
            /\ paged'.speaks \in BOOLEAN /\ paged'.probed \in Probed \cup {None}
            /\ ended' = None /\ servedPages' = None /\ Len(loop'.pages) >= 1
        BY <1>1, <2>2, <2>4, <3>1
      <3> QED  BY <3>1, <3>2, <3>3, <3>4, Zenon DEF PagesInv
    <2> QED  BY <2>1, <2>3, <2>4
  <1> QED
    BY <1>4, <1>5, <1>6, <1>7, <1>8, <1>9, <1>10, <1>11, Zenon DEF PagesNext

\* For any sources, caps and calls, every reachable state of following pages
\* satisfies the inductive invariant.
THEOREM PagesInvariant == PagesSpec => []PagesInv
  BY PagesInitHolds, PagesStepPreserves, PTL DEF PagesSpec

\* pagination.rs: what is fetched begins the chain, in order and within every
\* cap, and the call that resumes it asks for the first page not stored.
THEOREM PrefetchesAPrefix == PagesSpec => []PrefetchIsAPrefix
  <1>1. PagesInv => PrefetchIsAPrefix
    BY DEF PagesInv
  <1> QED  BY <1>1, PagesInvariant, PTL
=============================================================================
