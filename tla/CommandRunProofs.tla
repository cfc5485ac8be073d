-------------------------- MODULE CommandRunProofs --------------------------
(***************************************************************************)
(* For any streams, caps, descendants and exit codes: what is recorded as  *)
(* able to prove absence has every byte of both streams and the child's    *)
(* exit.  The argument is CInv: a reader that has ended uncut has read all *)
(* there will ever be (EndsHold), since nobody holds the write end any     *)
(* more and who does not hold it cannot pass it on; prog joins only such   *)
(* readers before it completes a capture (StepsHold).                      *)
(***************************************************************************)
EXTENDS CommandRun, FoldLemmas, SequenceTheorems

\* What an outcome records is a report, with empty streams as with full ones.
LEMMA RecordedIsReport ==
    ASSUME NEW outcome \in Outcome, NEW code \in Codes \cup {None},
           NEW streams, DOMAIN streams = Stream,
           NEW combined \in Seq([stream : Stream, n : Nat]),
           NEW redacted \in BOOLEAN, NEW windowed \in BOOLEAN
    PROVE  /\ IsReport(Recorded(outcome, code, streams, combined, redacted, windowed))
           /\ Recorded(outcome, code, streams, combined, redacted, windowed).outcome
                = outcome
  <1> DEFINE truncated == \E s \in Stream : streams[s].truncated
             interrupted == outcome \in {"timeout", "cancelled"}
             stop == IF interrupted THEN outcome
                     ELSE IF truncated THEN "byte_limit"
                     ELSE IF redacted THEN "redacted" ELSE "complete"
             last == IF windowed /\ stop = "complete" THEN "derivation_windowed"
                     ELSE stop
             kept == IF interrupted \/ truncated THEN "capture_truncated"
                     ELSE IF redacted THEN "redacted" ELSE "recoverable"
             proves == ~interrupted /\ ~truncated /\ ~redacted /\ ~windowed
  <1>1. stop \in StopReason
    BY DEF StopReason
  <1>2. last \in StopReason
    BY <1>1 DEF StopReason
  <1>3. kept \in Availability
    BY DEF Availability
  <1>4. proves \in BOOLEAN
    OBVIOUS
  <1>5. Recorded(outcome, code, streams, combined, redacted, windowed)
          = [outcome |-> outcome, code |-> code, evidence |-> TRUE,
             streams |-> streams, combined |-> combined, availability |-> kept,
             stop |-> last, proves |-> proves]
    BY Zenon DEF Recorded
  <1> HIDE DEF stop, last, kept, proves
  <1> QED  BY <1>2, <1>3, <1>4, <1>5 DEF IsReport

LEMMA FailedIsReport ==
    ASSUME NEW outcome \in Outcome
    PROVE  IsReport(Failed(outcome)) /\ Failed(outcome).proves = FALSE
  <1>1. <<>> \in Seq([stream : Stream, n : Nat])
    OBVIOUS
  <1> QED  BY <1>1 DEF Failed, IsReport, Availability, StopReason

\* A capture that proves absence was neither interrupted nor cut.
LEMMA ProofIsWhole ==
    ASSUME NEW outcome, NEW code, NEW streams, NEW combined,
           NEW redacted \in BOOLEAN, NEW windowed \in BOOLEAN,
           Recorded(outcome, code, streams, combined, redacted, windowed).proves
    PROVE  /\ outcome \notin {"timeout", "cancelled"}
           /\ \A s \in Stream : ~streams[s].truncated
  BY Zenon DEF Recorded

\* Reading more keeps what a reader guarantees of its capture.
LEMMA ExtendedCapture ==
    ASSUME NEW got \in Capture, NEW n \in Nat, NEW cap \in Nat,
           got.kept <= got.total, got.kept <= cap,
           got.truncated \/ got.kept = got.total
    PROVE  /\ Extended(got, n, cap) \in Capture
           /\ Extended(got, n, cap).total = got.total + n
           /\ Extended(got, n, cap).kept <= Extended(got, n, cap).total
           /\ Extended(got, n, cap).kept <= cap
           /\ got.kept <= Extended(got, n, cap).kept
           /\ \/ Extended(got, n, cap).truncated
              \/ Extended(got, n, cap).kept = Extended(got, n, cap).total
  <1> DEFINE k == got.kept
             t == got.total
             remaining == cap - k
             kept == IF n < remaining THEN k + n ELSE cap
             cut == got.truncated \/ n > remaining
  <1>1. k \in Nat /\ t \in Nat /\ got.truncated \in BOOLEAN /\ k <= t /\ k <= cap
    BY DEF Capture
  <1>2. Extended(got, n, cap) = [kept |-> kept, total |-> t + n, truncated |-> cut]
    BY Zenon DEF Extended
  <1>3. cut \in BOOLEAN /\ (~cut => k = t /\ ~(n > remaining))
    OBVIOUS
  <1> HIDE DEF k, t
  <1>4. kept \in Nat /\ kept <= cap /\ k <= kept /\ kept <= t + n
    BY <1>1
  <1>5. cut \/ kept = t + n
    BY <1>1, <1>3
  <1> HIDE DEF cut, kept
  <1> QED  BY <1>1, <1>2, <1>3, <1>4, <1>5 DEF Capture, k, t

LEMMA CapIsNat ==
    ASSUME NEW s \in Stream
    PROVE  CapOf(s) \in Nat /\ MaxWritten[s] \in Nat
  BY CapAssumption DEF CapOf

-----------------------------------------------------------------------------
(* The child and its descendants.                                          *)

\* A writer holds the stream, so nobody has seen its end.
LEMMA WriteKeeps ==
    ASSUME CInv, pc # "ended", NEW q \in OsProcess, NEW s \in Stream, Write(q, s)
    PROVE  CInv'
  <1> USE DEF CInv, Write, readVars, loopVars
  <1>1. TypeOK'
    BY DEF TypeOK
  <1>2. ReadersHold'
    BY DEF TypeOK, ReadersHold, CapOf, Reader, Capture
  <1>3. EndsHold'
    BY DEF TypeOK, EndsHold, Open, Alive, Reader
  <1>4. ExitHolds'
    BY DEF TypeOK, ExitHolds, OsProcess, Alive
  <1>5. StepsHold'
    BY DEF TypeOK, StepsHold, Shim, Pipes, Alive
  <1>6. AbsenceIsProved'
    BY DEF StepsHold, AbsenceIsProved
  <1> QED  BY <1>1, <1>2, <1>3, <1>4, <1>5, <1>6

\* A descendant holds no more than who began it.
LEMMA ForkKeeps ==
    ASSUME CInv, pc # "ended", NEW q \in OsProcess, NEW d \in Descendant, NEW holds \in SUBSET Stream, NEW grouped \in BOOLEAN, Fork(q, d, holds, grouped)
    PROVE  CInv'
  <1> USE DEF CInv, Fork, readVars, loopVars
  <1>1. TypeOK'
    BY ZenonT(60) DEF TypeOK
  <1>2. ReadersHold'
    BY DEF TypeOK, ReadersHold, CapOf, Reader, Capture
  <1>3. EndsHold'
    BY DEF TypeOK, EndsHold, Open, Alive, Reader
  <1>4. ExitHolds'
    BY ProcessAssumption DEF TypeOK, ExitHolds, OsProcess, Alive
  <1>5. StepsHold'
    BY DEF TypeOK, StepsHold, Shim, Pipes, Alive
  <1>6. AbsenceIsProved'
    BY DEF StepsHold, AbsenceIsProved
  <1> QED  BY <1>1, <1>2, <1>3, <1>4, <1>5, <1>6

LEMMA ExitKeeps ==
    ASSUME CInv, pc # "ended", NEW q \in OsProcess, NEW code \in Codes, Exit(q, code)
    PROVE  CInv'
  <1> USE DEF CInv, Exit, readVars, loopVars
  <1>1. TypeOK'
    BY DEF TypeOK
  <1>2. ReadersHold'
    BY DEF TypeOK, ReadersHold, CapOf, Reader, Capture
  <1>3. EndsHold'
    BY DEF TypeOK, EndsHold, Open, Alive, Reader
  <1>4. ExitHolds'
    BY CodesAssumption DEF TypeOK, ExitHolds, OsProcess, Alive
  <1>5. StepsHold'
    BY DEF TypeOK, StepsHold, Shim, Pipes, Alive
  <1>6. AbsenceIsProved'
    BY DEF StepsHold, AbsenceIsProved
  <1> QED  BY <1>1, <1>2, <1>3, <1>4, <1>5, <1>6

LEMMA CloseKeeps ==
    ASSUME CInv, pc # "ended", NEW s \in Stream, CloseDownstream(s)
    PROVE  CInv'
  <1> USE DEF CInv, CloseDownstream, readVars, loopVars
  <1>1. TypeOK'
    BY DEF TypeOK
  <1>2. ReadersHold'
    BY DEF TypeOK, ReadersHold, CapOf, Reader, Capture
  <1>3. EndsHold'
    BY DEF TypeOK, EndsHold, Open, Alive, Reader
  <1>4. ExitHolds'
    BY DEF TypeOK, ExitHolds, OsProcess, Alive
  <1>5. StepsHold'
    BY DEF TypeOK, StepsHold, Shim, Pipes, Alive
  <1>6. AbsenceIsProved'
    BY DEF StepsHold, AbsenceIsProved
  <1> QED  BY <1>1, <1>2, <1>3, <1>4, <1>5, <1>6

LEMMA DeadlineKeeps ==
    ASSUME CInv, pc # "ended", DeadlinePasses
    PROVE  CInv'
  <1> USE DEF CInv, DeadlinePasses, readVars, loopVars
  <1>1. TypeOK'
    BY DEF TypeOK
  <1>2. ReadersHold'
    BY DEF TypeOK, ReadersHold, CapOf, Reader, Capture
  <1>3. EndsHold'
    BY DEF TypeOK, EndsHold, Open, Alive, Reader
  <1>4. ExitHolds'
    BY DEF TypeOK, ExitHolds, OsProcess, Alive
  <1>5. StepsHold'
    BY DEF TypeOK, StepsHold, Shim, Pipes, Alive
  <1>6. AbsenceIsProved'
    BY DEF StepsHold, AbsenceIsProved
  <1> QED  BY <1>1, <1>2, <1>3, <1>4, <1>5, <1>6

-----------------------------------------------------------------------------
(* The readers.                                                            *)

LEMMA AppendInSeq ==
    ASSUME NEW S, NEW q \in Seq(S), NEW x \in S
    PROVE  Append(q, x) \in Seq(S)
  OBVIOUS

LEMMA ReadKeeps ==
    ASSUME CInv, pc # "ended", NEW s \in Stream, NEW n \in 1 .. MaxWritten[s],
           Read(s, n)
    PROVE  CInv'
  <1> DEFINE got == reader[s].got
             more == Extended(got, n, CapOf(s))
  <1> USE DEF CInv, readVars, loopVars
  <1>1. n \in Nat /\ CapOf(s) \in Nat
    BY CapIsNat
  <1>2. got \in Capture /\ reader[s].state = "reading"
    BY DEF TypeOK, Reader, Read, Listening
  <1>3. /\ got.kept <= got.total /\ got.kept <= CapOf(s)
        /\ got.truncated \/ got.kept = got.total
    BY DEF ReadersHold
  <1> HIDE DEF got
  <1>4. /\ more \in Capture /\ more.total = got.total + n
        /\ more.kept <= more.total /\ more.kept <= CapOf(s)
        /\ got.kept <= more.kept
        /\ more.truncated \/ more.kept = more.total
    BY <1>1, <1>2, <1>3, ExtendedCapture
  <1>5. more.total <= written[s]
    BY <1>1, <1>2, <1>4 DEF Read, TypeOK, Capture, got
  <1>6. more.kept - got.kept \in Nat
    BY <1>2, <1>4 DEF Capture
  <1> HIDE DEF more
  <1>7. /\ reader' = [reader EXCEPT ![s].got = more]
        /\ chunks' \in {chunks, Append(chunks, [stream |-> s, n |-> more.kept - got.kept])}
        /\ relayed' = [relayed EXCEPT ![s] = IF Shim THEN @ + n ELSE @]
        /\ s \in Pipes /\ Reads
        /\ UNCHANGED <<kind, os, exit, written, closed, deadline, cancelled, pc,
                       joined, status, cause, report>>
    BY DEF Read, Relay, more, got
  <1>8. TypeOK'
    <2>1. chunks' \in Seq([stream : Stream, n : Nat])
      <3>1. [stream |-> s, n |-> more.kept - got.kept] \in [stream : Stream, n : Nat]
        BY <1>6
      <3>2. chunks \in Seq([stream : Stream, n : Nat])
        BY DEF TypeOK
      <3> QED  BY <1>7, <3>1, <3>2, AppendInSeq
    <2>2. relayed' \in [Stream -> Nat]
      BY <1>1, <1>7 DEF TypeOK
    <2>3. reader' \in [Stream -> Reader]
      BY <1>4, <1>7 DEF TypeOK, Reader
    <2> QED  BY <1>7, <2>1, <2>2, <2>3 DEF TypeOK
  <1>9. ReadersHold'
    BY <1>4, <1>5, <1>7 DEF ReadersHold, CapOf, TypeOK, Reader
  <1>10. EndsHold'
    BY <1>2, <1>7 DEF EndsHold, Open, Alive, TypeOK, Reader
  <1>11. ExitHolds'
    BY <1>7 DEF ExitHolds
  <1>12. StepsHold'
    BY <1>2, <1>7 DEF StepsHold, Shim, Pipes, Alive, Reads, TypeOK, Reader
  <1>13. AbsenceIsProved'
    BY <1>7 DEF StepsHold, AbsenceIsProved
  <1> QED  BY <1>8, <1>9, <1>10, <1>11, <1>12, <1>13

\* A reader stops: at the end of its stream, or it knows that it is cut.
LEMMA StoppedKeeps ==
    ASSUME CInv, pc # "ended", NEW s \in Stream, NEW state \in {"done", "failed"},
           NEW truncated \in BOOLEAN, NEW n \in Nat,
           n <= written[s] - reader[s].got.total,
           n # 0 => truncated,
           Shim => state = "done",
           state = "done" /\ ~truncated =>
               written[s] = reader[s].got.total /\ ~Open(s),
           Stopped(s, state, truncated, n)
    PROVE  CInv'
  <1> DEFINE r == reader[s]
             r2 == [state |-> state,
                    got |-> [kept |-> r.got.kept, total |-> r.got.total + n,
                             truncated |-> r.got.truncated \/ truncated]]
  <1> USE DEF CInv, loopVars
  <1>1. /\ r \in Reader /\ r.got \in Capture
        /\ r.got.kept \in Nat /\ r.got.total \in Nat /\ r.got.truncated \in BOOLEAN
    BY DEF TypeOK, Reader, Capture
  <1>2. /\ s \in Pipes /\ Reads /\ r.state = "reading"
        /\ reader' = [reader EXCEPT ![s] = r2]
        /\ UNCHANGED <<kind, os, exit, written, relayed, closed, deadline,
                       cancelled, pc, chunks, joined, status, cause, report>>
    BY DEF Stopped, Listening
  <1>3. reader'[s] = r2 /\ \A z \in Stream : z # s => reader'[z] = reader[z]
    BY <1>2 DEF TypeOK
  <1>4. /\ r2 \in Reader /\ r2.state = state /\ r2.got.kept = r.got.kept
        /\ r2.got.total = r.got.total + n
        /\ r2.got.truncated = (r.got.truncated \/ truncated)
    BY <1>1 DEF Reader, Capture, ReaderState
  <1>5. /\ r.got.kept <= r.got.total /\ r.got.kept <= CapOf(s)
        /\ r.got.truncated \/ r.got.kept = r.got.total
    BY DEF ReadersHold
  <1> HIDE DEF r2
  <1>6. /\ r2.got.kept <= r2.got.total /\ r2.got.total <= written[s]
        /\ r2.got.kept <= CapOf(s)
        /\ r2.got.truncated \/ r2.got.kept = r2.got.total
    <2>1. r2.got.total <= written[s] /\ r2.got.kept <= r2.got.total
      BY <1>1, <1>4, <1>5 DEF TypeOK
    <2>2. r2.got.truncated \/ r2.got.kept = r2.got.total
      BY <1>1, <1>4, <1>5
    <2> QED  BY <1>4, <1>5, <2>1, <2>2
  <1>7. state = "done" /\ ~r2.got.truncated =>
            r2.got.total = written[s] /\ ~Open(s)
    BY <1>1, <1>4
  <1>8. /\ \A z \in Stream : z # s => reader'[z] = reader[z]
        /\ reader'[s] = r2
    BY <1>3
  <1>9. TypeOK'
    <2>1. reader' \in [Stream -> Reader]
      BY <1>2, <1>4 DEF TypeOK
    <2> QED  BY <1>2, <2>1 DEF TypeOK
  <1>10. ReadersHold'
    BY <1>2, <1>6, <1>8 DEF ReadersHold, CapOf
  <1>11. EndsHold'
    BY <1>2, <1>4, <1>7, <1>8 DEF EndsHold, Open, Alive
  <1>12. ExitHolds'
    BY <1>2 DEF ExitHolds
  <1>13. StepsHold'
    BY <1>2, <1>4, <1>8 DEF StepsHold, Shim, Pipes, Alive, Reads, TypeOK
  <1>14. AbsenceIsProved'
    BY <1>2 DEF StepsHold, AbsenceIsProved
  <1> QED  BY <1>9, <1>10, <1>11, <1>12, <1>13, <1>14

LEMMA ReadsCount ==
    ASSUME CInv, NEW s \in Stream
    PROVE  /\ reader[s].got.total \in Nat /\ written[s] \in Nat
           /\ 0 <= written[s] - reader[s].got.total
  BY DEF CInv, TypeOK, Reader, Capture, ReadersHold

LEMMA ReaderKeeps ==
    ASSUME CInv, pc # "ended", NEW s \in Stream, ReaderStep(s) \/ ReadFails(s)
    PROVE  CInv'
  <1>1. CASE \E n \in 1 .. MaxWritten[s] : Read(s, n)
    BY <1>1, ReadKeeps
  <1>2. CASE \E n \in 1 .. MaxWritten[s] : RelayFails(s, n)
    <2>1. PICK n \in 1 .. MaxWritten[s] : RelayFails(s, n)
      BY <1>2
    <2>2. n \in Nat
      BY CapIsNat
    <2>3. n <= written[s] - reader[s].got.total /\ Stopped(s, "done", TRUE, n)
      BY <2>1 DEF RelayFails
    <2> QED  BY <2>2, <2>3, StoppedKeeps
  <1>3. CASE ReadEnd(s)
    <2>1. /\ written[s] = reader[s].got.total /\ ~Open(s)
          /\ Stopped(s, "done", FALSE, 0)
      BY <1>3 DEF ReadEnd
    <2> QED  BY <2>1, ReadsCount, StoppedKeeps
  <1>4. CASE ReadFails(s)
    <2>1. CASE Shim
      <3>1. Stopped(s, "done", TRUE, 0)
        BY <1>4, <2>1 DEF ReadFails
      <3> QED  BY <3>1, ReadsCount, StoppedKeeps
    <2>2. CASE ~Shim
      <3>1. Stopped(s, "failed", FALSE, 0)
        BY <1>4, <2>2 DEF ReadFails
      <3> QED  BY <2>2, <3>1, ReadsCount, StoppedKeeps
    <2> QED  BY <2>1, <2>2
  <1> QED  BY <1>1, <1>2, <1>3, <1>4 DEF ReaderStep

-----------------------------------------------------------------------------
(* The program.                                                            *)

LEMMA SpawnKeeps ==
    ASSUME CInv, pc # "ended", Spawn
    PROVE  CInv'
  <1> USE DEF CInv, Spawn, readVars, loopVars
  <1>1. TypeOK'
    <2>1. Child \in OsProcess /\ Pipes \in SUBSET Stream /\ (~Shim) \in BOOLEAN
      BY DEF OsProcess, Pipes, Stream, Shim
    <2> QED  BY <2>1 DEF TypeOK
  <1>2. ReadersHold'
    BY DEF TypeOK, ReadersHold, CapOf, Reader, Capture
  <1>3. EndsHold'
    BY DEF EndsHold, StepsHold
  <1>4. ExitHolds'
    BY DEF ExitHolds, StepsHold
  <1>5. StepsHold'
    BY DEF TypeOK, StepsHold, Shim, Pipes, Alive
  <1>6. AbsenceIsProved'
    BY DEF StepsHold, AbsenceIsProved
  <1> QED  BY <1>1, <1>2, <1>3, <1>4, <1>5, <1>6

LEMMA BeginKeeps ==
    ASSUME CInv, pc # "ended", Begin
    PROVE  CInv'
  <1> USE DEF CInv, Begin, readVars, loopVars
  <1>1. TypeOK'
    BY DEF TypeOK
  <1>2. ReadersHold'
    BY DEF TypeOK, ReadersHold, CapOf, Reader, Capture
  <1>3. EndsHold'
    BY DEF TypeOK, EndsHold, Open, Alive, Reader
  <1>4. ExitHolds'
    BY DEF TypeOK, ExitHolds, OsProcess, Alive
  <1>5. StepsHold'
    BY DEF TypeOK, StepsHold, Shim, Pipes, Alive
  <1>6. AbsenceIsProved'
    BY DEF StepsHold, AbsenceIsProved
  <1> QED  BY <1>1, <1>2, <1>3, <1>4, <1>5, <1>6

LEMMA CancelKeeps ==
    ASSUME CInv, pc # "ended", Cancel
    PROVE  CInv'
  <1> USE DEF CInv, Cancel, readVars, loopVars
  <1>1. TypeOK'
    BY DEF TypeOK
  <1>2. ReadersHold'
    BY DEF TypeOK, ReadersHold, CapOf, Reader, Capture
  <1>3. EndsHold'
    BY DEF TypeOK, EndsHold, Open, Alive, Reader
  <1>4. ExitHolds'
    BY DEF TypeOK, ExitHolds, OsProcess, Alive
  <1>5. StepsHold'
    BY DEF TypeOK, StepsHold, Shim, Pipes, Alive
  <1>6. AbsenceIsProved'
    BY DEF StepsHold, AbsenceIsProved
  <1> QED  BY <1>1, <1>2, <1>3, <1>4, <1>5, <1>6

LEMMA GiveUpKeeps ==
    ASSUME CInv, pc # "ended", NEW s \in Stream, GiveUpReading(s)
    PROVE  CInv'
  <1> USE DEF CInv, GiveUpReading, Listening, loopVars
  <1>1. TypeOK'
    BY DEF TypeOK, Reader, ReaderState
  <1>2. ReadersHold'
    BY DEF TypeOK, ReadersHold, CapOf, Reader, Capture
  <1>3. EndsHold'
    BY DEF TypeOK, EndsHold, Open, Alive, Reader
  <1>4. ExitHolds'
    BY DEF TypeOK, ExitHolds, OsProcess, Alive
  <1>5. StepsHold'
    BY DEF TypeOK, StepsHold, Shim, Pipes, Alive
  <1>6. AbsenceIsProved'
    BY DEF StepsHold, AbsenceIsProved
  <1> QED  BY <1>1, <1>2, <1>3, <1>4, <1>5, <1>6

\* Killing takes writers away and gives none.
LEMMA InterruptKeeps ==
    ASSUME CInv, pc # "ended", NEW why \in {"timeout", "cancelled", "error"}, ~Shim, pc = "waiting", Interrupt(why)
    PROVE  CInv'
  <1> USE DEF CInv, Interrupt, KillGroup, Killed, readVars, loopVars
  <1>1. TypeOK'
    BY DEF TypeOK
  <1>2. ReadersHold'
    BY DEF TypeOK, ReadersHold, CapOf, Reader, Capture
  <1>3. EndsHold'
    BY DEF TypeOK, EndsHold, Open, Alive, Reader
  <1>4. ExitHolds'
    BY DEF TypeOK, ExitHolds, OsProcess, Alive
  <1>5. StepsHold'
    BY DEF TypeOK, StepsHold, Shim, Pipes, Alive
  <1>6. AbsenceIsProved'
    BY DEF StepsHold, AbsenceIsProved
  <1> QED  BY <1>1, <1>2, <1>3, <1>4, <1>5, <1>6

\* The capture ends with a report, and nothing else happens.
LEMMA EndKeeps ==
    ASSUME CInv, pc # "ended", pc' = "ended", IsReport(report'),
           status' \in {status, exit}, joined' \subseteq Stream,
           \A s \in joined' : reader[s].state = "done",
           AbsenceIsProved',
           UNCHANGED <<kind, os, exit, written, closed, deadline, cancelled,
                       readVars, cause>>
    PROVE  CInv'
  <1> USE DEF CInv, readVars
  <1>1. TypeOK'
    BY DEF TypeOK
  <1>2. ReadersHold'
    BY DEF ReadersHold, CapOf
  <1>3. EndsHold'
    BY DEF EndsHold, Open, Alive
  <1>4. ExitHolds'
    BY DEF ExitHolds
  <1>5. StepsHold'
    BY DEF StepsHold, Shim, Pipes, Alive
  <1> QED  BY <1>1, <1>2, <1>3, <1>4, <1>5

\* When the child has exited and every pipe was read to its end, what is
\* recorded as able to prove absence has it all.
LEMMA WholeCapture ==
    ASSUME CInv, exit # None, \A s \in Pipes : reader[s].state = "done",
           NEW content \in Contents,
           report' = Recorded("exited", exit, [s \in Stream |-> reader[s].got],
                              chunks, content.redacted, content.windowed),
           UNCHANGED <<os, exit, written>>
    PROVE  IsReport(report') /\ AbsenceIsProved'
  <1> DEFINE streams == [s \in Stream |-> reader[s].got]
  <1>1. content.redacted \in BOOLEAN /\ content.windowed \in BOOLEAN
    BY DEF Contents
  <1>2. DOMAIN streams = Stream
    OBVIOUS
  <1>3. /\ "exited" \in Outcome /\ exit \in Codes \cup {None}
        /\ chunks \in Seq([stream : Stream, n : Nat])
    BY DEF CInv, TypeOK, Outcome
  <1>4. IsReport(report')
    BY <1>1, <1>2, <1>3, RecordedIsReport
  <1>5. report'.code = exit /\ report'.streams = streams
    BY Zenon DEF Recorded
  <1>6. report'.proves => \A s \in Stream : ~streams[s].truncated
    BY <1>1, ProofIsWhole
  <1>7. ASSUME NEW s \in Stream, ~reader[s].got.truncated
        PROVE  reader[s].got.kept = written[s] /\ ~Open(s)
    <2>1. CASE s \in Pipes
      BY <1>7, <2>1 DEF CInv, EndsHold, ReadersHold
    <2>2. CASE s \notin Pipes
      <3>1. written[s] = 0 /\ ~Open(s)
        BY <2>2 DEF CInv, StepsHold, Open
      <3>2. /\ reader[s].got.kept \in Nat /\ reader[s].got.total \in Nat
            /\ reader[s].got.kept <= reader[s].got.total
            /\ reader[s].got.total <= written[s]
        BY DEF CInv, TypeOK, Reader, Capture, ReadersHold
      <3> QED  BY <3>1, <3>2
    <2> QED  BY <2>1, <2>2
  <1>8. AbsenceIsProved'
    <2>1. ASSUME report'.proves, NEW s \in Stream
          PROVE  report'.streams[s].kept = written'[s] /\ ~Open(s)'
      <3>1. ~reader[s].got.truncated
        BY <1>6, <2>1
      <3>2. Open(s)' <=> Open(s)
        BY DEF Open, Alive
      <3> QED  BY <1>5, <1>7, <3>1, <3>2
    <2>2. exit' # None /\ report'.code = exit'
      BY <1>5
    <2> QED  BY <2>1, <2>2 DEF AbsenceIsProved
  <1> QED  BY <1>4, <1>8

LEMMA SpawnFailsKeeps ==
    ASSUME CInv, SpawnFails
    PROVE  CInv'
  <1> DEFINE nothing == [s \in Stream |-> NothingCaptured]
             r == Recorded("spawn_error", None, nothing, <<>>, FALSE, FALSE)
  <1>1. /\ pc # "ended" /\ pc' = "ended"
        /\ report' = IF kind = "run" THEN r ELSE Failed("spawn_error")
        /\ UNCHANGED <<kind, os, exit, written, closed, deadline, cancelled,
                       readVars, joined, status, cause>>
    BY DEF SpawnFails, End, loopVars
  <1>2. IsReport(r) /\ r.outcome = "spawn_error"
    <2>1. DOMAIN nothing = Stream /\ "spawn_error" \in Outcome
      BY DEF Outcome
    <2>2. <<>> \in Seq([stream : Stream, n : Nat]) /\ None \in Codes \cup {None}
      OBVIOUS
    <2> HIDE DEF nothing
    <2> QED  BY <2>1, <2>2, RecordedIsReport
  <1>3. IsReport(Failed("spawn_error")) /\ Failed("spawn_error").proves = FALSE
    BY FailedIsReport DEF Outcome
  <1> HIDE DEF r
  <1>4. IsReport(report') /\ AbsenceIsProved'
    BY <1>1, <1>2, <1>3 DEF AbsenceIsProved
  <1>5. joined \subseteq Stream /\ \A s \in joined : reader[s].state = "done"
    BY DEF CInv, TypeOK, StepsHold
  <1> QED  BY <1>1, <1>4, <1>5, EndKeeps

\* What fails proves nothing.
LEMMA FailedProvesNothing ==
    ASSUME NEW outcome \in Outcome, report' = Failed(outcome)
    PROVE  IsReport(report') /\ AbsenceIsProved'
  BY FailedIsReport DEF AbsenceIsProved

LEMMA DieKeeps ==
    ASSUME CInv, pc # "ended", Die
    PROVE  CInv'
  <1> USE DEF CInv, Die, End, readVars, loopVars
  <1>1. TypeOK'
    <2>1. IsReport(report')
      BY FailedProvesNothing DEF Outcome
    <2>2. reader' \in [Stream -> Reader]
      BY DEF TypeOK, Reader, ReaderState
    <2> QED  BY <2>1, <2>2 DEF TypeOK
  <1>2. ReadersHold'
    BY DEF TypeOK, ReadersHold, CapOf, Reader, Capture
  <1>3. EndsHold'
    BY DEF TypeOK, EndsHold, Open, Alive, Reader
  <1>4. ExitHolds'
    BY DEF TypeOK, ExitHolds, OsProcess, Alive
  <1>5. StepsHold'
    BY FailedProvesNothing DEF StepsHold, Shim, Pipes, Alive, TypeOK, Outcome
  <1>6. AbsenceIsProved'
    BY FailedProvesNothing DEF Outcome
  <1> QED  BY <1>1, <1>2, <1>3, <1>4, <1>5, <1>6

LEMMA DropCallKeeps ==
    ASSUME CInv, pc # "ended", DropCall
    PROVE  CInv'
  <1> USE DEF CInv, DropCall, End, KillGroup, Killed, Listening, loopVars
  <1>1. TypeOK'
    <2>1. IsReport(report')
      BY FailedProvesNothing DEF Outcome
    <2>2. reader' \in [Stream -> Reader]
      BY DEF TypeOK, Reader, ReaderState
    <2> QED  BY <2>1, <2>2 DEF TypeOK
  <1>2. ReadersHold'
    BY DEF TypeOK, ReadersHold, CapOf, Reader, Capture
  <1>3. EndsHold'
    BY DEF TypeOK, EndsHold, Open, Alive, Reader
  <1>4. ExitHolds'
    BY DEF TypeOK, ExitHolds, OsProcess, Alive
  <1>5. StepsHold'
    BY FailedProvesNothing DEF StepsHold, Shim, Pipes, Alive, TypeOK, Outcome
  <1>6. AbsenceIsProved'
    BY FailedProvesNothing DEF Outcome
  <1> QED  BY <1>1, <1>2, <1>3, <1>4, <1>5, <1>6

\* What was seen may have been the last that was missing.
LEMMA ProgressKeeps ==
    ASSUME CInv, pc = "waiting", NEW exited \in {status, exit},
           NEW have, have \subseteq Stream,
           \A s \in have : reader[s].state = "done",
           Progress(exited, have)
    PROVE  CInv'
  <1>1. /\ status' = exited /\ joined' = have
        /\ UNCHANGED <<kind, os, exit, written, closed, deadline, cancelled,
                       readVars, cause>>
    BY DEF Progress
  <1>2. exited # None => exited = exit
    BY DEF CInv, ExitHolds
  <1>3. CASE exited # None /\ have = Stream
    <2>1. PICK content \in Contents : Complete(exited, have, content)
      BY <1>3 DEF Progress
    <2>2. /\ pc' = "ended"
          /\ report' = Recorded("exited", exit, [s \in Stream |-> reader[s].got],
                                chunks, content.redacted, content.windowed)
      BY <1>2, <1>3, <2>1 DEF Complete, End
    <2>3. exit # None /\ \A s \in Pipes : reader[s].state = "done"
      BY <1>2, <1>3 DEF Pipes, Stream
    <2>4. IsReport(report') /\ AbsenceIsProved'
      BY <1>1, <2>2, <2>3, WholeCapture
    <2> QED  BY <1>1, <2>2, <2>4, EndKeeps
  <1>4. CASE ~(exited # None /\ have = Stream)
    <2> USE <1>1 DEF CInv, readVars
    <2>0. UNCHANGED <<pc, report>>
      BY <1>4 DEF Progress
    <2>1. TypeOK'
      BY <2>0 DEF TypeOK
    <2>2. ReadersHold'
      BY DEF ReadersHold, CapOf
    <2>3. EndsHold'
      BY DEF EndsHold, Open, Alive
    <2>4. ExitHolds'
      BY <1>2 DEF ExitHolds
    <2>5. StepsHold'
      BY <2>0 DEF StepsHold, Shim, Pipes, Alive
    <2>6. AbsenceIsProved'
      BY <2>0 DEF StepsHold, AbsenceIsProved
    <2> QED  BY <2>1, <2>2, <2>3, <2>4, <2>5, <2>6
  <1> QED  BY <1>3, <1>4

LEMMA SeeKeeps ==
    ASSUME CInv, SeeExit \/ \E s \in Stream : SeeReader(s)
    PROVE  CInv'
  <1>1. joined \subseteq Stream /\ \A s \in joined : reader[s].state = "done"
    BY DEF CInv, TypeOK, StepsHold
  <1>2. CASE SeeExit
    <2>1. pc = "waiting" /\ Progress(exit, joined)
      BY <1>2 DEF SeeExit, Undisturbed, Waits
    <2> QED  BY <1>1, <2>1, ProgressKeeps
  <1>3. ASSUME NEW s \in Stream, SeeReader(s)
        PROVE  CInv'
    <2>1. pc = "waiting" /\ ~Shim
      BY <1>3 DEF SeeReader, Undisturbed, Waits
    <2>2. CASE reader[s].state = "done"
      <3>1. Progress(status, joined \cup {s})
        BY <1>3, <2>2 DEF SeeReader
      <3>2. /\ joined \cup {s} \subseteq Stream
            /\ \A z \in joined \cup {s} : reader[z].state = "done"
        BY <1>1, <2>2
      <3> QED  BY <2>1, <3>1, <3>2, ProgressKeeps
    <2>3. CASE reader[s].state # "done"
      <3>1. Interrupt("error")
        BY <1>3, <2>3 DEF SeeReader
      <3> QED  BY <2>1, <3>1, InterruptKeeps
    <2> QED  BY <2>2, <2>3
  <1> QED  BY <1>2, <1>3

LEMMA ConcludeKeeps ==
    ASSUME CInv, Conclude
    PROVE  CInv'
  <1>1. /\ pc # "ended" /\ pc' = "ended"
        /\ UNCHANGED <<kind, os, exit, written, closed, deadline, cancelled,
                       readVars, joined, status, cause>>
    BY DEF Conclude, End, loopVars
  <1>2. cause \in {"timeout", "cancelled", "error"}
    BY DEF CInv, StepsHold, Conclude
  <1>3. cause \in Outcome
    BY <1>2 DEF Outcome
  <1>4. IsReport(report') /\ AbsenceIsProved'
    <2>1. CASE kind = "run" /\ cause # "error"
      <3> DEFINE streams == [s \in Stream |-> IF reader[s].state = "done"
                                              THEN reader[s].got ELSE FromChunks(s)]
      <3>1. PICK content \in Contents :
                report' = Recorded(cause, None, streams, chunks, content.redacted,
                                   content.windowed)
        BY <2>1, Zenon DEF Conclude, End
      <3>2. content.redacted \in BOOLEAN /\ content.windowed \in BOOLEAN
        BY DEF Contents
      <3>3. DOMAIN streams = Stream
        OBVIOUS
      <3>4. chunks \in Seq([stream : Stream, n : Nat])
        BY DEF CInv, TypeOK
      <3> HIDE DEF streams
      <3>5. IsReport(report')
        BY <1>3, <3>1, <3>2, <3>3, <3>4, RecordedIsReport
      <3>6. ~report'.proves
        BY <1>2, <2>1, <3>1, <3>2, ProofIsWhole
      <3> QED  BY <3>5, <3>6 DEF AbsenceIsProved
    <2>2. CASE ~(kind = "run" /\ cause # "error")
      <3>1. report' = Failed(cause)
        BY <2>2 DEF Conclude, End
      <3> QED  BY <1>3, <3>1, FailedProvesNothing
    <2> QED  BY <2>1, <2>2
  <1>5. joined \subseteq Stream /\ \A s \in joined : reader[s].state = "done"
    BY DEF CInv, TypeOK, StepsHold
  <1> QED  BY <1>1, <1>4, <1>5, EndKeeps

LEMMA JoinRelaysKeeps ==
    ASSUME CInv, JoinRelays
    PROVE  CInv'
  <1>1. /\ pc = "waiting" /\ pc' = "ended" /\ Shim /\ exit # None
        /\ UNCHANGED <<kind, os, exit, written, closed, deadline, cancelled,
                       readVars, joined, status, cause>>
    BY DEF JoinRelays, End, loopVars
  <1>2. PICK content \in Contents :
            report' = Recorded("exited", exit, [s \in Stream |-> reader[s].got],
                               chunks, content.redacted, content.windowed)
    BY Zenon DEF JoinRelays, End
  <1>3. \A s \in Pipes : reader[s].state = "done"
    BY <1>1 DEF JoinRelays, Listening, CInv, StepsHold, Pipes, Stream
  <1>4. IsReport(report') /\ AbsenceIsProved'
    BY <1>1, <1>2, <1>3, WholeCapture
  <1>5. joined \subseteq Stream /\ \A s \in joined : reader[s].state = "done"
    BY DEF CInv, TypeOK, StepsHold
  <1> QED  BY <1>1, <1>4, <1>5, EndKeeps

-----------------------------------------------------------------------------
(* The theorems.                                                           *)

LEMMA InitHolds == Init => CInv
  <1> SUFFICES ASSUME Init
               PROVE  CInv
    OBVIOUS
  <1>1. NothingCaptured \in Capture
    BY DEF NothingCaptured, Capture
  <1>2. TypeOK
    <2>1. deadline \in {"none", "ahead"}
      BY DEF Init
    <2>2. reader \in [Stream -> Reader]
      BY <1>1 DEF Init, Reader, ReaderState
    <2>3. os \in [OsProcess -> [state : {"none", "alive", "dead"},
                                grouped : BOOLEAN, holds : SUBSET Stream]]
      BY DEF Init
    <2>4. chunks \in Seq([stream : Stream, n : Nat])
      BY DEF Init
    <2>5. written \in [Stream -> Nat] /\ relayed \in [Stream -> Nat]
      BY DEF Init
    <2> QED  BY <2>1, <2>2, <2>3, <2>4, <2>5 DEF Init, TypeOK
  <1>3. ReadersHold
    BY CapIsNat DEF Init, ReadersHold, NothingCaptured
  <1>4. EndsHold /\ ExitHolds /\ AbsenceIsProved
    BY DEF Init, EndsHold, ExitHolds, AbsenceIsProved
  <1>5. StepsHold
    BY DEF Init, StepsHold, Alive
  <1> QED  BY <1>2, <1>3, <1>4, <1>5 DEF CInv

LEMMA NextKeeps == CInv /\ [Next]_vars => CInv'
  <1> SUFFICES ASSUME CInv, [Next]_vars
               PROVE  CInv'
    OBVIOUS
  <1>1. CASE pc # "ended" /\ OsStep
    BY <1>1, WriteKeeps, ForkKeeps, ExitKeeps, CloseKeeps, DeadlineKeeps
    DEF OsStep
  <1>2. ASSUME NEW s \in Stream, ReaderStep(s) \/ ReadFails(s)
        PROVE  CInv'
    <2>1. pc # "ended"
      BY <1>2 DEF ReaderStep, ReadFails, Read, RelayFails, ReadEnd, Stopped, Reads
    <2> QED  BY <1>2, <2>1, ReaderKeeps
  <1>3. CASE Spawn \/ Die \/ Cancel
    <2>1. pc # "ended"
      BY <1>3 DEF Spawn, Die, Cancel
    <2> QED  BY <1>3, <2>1, SpawnKeeps, DieKeeps, CancelKeeps
  <1>4. CASE SpawnFails
    BY <1>4, SpawnFailsKeeps
  <1>5. CASE MainStep
    <2>1. CASE Begin \/ DropCall
      <3>1. pc # "ended"
        BY <2>1 DEF Begin, DropCall
      <3> QED  BY <2>1, <3>1, BeginKeeps, DropCallKeeps
    <2>2. CASE SeeSignal \/ SeeDeadline
      <3>1. PICK why \in {"timeout", "cancelled", "error"} : Interrupt(why)
        BY <2>2 DEF SeeSignal, SeeDeadline
      <3>2. ~Shim /\ pc = "waiting"
        BY <2>2 DEF SeeSignal, SeeDeadline, Waits
      <3> QED  BY <3>1, <3>2, InterruptKeeps
    <2>3. CASE SeeExit \/ \E s \in Stream : SeeReader(s)
      BY <2>3, SeeKeeps
    <2>4. ASSUME NEW s \in Stream, GiveUpReading(s)
          PROVE  CInv'
      <3>1. pc # "ended"
        BY <2>4 DEF GiveUpReading
      <3> QED  BY <2>4, <3>1, GiveUpKeeps
    <2>5. CASE Conclude \/ JoinRelays
      BY <2>5, ConcludeKeeps, JoinRelaysKeeps
    <2> QED  BY <1>5, <2>1, <2>2, <2>3, <2>4, <2>5 DEF MainStep
  <1>6. CASE UNCHANGED vars
    <2> USE <1>6 DEF CInv, vars
    <2>1. TypeOK'
      BY DEF TypeOK
    <2>2. ReadersHold' /\ EndsHold' /\ ExitHolds'
      BY DEF ReadersHold, CapOf, EndsHold, Open, Alive, ExitHolds
    <2>3. StepsHold'
      BY DEF StepsHold, Shim, Pipes, Alive
    <2>4. AbsenceIsProved'
      BY DEF AbsenceIsProved, Open, Alive
    <2> QED  BY <2>1, <2>2, <2>3, <2>4
  <1> QED  BY <1>1, <1>2, <1>3, <1>4, <1>5, <1>6 DEF Next

\* In every state of every capture the readers know what they lack, and who has
\* seen the end of a stream has seen all of it.
THEOREM CommandInvariant == Spec => []CInv
  <1> QED  BY InitHolds, NextKeeps, PTL DEF Spec

\* What is recorded as able to prove absence is the whole output of a command
\* that has exited (run_capture_completeness, adapter_capture), for all caps,
\* streams and descendants.
THEOREM ProofsAreWhole == Spec => []AbsenceIsProved
  <1>1. CInv => AbsenceIsProved
    BY DEF CInv
  <1> QED  BY <1>1, CommandInvariant, PTL

-----------------------------------------------------------------------------
(* Nothing of an interrupted group is left.                                *)

LEMMA OutcomeOf ==
    ASSUME NEW o, NEW code, NEW streams, NEW combined, NEW redacted, NEW windowed
    PROVE  /\ Recorded(o, code, streams, combined, redacted, windowed).outcome = o
           /\ Failed(o).outcome = o
  BY DEF Recorded, Failed

LEMMA KillEmpties ==
    ASSUME CInv, KillGroup
    PROVE  \A q \in OsProcess : ~Killed(q)'
  BY DEF KillGroup, Killed, Alive, CInv, TypeOK

LEMMA GoneStaysGone ==
    ASSUME CInv, GroupIsGone, NothingOutlives, [Next]_vars
    PROVE  GroupIsGone' /\ NothingOutlives'
  <1> DEFINE Gone == \A q \in OsProcess : ~Killed(q)
  <1>1. ASSUME pc' = pc, pc # "ended", pc = "draining" => Gone'
        PROVE  GroupIsGone' /\ NothingOutlives'
    BY <1>1 DEF GroupIsGone, NothingOutlives
  <1>2. ASSUME UNCHANGED <<pc, os>>, pc # "ended"
        PROVE  GroupIsGone' /\ NothingOutlives'
    BY <1>2 DEF GroupIsGone, NothingOutlives, Killed, Alive
  <1>3. ASSUME pc' = "ended", Gone' \/ report'.outcome \in {"exited", "died"}
        PROVE  GroupIsGone' /\ NothingOutlives'
    BY <1>3 DEF GroupIsGone, NothingOutlives
  <1>4. CASE pc # "ended" /\ OsStep
    <2>1. ASSUME NEW q \in OsProcess, NEW d \in Descendant,
                 NEW holds \in SUBSET Stream, NEW grouped \in BOOLEAN,
                 Fork(q, d, holds, grouped)
          PROVE  GroupIsGone' /\ NothingOutlives'
      <3>1. pc = "draining" => Gone'
        BY <2>1, ProcessAssumption
        DEF Fork, GroupIsGone, Killed, Alive, CInv, TypeOK, OsProcess
      <3> QED  BY <1>1, <1>4, <2>1, <3>1 DEF Fork
    <2>2. ASSUME NEW q \in OsProcess, NEW code \in Codes, Exit(q, code)
          PROVE  GroupIsGone' /\ NothingOutlives'
      <3>1. pc = "draining" => Gone'
        BY <2>2 DEF Exit, GroupIsGone, Killed, Alive, CInv, TypeOK
      <3> QED  BY <1>1, <1>4, <2>2, <3>1 DEF Exit
    <2>3. CASE \/ \E q \in OsProcess, s \in Stream : Write(q, s)
               \/ \E s \in Stream : CloseDownstream(s)
               \/ DeadlinePasses
      BY <1>2, <1>4, <2>3 DEF Write, CloseDownstream, DeadlinePasses
    <2> QED  BY <1>4, <2>1, <2>2, <2>3 DEF OsStep
  <1>5. CASE \/ \E s \in Stream : ReaderStep(s) \/ ReadFails(s)
                                  \/ GiveUpReading(s)
             \/ Cancel
    BY <1>2, <1>5, ZenonT(60) DEF ReaderStep, ReadFails, Read, RelayFails, ReadEnd, Stopped,
                      Reads, GiveUpReading, Cancel
  <1>6. CASE Spawn \/ Begin
    BY <1>6 DEF Spawn, Begin, GroupIsGone, NothingOutlives
  <1>7. CASE SpawnFails
    <2>1. pc' = "ended" /\ Gone /\ UNCHANGED os
      BY <1>7 DEF SpawnFails, End, CInv, StepsHold, Killed
    <2> QED  BY <1>3, <2>1 DEF Killed, Alive
  <1>8. CASE Die \/ JoinRelays
    <2>1. pc' = "ended" /\ report'.outcome \in {"exited", "died"}
      <3>1. CASE Die
        BY <3>1, OutcomeOf DEF Die, End
      <3>2. CASE JoinRelays
        <4>1. PICK content \in Contents :
                  End(Recorded("exited", exit, [s \in Stream |-> reader[s].got],
                               chunks, content.redacted, content.windowed))
          BY <3>2 DEF JoinRelays
        <4> QED  BY <4>1, OutcomeOf DEF End
      <3> QED  BY <1>8, <3>1, <3>2
    <2> QED  BY <1>3, <2>1
  <1>9. CASE DropCall
    BY <1>3, <1>9, KillEmpties DEF DropCall, End
  <1>10. ASSUME NEW why, Interrupt(why)
         PROVE  GroupIsGone' /\ NothingOutlives'
    BY <1>10, KillEmpties DEF Interrupt, GroupIsGone, NothingOutlives
  <1>11. ASSUME NEW exited, NEW have, Progress(exited, have), pc = "waiting"
         PROVE  GroupIsGone' /\ NothingOutlives'
    <2>1. CASE exited # None /\ have = Stream
      <3>1. PICK content \in Contents : Complete(exited, have, content)
        BY <1>11, <2>1 DEF Progress
      <3>2. pc' = "ended" /\ report'.outcome = "exited"
        BY <3>1, OutcomeOf DEF Complete, End
      <3> QED  BY <1>3, <3>2
    <2>2. CASE ~(exited # None /\ have = Stream)
      BY <1>2, <1>11, <2>2 DEF Progress
    <2> QED  BY <2>1, <2>2
  <1>12. CASE SeeSignal \/ SeeDeadline
    BY <1>10, <1>12 DEF SeeSignal, SeeDeadline
  <1>13. CASE SeeExit \/ \E s \in Stream : SeeReader(s)
    BY <1>10, <1>11, <1>13, Zenon DEF SeeExit, SeeReader, Undisturbed, Waits
  <1>14. CASE Conclude
    <2>1. pc' = "ended" /\ Gone /\ UNCHANGED os
      BY <1>14 DEF Conclude, End, GroupIsGone
    <2> QED  BY <1>3, <2>1 DEF Killed, Alive
  <1>15. CASE UNCHANGED vars
    BY <1>15 DEF vars, GroupIsGone, NothingOutlives, Killed, Alive
  <1> QED  BY <1>4, <1>5, <1>6, <1>7, <1>8, <1>9, <1>12, <1>13, <1>14, <1>15
           DEF Next, MainStep

\* When a capture was interrupted, or was dropped, no process of the group it
\* started is left (OwnedProcessGroup), whatever the group forked meanwhile and
\* whether or not the child had been reaped.
THEOREM NothingIsLeft == Spec => []NothingOutlives
  <1>1. Init => GroupIsGone /\ NothingOutlives
    BY DEF Init, GroupIsGone, NothingOutlives
  <1> QED  BY <1>1, CommandInvariant, GoneStaysGone, PTL DEF Spec

-----------------------------------------------------------------------------
(* What was read is kept, in each stream and in the combined view.         *)

Chunk == [stream : Stream, n : Nat]

\* The bytes of a stream among some chunks, as a sum over their positions.
Sizes(seq) == [i \in DOMAIN seq |-> seq[i].n]
Places(s, seq) == {i \in DOMAIN seq : seq[i].stream = s}

LEMMA ChunkSum ==
    ASSUME NEW s, NEW seq \in Seq(Chunk)
    PROVE  /\ InChunks(s, seq) = SumOver(Sizes(seq), Places(s, seq))
           /\ Sizes(seq) \in [DOMAIN seq -> Nat]
           /\ Places(s, seq) \in SUBSET (DOMAIN seq)
           /\ IsFiniteSet(Places(s, seq))
  <1>1. InChunks(s, seq) = SumOver(Sizes(seq), Places(s, seq))
    BY SumOfFunction DEF InChunks, Sizes, Places
  <1>2. Sizes(seq) \in [DOMAIN seq -> Nat]
    <2>1. \A i \in DOMAIN seq : seq[i] \in Chunk
      BY ElementOfSeq, LenProperties
    <2>2. \A i \in DOMAIN seq : seq[i].n \in Nat
      BY <2>1 DEF Chunk
    <2> QED  BY <2>2, Zenon DEF Sizes
  <1>3. Places(s, seq) \in SUBSET (DOMAIN seq)
    BY DEF Places
  <1>4. IsFiniteSet(DOMAIN seq)
    <2>1. DOMAIN seq = 1 .. Len(seq) /\ Len(seq) \in Nat
      OBVIOUS
    <2> QED  BY <2>1, FS_Interval
  <1> QED  BY <1>1, <1>2, <1>3, <1>4, FS_Subset

LEMMA NoChunks == \A s : InChunks(s, <<>>) = 0
  <1> TAKE s
  <1>1. <<>> \in Seq(Chunk) /\ DOMAIN <<>> = {}
    <2>1. <<>> \in Seq(Chunk) /\ Len(<<>>) = 0
      OBVIOUS
    <2>2. DOMAIN <<>> = 1 .. Len(<<>>)
      BY <2>1, LenProperties
    <2> QED  BY <2>1, <2>2
  <1>2. Places(s, <<>>) = {}
    BY <1>1, ChunkSum
  <1>3. InChunks(s, <<>>) = SumOver(Sizes(<<>>), {})
    BY <1>1, <1>2, ChunkSum
  <1> QED  BY <1>1, <1>3, ChunkSum, EmptySum

\* A chunk more is its bytes more, of its stream.
LEMMA OneMoreChunk ==
    ASSUME NEW s, NEW seq \in Seq(Chunk), NEW c \in Chunk
    PROVE  InChunks(s, Append(seq, c)) =
              IF c.stream = s THEN c.n + InChunks(s, seq) ELSE InChunks(s, seq)
  <1> DEFINE more == Append(seq, c)
             last == Len(seq) + 1
  <1>1. /\ more \in Seq(Chunk) /\ more[last] = c
        /\ DOMAIN more = DOMAIN seq \cup {last}
        /\ last \notin DOMAIN seq
        /\ \A i \in DOMAIN seq : more[i] = seq[i]
    OBVIOUS
  <1> HIDE DEF more, last
  <1>2. InChunks(s, more) = SumOver(Sizes(more), Places(s, more))
    BY <1>1, ChunkSum
  <1>3. InChunks(s, seq) = SumOver(Sizes(seq), Places(s, seq))
    BY ChunkSum
  <1>4. SumOver(Sizes(seq), Places(s, seq))
          = SumOver(Sizes(more), Places(s, seq))
    <2> DEFINE old == Sizes(seq)
               new == Sizes(more)
               where == Places(s, seq)
               before == DOMAIN seq
               after == DOMAIN more
    <2>1. old \in [before -> Nat] /\ where \in SUBSET before /\ IsFiniteSet(where)
      BY ChunkSum
    <2>2. new \in [after -> Nat]
      BY <1>1, ChunkSum
    <2>3. before \subseteq after
      BY <1>1
    <2>4. \A i \in where : old[i] = new[i]
      BY <1>1 DEF Sizes, Places
    <2> HIDE DEF old, new, where, before, after
    <2>5. where \in SUBSET after
      BY <2>1, <2>3
    <2>6. SumOver(old, where) = SumOver(new, where)
      BY <2>1, <2>2, <2>4, <2>5, SumAgrees, SMTT(60)
    <2> QED  BY <2>6 DEF old, new, where
  <1>5. CASE c.stream = s
    <2>1. /\ last \in Places(s, more)
          /\ Places(s, more) \ {last} = Places(s, seq)
      BY <1>1, <1>5 DEF Places
    <2>2. SumOver(Sizes(more), Places(s, more))
            = Sizes(more)[last] + SumOver(Sizes(more), Places(s, seq))
      <3>1. /\ Sizes(more) \in [DOMAIN more -> Nat]
            /\ Places(s, more) \in SUBSET (DOMAIN more)
            /\ IsFiniteSet(Places(s, more))
        BY <1>1, ChunkSum
      <3>2. SumOver(Sizes(more), Places(s, more))
              = Sizes(more)[last]
                + SumOver(Sizes(more), Places(s, more) \ {last})
        BY <2>1, <3>1, SumSplits
      <3> QED  BY <2>1, <3>2
    <2>3. Sizes(more)[last] = c.n
      BY <1>1 DEF Sizes
    <2> QED  BY <1>2, <1>3, <1>4, <1>5, <2>2, <2>3 DEF more
  <1>6. CASE c.stream # s
    <2>1. Places(s, more) = Places(s, seq)
      BY <1>1, <1>6 DEF Places
    <2> QED  BY <1>2, <1>3, <1>4, <1>6, <2>1 DEF more
  <1> QED  BY <1>5, <1>6

\* What a report says of the chunks that were kept.
LEMMA StreamsOf ==
    ASSUME NEW o, NEW code, NEW streams, NEW combined, NEW redacted, NEW windowed
    PROVE  LET r == Recorded(o, code, streams, combined, redacted, windowed)
           IN  r.streams = streams /\ r.combined = combined /\ r.code = code
  BY DEF Recorded

\* Reading adds to the combined view what it adds to its stream.
LEMMA ReadHoldsChunks ==
    ASSUME CInv, ChunksHold, NEW s \in Stream, NEW n \in 1 .. MaxWritten[s],
           Read(s, n)
    PROVE  ChunksHold'
  <1> DEFINE got == reader[s].got
             more == Extended(got, n, CapOf(s))
             new == more.kept - got.kept
             c == [stream |-> s, n |-> new]
  <1>1. /\ n \in Nat /\ CapOf(s) \in Nat
        /\ got \in Capture /\ got.kept <= got.total /\ got.kept <= CapOf(s)
        /\ got.truncated \/ got.kept = got.total
        /\ reader \in [Stream -> Reader] /\ chunks \in Seq(Chunk)
        /\ \A z \in Stream : reader[z] \in Reader /\ reader[z].got.kept \in Nat
    BY CapIsNat DEF CInv, TypeOK, Reader, Capture, ReadersHold, Chunk
  <1> HIDE DEF got
  <1>2. more.kept \in Nat /\ got.kept <= more.kept /\ got.kept \in Nat
    BY <1>1, ExtendedCapture DEF Capture
  <1>3. /\ reader' = [reader EXCEPT ![s].got = more]
        /\ chunks' = IF new > 0 THEN Append(chunks, c) ELSE chunks
        /\ pc' = pc /\ pc # "start"
    BY DEF Read, Reads, got
  <1> HIDE DEF more
  <1>4. new \in Nat /\ more.kept = got.kept + new
    BY <1>2
  <1>5. c \in Chunk /\ c.stream = s /\ c.n = new
    BY <1>4 DEF Chunk
  <1> HIDE DEF c, new
  <1>6. ASSUME NEW z \in Stream
        PROVE  InChunks(z, chunks') = reader'[z].got.kept
    <2>1. InChunks(z, chunks) = reader[z].got.kept
      BY DEF ChunksHold
    <2>2. InChunks(z, Append(chunks, c)) =
             IF s = z THEN new + InChunks(z, chunks) ELSE InChunks(z, chunks)
      BY <1>1, <1>5, OneMoreChunk
    <2>3. CASE z = s
      <3>1. reader'[z].got.kept = got.kept + new
        BY <1>1, <1>3, <1>4, <2>3 DEF Reader
      <3>2. InChunks(z, chunks) = got.kept
        BY <2>1, <2>3 DEF got
      <3> QED  BY <1>2, <1>3, <1>4, <2>2, <2>3, <3>1, <3>2
    <2>4. CASE z # s
      <3>1. reader'[z] = reader[z]
        BY <1>1, <1>3, <2>4
      <3> QED  BY <1>3, <2>1, <2>2, <2>4, <3>1
    <2> QED  BY <2>3, <2>4
  <1> QED  BY <1>3, <1>6 DEF ChunksHold

LEMMA StoppedHoldsChunks ==
    ASSUME CInv, ChunksHold, NEW s, NEW state, NEW truncated, NEW n,
           Stopped(s, state, truncated, n)
    PROVE  ChunksHold'
  <1> DEFINE r == reader[s]
             r2 == [state |-> state,
                    got |-> [kept |-> r.got.kept, total |-> r.got.total + n,
                             truncated |-> r.got.truncated \/ truncated]]
  <1>1. /\ reader' = [reader EXCEPT ![s] = r2] /\ s \in Stream
        /\ reader \in [Stream -> Reader] /\ chunks' = chunks /\ pc' = pc
    BY DEF Stopped, Pipes, Stream, CInv, TypeOK
  <1>2. r2.got.kept = reader[s].got.kept
    OBVIOUS
  <1> HIDE DEF r2
  <1>3. \A z \in Stream : reader'[z].got.kept = reader[z].got.kept
    BY <1>1, <1>2
  <1> QED  BY <1>1, <1>3 DEF ChunksHold

\* Every step either leaves the report alone and the chunks in order, or makes
\* a report of exactly what was kept.
LEMMA EvidenceIsKept ==
    ASSUME CInv, ChunksHold, InterruptionKeepsEvidence, [Next]_vars
    PROVE  ChunksHold' /\ InterruptionKeepsEvidence'
  <1> DEFINE Kept(s) == reader'[s].got.kept = reader[s].got.kept
  <1>1. /\ reader \in [Stream -> Reader]
        /\ \A s \in Stream : reader[s] \in Reader
        /\ pc # "ended" => report = None
    BY DEF CInv, TypeOK, StepsHold
  <1>2. ASSUME ChunksHold', report' = report, pc # "ended"
        PROVE  ChunksHold' /\ InterruptionKeepsEvidence'
    BY <1>1, <1>2 DEF InterruptionKeepsEvidence
  <1>3. ASSUME \A s \in Stream : Kept(s), chunks' = chunks, report' = report,
               pc # "ended", pc' = "start" => pc = "start"
        PROVE  ChunksHold' /\ InterruptionKeepsEvidence'
    BY <1>2, <1>3 DEF ChunksHold
  <1>4. ASSUME \A s \in Stream : Kept(s), chunks' = chunks, pc' = "ended",
               report'.evidence =>
                  /\ report'.combined = chunks
                  /\ \A s \in Stream :
                        report'.streams[s].kept = reader[s].got.kept
        PROVE  ChunksHold' /\ InterruptionKeepsEvidence'
    <2>1. ChunksHold'
      BY <1>4 DEF ChunksHold
    <2>2. ASSUME report'.evidence, NEW s \in Stream
          PROVE  /\ report'.streams[s].kept = reader'[s].got.kept
                 /\ report'.streams[s].kept = InChunks(s, report'.combined)
      BY <1>4, <2>2 DEF ChunksHold
    <2> QED  BY <2>1, <2>2 DEF InterruptionKeepsEvidence
  <1>5. ASSUME NEW o, NEW code, NEW streams, NEW redacted, NEW windowed,
               End(Recorded(o, code, streams, chunks, redacted, windowed)),
               UNCHANGED readVars,
               \A s \in Stream : streams[s].kept = reader[s].got.kept
        PROVE  ChunksHold' /\ InterruptionKeepsEvidence'
    <2>1. /\ pc' = "ended" /\ report'.streams = streams
          /\ report'.combined = chunks
      BY <1>5, StreamsOf DEF End
    <2> QED  BY <1>4, <1>5, <2>1 DEF readVars
  <1>6. ASSUME NEW o, End(Failed(o)), chunks' = chunks,
               \A s \in Stream : Kept(s)
        PROVE  ChunksHold' /\ InterruptionKeepsEvidence'
    <2>1. pc' = "ended" /\ report'.evidence = FALSE
      BY <1>6 DEF End, Failed
    <2> QED  BY <1>4, <1>6, <2>1
  <1>7. CASE \/ pc # "ended" /\ OsStep
             \/ Spawn \/ Cancel \/ Begin
             \/ \E why : Interrupt(why) /\ pc # "ended"
    <2>1. UNCHANGED <<reader, chunks, report>> /\ pc # "ended"
      BY <1>7, Zenon
      DEF OsStep, Write, Fork, Exit, CloseDownstream, DeadlinePasses, Spawn,
          Cancel, Begin, Interrupt, readVars
    <2>2. pc' = pc \/ pc' \in {"spawned", "waiting", "draining"}
      BY <1>7, Zenon
      DEF OsStep, Write, Fork, Exit, CloseDownstream, DeadlinePasses, Spawn,
          Cancel, Begin, Interrupt
    <2> QED  BY <1>3, <2>1, <2>2
  <1>8. ASSUME NEW s \in Stream, ReaderStep(s) \/ ReadFails(s)
        PROVE  ChunksHold' /\ InterruptionKeepsEvidence'
    <2>1. report' = report /\ pc # "ended"
      BY <1>8
      DEF ReaderStep, Read, ReadEnd, RelayFails, ReadFails, Stopped, Reads
    <2>2. ChunksHold'
      <3>1. CASE \E n \in 1 .. MaxWritten[s] : Read(s, n)
        BY <3>1, ReadHoldsChunks
      <3>2. CASE \E state, truncated, n : Stopped(s, state, truncated, n)
        BY <3>2, StoppedHoldsChunks
      <3> QED  BY <1>8, <3>1, <3>2, Zenon
               DEF ReaderStep, ReadEnd, RelayFails, ReadFails
    <2> QED  BY <1>2, <2>1, <2>2
  <1>9. CASE SpawnFails
    <2> DEFINE none == [s \in Stream |-> NothingCaptured]
    <2>1. /\ pc = "start" /\ UNCHANGED readVars
          /\ \/ End(Recorded("spawn_error", None, none, <<>>, FALSE, FALSE))
             \/ End(Failed("spawn_error"))
      BY <1>9 DEF SpawnFails
    <2>2. chunks = <<>> /\ \A s \in Stream : Kept(s)
      BY <2>1 DEF ChunksHold, readVars
    <2>3. \A s \in Stream : none[s].kept = reader[s].got.kept
      BY <2>2, NoChunks DEF ChunksHold, NothingCaptured
    <2> HIDE DEF none
    <2>4. UNCHANGED chunks
      BY <2>1 DEF readVars
    <2> QED  BY <1>5, <1>6, <2>1, <2>2, <2>3, <2>4
  <1>10. CASE \/ Die \/ DropCall
              \/ \E s \in Stream : GiveUpReading(s)
    <2> DEFINE aborted(r) == [r EXCEPT !.state = "aborted"]
    <2>1. \A s \in Stream : aborted(reader[s]).got = reader[s].got
      BY <1>1 DEF Reader
    <2> HIDE DEF aborted
    <2>2. CASE Die \/ DropCall
      <3>1. /\ chunks' = chunks /\ \E o : End(Failed(o))
            /\ reader' = [s \in Stream |-> aborted(reader[s])]
               \/ reader' = [s \in Stream |-> IF Listening(s)
                                            THEN aborted(reader[s])
                                            ELSE reader[s]]
        BY <2>2 DEF Die, DropCall, aborted
      <3>2. \A s \in Stream : Kept(s)
        BY <2>1, <3>1
      <3> QED  BY <1>6, <3>1, <3>2
    <2>3. ASSUME NEW s \in Stream, GiveUpReading(s)
          PROVE  ChunksHold' /\ InterruptionKeepsEvidence'
      <3>1. /\ reader' = [reader EXCEPT ![s] = aborted(reader[s])]
            /\ UNCHANGED <<chunks, report, pc>> /\ pc = "draining"
        BY <2>3 DEF GiveUpReading, aborted
      <3>2. \A z \in Stream : Kept(z)
        BY <1>1, <2>1, <3>1
      <3> QED  BY <1>3, <3>1, <3>2
    <2> QED  BY <1>10, <2>2, <2>3
  <1>11. ASSUME NEW exited, NEW have, Progress(exited, have), pc = "waiting"
         PROVE  ChunksHold' /\ InterruptionKeepsEvidence'
    <2>1. CASE exited # None /\ have = Stream
      <3>1. PICK content \in Contents : Complete(exited, have, content)
        BY <1>11, <2>1 DEF Progress
      <3>2. UNCHANGED readVars
        BY <1>11 DEF Progress
      <3> QED  BY <1>5, <3>1, <3>2 DEF Complete
    <2>2. CASE ~(exited # None /\ have = Stream)
      <3>1. UNCHANGED <<reader, chunks, report, pc>>
        BY <1>11, <2>2 DEF Progress, readVars
      <3> QED  BY <1>3, <1>11, <3>1
    <2> QED  BY <2>1, <2>2
  <1>12. CASE SeeExit \/ (\E s \in Stream : SeeReader(s))
              \/ SeeSignal \/ SeeDeadline
    BY <1>7, <1>11, <1>12, Zenon
    DEF SeeExit, SeeReader, SeeSignal, SeeDeadline, Undisturbed, Waits
  <1>13. CASE Conclude
    <2> DEFINE have == [s \in Stream |-> IF reader[s].state = "done"
                                         THEN reader[s].got ELSE FromChunks(s)]
    <2>1. /\ UNCHANGED readVars
          /\ \/ \E content \in Contents :
                   End(Recorded(cause, None, have, chunks, content.redacted,
                                content.windowed))
             \/ End(Failed(cause))
      BY <1>13 DEF Conclude
    <2>2. \A s \in Stream : have[s].kept = reader[s].got.kept
      BY DEF ChunksHold, FromChunks
    <2> HIDE DEF have
    <2>3. UNCHANGED <<reader, chunks>>
      BY <2>1 DEF readVars
    <2> QED  BY <1>5, <1>6, <2>1, <2>2, <2>3
  <1>14. CASE JoinRelays
    <2> DEFINE have == [s \in Stream |-> reader[s].got]
    <2>1. /\ UNCHANGED readVars
          /\ \E content \in Contents :
                End(Recorded("exited", exit, have, chunks, content.redacted,
                             content.windowed))
      BY <1>14 DEF JoinRelays
    <2>2. \A s \in Stream : have[s].kept = reader[s].got.kept
      OBVIOUS
    <2> HIDE DEF have
    <2> QED  BY <1>5, <2>1, <2>2
  <1>15. CASE UNCHANGED vars
    BY <1>15 DEF vars, readVars, ChunksHold, InterruptionKeepsEvidence
  <1> QED  BY <1>7, <1>8, <1>9, <1>10, <1>12, <1>13, <1>14, <1>15, Zenon
           DEF Next, MainStep

\* An interrupted capture keeps all that was read of each stream, also of a
\* reader that had to be aborted, and the combined view has the same
\* (capture_from_chunks), however chunks, signal and deadline raced.
THEOREM EvidenceSurvives == Spec => []InterruptionKeepsEvidence
  <1>1. Init => ChunksHold /\ InterruptionKeepsEvidence
    <2> SUFFICES ASSUME Init PROVE ChunksHold /\ InterruptionKeepsEvidence
      OBVIOUS
    <2>1. chunks = <<>> /\ report = None
          /\ \A s \in Stream : reader[s].got.kept = 0
      BY DEF Init, NothingCaptured
    <2> QED  BY <2>1, NoChunks DEF ChunksHold, InterruptionKeepsEvidence
  <1> QED  BY <1>1, CommandInvariant, EvidenceIsKept, PTL DEF Spec

-----------------------------------------------------------------------------
(* A shim hides nothing.                                                   *)

\* What was read for a consumer that is there has been passed on to it.
PassedOn == \A s \in Pipes \ closed : relayed[s] = reader[s].got.total

\* A relay passes on what it reads, and stops where it cannot.
LEMMA RelaysPassOn ==
    ASSUME CInv, Shim, PassedOn, NEW s \in Stream,
           ReaderStep(s) \/ ReadFails(s)
    PROVE  PassedOn'
  <1>1. /\ reader \in [Stream -> Reader] /\ reader[s] \in Reader
        /\ relayed \in [Stream -> Nat] /\ Pipes \in SUBSET Stream
        /\ reader[s].got.total \in Nat
    BY DEF CInv, TypeOK, Pipes, Stream, Reader, Capture
  <1>2. ASSUME NEW n \in 1 .. MaxWritten[s], Read(s, n)
        PROVE  PassedOn'
    <2> DEFINE more == Extended(reader[s].got, n, CapOf(s))
    <2>1. /\ reader' = [reader EXCEPT ![s].got = more]
          /\ relayed' = [relayed EXCEPT ![s] = @ + n]
          /\ closed' = closed /\ kind' = kind
      BY <1>2 DEF Read, Relay
    <2>2. more.total = reader[s].got.total + n
      BY DEF Extended
    <2> HIDE DEF more
    <2>3. /\ reader'[s].got = more /\ relayed'[s] = relayed[s] + n
          /\ \A z \in Stream \ {s} : /\ reader'[z] = reader[z]
                                     /\ relayed'[z] = relayed[z]
      BY <1>1, <2>1 DEF Reader
    <2> QED  BY <1>1, <2>1, <2>2, <2>3 DEF PassedOn, Pipes
  <1>3. ASSUME NEW state, NEW truncated, NEW n, Stopped(s, state, truncated, n),
               n = 0 \/ s \in closed
        PROVE  PassedOn'
    <2> DEFINE r == reader[s]
               r2 == [state |-> state,
                      got |-> [kept |-> r.got.kept, total |-> r.got.total + n,
                               truncated |-> r.got.truncated \/ truncated]]
    <2>1. /\ reader' = [reader EXCEPT ![s] = r2] /\ relayed' = relayed
          /\ closed' = closed /\ kind' = kind
      BY <1>3 DEF Stopped
    <2>2. r2.got.total = reader[s].got.total + n
      OBVIOUS
    <2> HIDE DEF r2
    <2>3. /\ reader'[s] = r2
          /\ \A z \in Stream \ {s} : reader'[z] = reader[z]
      BY <1>1, <2>1
    <2>4. /\ Pipes' = Pipes
          /\ s \notin closed => r2.got.total = reader[s].got.total
      BY <1>1, <1>3, <2>1, <2>2 DEF Pipes
    <2>5. ASSUME NEW z \in Pipes \ closed
          PROVE  relayed[z] = reader'[z].got.total
      <3>1. relayed[z] = reader[z].got.total
        BY DEF PassedOn
      <3>2. CASE z = s
        BY <2>3, <2>4, <3>1, <3>2
      <3>3. CASE z # s
        BY <1>1, <2>3, <3>1, <3>3
      <3> QED  BY <3>2, <3>3
    <2> QED  BY <2>1, <2>4, <2>5 DEF PassedOn
  <1>4. \/ \E n \in 1 .. MaxWritten[s] : Read(s, n)
        \/ \E state, truncated : Stopped(s, state, truncated, 0)
        \/ \E state, truncated, n :
              s \in closed /\ Stopped(s, state, truncated, n)
    BY Zenon DEF ReaderStep, ReadEnd, ReadFails, RelayFails
  <1> QED  BY <1>2, <1>3, <1>4, Zenon

LEMMA ShimsStayTransparent ==
    ASSUME CInv, ShimIsTransparent, [Next]_vars
    PROVE  ShimIsTransparent'
  <1>1. /\ reader \in [Stream -> Reader]
        /\ \A s \in Stream : reader[s] \in Reader
        /\ pc # "ended" => report = None
    BY DEF CInv, TypeOK, StepsHold
  <1>2. kind' = kind
    BY Zenon
    DEF Next, OsStep, Write, Fork, Exit, CloseDownstream, DeadlinePasses,
        ReaderStep, Read, ReadEnd, RelayFails, ReadFails, Stopped, Spawn,
        SpawnFails, Die, Cancel, MainStep, Begin, DropCall, SeeSignal,
        SeeDeadline, SeeExit, SeeReader, Interrupt, Progress, GiveUpReading,
        Conclude, JoinRelays, vars
  <1> SUFFICES ASSUME Shim PROVE ShimIsTransparent'
    BY <1>2 DEF ShimIsTransparent, Shim
  <1>3. PassedOn /\ Pipes' = Pipes
    BY <1>2 DEF ShimIsTransparent, PassedOn, Pipes
  <1>4. ASSUME PassedOn', \/ report' = report /\ pc # "ended"
                          \/ report'.outcome # "exited"
        PROVE  ShimIsTransparent'
    BY <1>1, <1>4 DEF ShimIsTransparent, PassedOn
  <1>5. ASSUME \A s \in Stream : reader'[s].got = reader[s].got,
               relayed' = relayed, closed \subseteq closed'
        PROVE  PassedOn'
    BY <1>3, <1>5 DEF PassedOn, Pipes, Stream
  <1>6. CASE \/ pc # "ended" /\ OsStep
             \/ Spawn \/ Cancel \/ Begin
    <2>1. UNCHANGED <<reader, relayed, report>> /\ pc # "ended"
      BY <1>6, Zenon
      DEF OsStep, Write, Fork, Exit, CloseDownstream, DeadlinePasses, Spawn,
          Cancel, Begin, readVars
    <2>2. closed' = closed \/ \E s : closed' = closed \cup {s}
      BY <1>6, Zenon
      DEF OsStep, Write, Fork, Exit, CloseDownstream, DeadlinePasses, Spawn,
          Cancel, Begin
    <2> QED  BY <1>4, <1>5, <2>1, <2>2
  <1>7. ASSUME NEW s \in Stream, ReaderStep(s) \/ ReadFails(s)
        PROVE  ShimIsTransparent'
    <2>1. report' = report /\ pc # "ended"
      BY <1>7
      DEF ReaderStep, Read, ReadEnd, RelayFails, ReadFails, Stopped, Reads
    <2> QED  BY <1>3, <1>4, <1>7, <2>1, RelaysPassOn
  <1>8. CASE SpawnFails \/ Die
    <2> DEFINE aborted(r) == [r EXCEPT !.state = "aborted"]
    <2>1. \A s \in Stream : aborted(reader[s]).got = reader[s].got
      BY <1>1 DEF Reader
    <2> HIDE DEF aborted
    <2>2. /\ UNCHANGED <<relayed, closed>>
          /\ reader' = reader \/ reader' = [s \in Stream |-> aborted(reader[s])]
      BY <1>8 DEF SpawnFails, Die, readVars, aborted
    <2>3. report'.outcome # "exited"
      <3> DEFINE none == [s \in Stream |-> NothingCaptured]
      <3>1. CASE Die
        BY <3>1, OutcomeOf DEF Die, End
      <3>2. CASE SpawnFails
        <4>1. \/ report' = Recorded("spawn_error", None, none, <<>>, FALSE, FALSE)
              \/ report' = Failed("spawn_error")
          BY <3>2 DEF SpawnFails, End
        <4> HIDE DEF none
        <4>2. report'.outcome = "spawn_error"
          BY <4>1 DEF Recorded, Failed
        <4> QED  BY <4>2
      <3> QED  BY <1>8, <3>1, <3>2
    <2> QED  BY <1>4, <1>5, <2>1, <2>2, <2>3
  <1>9. ~(SeeSignal \/ SeeDeadline \/ SeeExit \/ DropCall)
        /\ ~(\E s \in Stream : SeeReader(s) \/ GiveUpReading(s)) /\ ~Conclude
    BY DEF SeeSignal, SeeDeadline, SeeExit, DropCall, SeeReader, Undisturbed,
           Waits, GiveUpReading, Conclude, Shim, CInv, StepsHold
  <1>10. CASE JoinRelays
    <2> DEFINE have == [s \in Stream |-> reader[s].got]
    <2>1. /\ pc = "waiting" /\ \A s \in Pipes : ~Listening(s)
          /\ UNCHANGED <<exit, written, closed, reader, relayed>>
          /\ \E content \in Contents :
                End(Recorded("exited", exit, have, chunks, content.redacted,
                             content.windowed))
      BY <1>10 DEF JoinRelays, readVars
    <2>2. report'.code = exit /\ report'.streams = have
      BY <2>1, StreamsOf DEF End
    <2>3. PassedOn'
      BY <1>5, <2>1
    <2>4. ASSUME NEW s \in Pipes \ closed
          PROVE  relayed[s] = written[s] \/ have[s].truncated
      <3>1. s \in Stream /\ reader[s].state = "done"
        <4>1. s \in Stream /\ reader[s].state # "reading"
          BY <2>1 DEF Listening, Pipes, Stream
        <4>2. reader[s].state \in {"reading", "done"}
          BY <2>1, <4>1 DEF CInv, StepsHold
        <4> QED  BY <4>1, <4>2
      <3> QED  BY <1>3, <3>1 DEF CInv, EndsHold, PassedOn
    <2> HIDE DEF have
    <2> QED  BY <1>3, <2>1, <2>2, <2>3, <2>4 DEF ShimIsTransparent, PassedOn
  <1>11. CASE UNCHANGED vars
    BY <1>11 DEF vars, ShimIsTransparent, Shim, Pipes
  <1> QED  BY <1>6, <1>7, <1>8, <1>9, <1>10, <1>11, Zenon DEF Next, MainStep

\* A shim hands on everything it reads, beyond the cap too, and ends as its
\* child did (relay_and_capture), for all caps, consumers and descendants.
THEOREM ShimsAreTransparent == Spec => []ShimIsTransparent
  <1>1. Init => ShimIsTransparent
    <2> SUFFICES ASSUME Init PROVE ShimIsTransparent  OBVIOUS
    <2>1. /\ report = None
          /\ \A s \in Stream : relayed[s] = 0 /\ reader[s].got.total = 0
      BY DEF Init, NothingCaptured
    <2> QED  BY <2>1 DEF ShimIsTransparent, Pipes, Stream
  <1> QED  BY <1>1, CommandInvariant, ShimsStayTransparent, PTL DEF Spec
=============================================================================
