--------------------------- MODULE TestRun_proofs ---------------------------
(***************************************************************************)
(* run_tests, for any selection of tests and runners and any number of     *)
(* workers: what the summary of an interrupted run may hold, that python   *)
(* runs first, and that the pool is at rest when run_tests is left; and    *)
(* what the exit code of xut run stands for, for any command line.         *)
(***************************************************************************)
EXTENDS RunCommand, TLAPS

Normal == {"python", "in python", "submitting", "waiting", "returned"}

(* Where the main thread is says what the pool can be doing.               *)
Phases ==
    /\ main \in Normal => ~ stop /\ ~ killed
    /\ killed => main \in {"draining", "interrupted"}
    /\ main \in {"python", "in python"} => \A j \in Rest : fut[j] = "none"
    /\ main \in {"python", "in python"} => todo \subseteq First
    /\ main = "submitting" => todo \subseteq Rest /\ \A j \in todo : fut[j] = "none"
    /\ main = "waiting" => \A j \in Rest \ todo : fut[j] = "done"
    /\ main = "returned" => \A j \in Rest : fut[j] = "done"
    /\ main \in {"killing", "draining", "interrupted"} => \A j \in Rest : fut[j] # "queued"
    /\ main = "interrupted" => Working = {}
    /\ main # "escaped"

(* A job is refused or interrupted only after an interrupt.                *)
Refusals ==
    \A j \in Rest :
        /\ fut[j] \in {"refused", "cancelled"} => main \notin Normal
        /\ fut[j] = "interrupted" => killed

(* What finished before the kill has a result of its own, for good.        *)
Genuine ==
    /\ \A j \in Rest : fut[j] \in {"written", "done"} /\ ~ killed => res[j] = "own"
    /\ \A j \in finished : Settled(j) /\ (fut[j] = "done" => res[j] = "own")

(* A python run of this invocation is on disk, and its result known, from  *)
(* its end on; the pool has no job before all of them ended.               *)
Ran(p) == python[p[1]] = "own" /\ <<p, "own">> \in results

PythonRuns ==
    /\ main \in {"python", "in python"} => \A p \in First \ todo : Ran(p)
    /\ main \in {"submitting", "waiting", "returned"} => \A p \in First : Ran(p)
    /\ \A j \in Rest : fut[j] # "none" => \A p \in First : python[p[1]] = "own"

(* How run_tests ended is what the summary says.                           *)
Summarised ==
    /\ main \notin Ended => summary = "old"
    /\ main = "returned" => summary = "complete" /\ \A j \in Rest : <<j, "own">> \in results
    /\ main = "interrupted" => summary = "interrupted"

IInv == TypeOK /\ Phases /\ Refusals /\ Genuine /\ SummaryIsGenuine /\ PythonRuns /\ Summarised

-----------------------------------------------------------------------------
LEMMA AllArePairs == First \subseteq Pairs /\ Rest \subseteq Pairs
  BY DEF Pairs

LEMMA WithIsWithin ==
    ASSUME NEW S, NEW Y, results \subseteq Y, \A j \in S : <<j, res[j]>> \in Y
    PROVE  With(S) \subseteq Y
  BY DEF With

LEMMA InitIInv == Init => IInv
  BY AllArePairs DEF Init, IInv, PythonRuns, Summarised, Ran, TypeOK, Phases, Refusals, Genuine, SummaryIsGenuine, Normal, Ended, Working

(* Every variable keeps its type.                                          *)
LEMMA TypeStep == TypeOK /\ Phases /\ Genuine /\ [Next]_vars => TypeOK'
  <1> SUFFICES ASSUME TypeOK, Phases, Genuine, [Next]_vars PROVE TypeOK'
    OBVIOUS
  <1> USE DEF TypeOK, pool, ending, Ended
  <1>1. ASSUME NEW j \in Rest, CancelOne(j) PROVE TypeOK'
    BY <1>1 DEF CancelOne
  <1>2. ASSUME NEW j \in Rest, Take(j) PROVE TypeOK'
    BY <1>2 DEF Take
  <1>3. ASSUME NEW j \in Rest, Begin(j) PROVE TypeOK'
    BY <1>3 DEF Begin
  <1>4. ASSUME NEW j \in Rest, Write(j) PROVE TypeOK'
    BY <1>4 DEF Write, _one
  <1>5. ASSUME NEW j \in Rest, Cancelled(j) PROVE TypeOK'
    BY <1>5 DEF Cancelled
  <1>6. ASSUME NEW j \in Rest, Settle(j) PROVE TypeOK'
    BY <1>6 DEF Settle
  <1>7. CASE PythonStart
    BY <1>7 DEF PythonStart
  <1>8. CASE PythonEnd
    <2>1. PICK p \in First :
             /\ todo' = todo \ {p}
             /\ python' = [python EXCEPT ![p[1]] = "own"]
             /\ results' = results \cup {<<p, "own">>}
      BY <1>8 DEF PythonEnd
    <2>2. <<p, "own">> \in Pairs \X {"own", "artefact"}
      BY DEF Pairs
    <2>3. results' \subseteq Pairs \X {"own", "artefact"}
      BY <2>1, <2>2
    <2>4. python' \in [Vector -> {"old", "none", "own"}]
      BY <2>1
    <2>5. QED
      BY <1>8, <2>1, <2>3, <2>4 DEF PythonEnd
  <1>9. CASE PythonDone
    BY <1>9, AllArePairs DEF PythonDone
  <1>10. CASE Submit
    BY <1>10 DEF Submit, IsNext
  <1>11. CASE Submitted
    BY <1>11, AllArePairs DEF Submitted
  <1>12. CASE Wait
    BY <1>12 DEF Wait, IsNext, Settled
  <1>13. CASE Return
    <2>1. \A j \in Rest : <<j, res[j]>> \in Pairs \X {"own", "artefact"}
      BY <1>13 DEF Pairs, Return, write_summary, Phases, Genuine, Normal
    <2>2. With(Rest) \subseteq Pairs \X {"own", "artefact"}
      BY <2>1, WithIsWithin
    <2>3. QED
      BY <1>13, <2>2 DEF Return, write_summary
  <1>14. CASE Snapshot
    BY <1>14 DEF Snapshot, Settled
  <1>15. CASE KillLive
    BY <1>15 DEF KillLive
  <1>16. CASE Interrupted
    <2> DEFINE S == {j \in finished : Recordable(j)}
    <2>1. \A j \in S : <<j, res[j]>> \in Pairs \X {"own", "artefact"}
      BY <1>16 DEF Pairs, Recordable, Genuine
    <2>2. With(S) \subseteq Pairs \X {"own", "artefact"}
      BY <2>1, WithIsWithin
    <2>3. QED
      BY <1>16, <2>2 DEF Interrupted, write_summary
  <1>17. CASE Interrupt
    BY <1>17 DEF Interrupt
  <1>18. CASE UNCHANGED vars
    BY <1>18 DEF vars, Settled
  <1>19. QED
    BY <1>1, <1>2, <1>3, <1>4, <1>5, <1>6, <1>7, <1>8, <1>9, <1>10,
       <1>11, <1>12, <1>13, <1>14, <1>15, <1>16, <1>17, <1>18 DEF Next, Main, Worker

(* The phases follow one another, and the pool keeps step.                 *)
LEMMA PhasesStep == TypeOK /\ Phases /\ Refusals /\ Genuine /\ [Next]_vars => Phases'
  <1> SUFFICES ASSUME TypeOK, Phases, Refusals, Genuine, [Next]_vars PROVE Phases'
    OBVIOUS
  <1> USE DEF TypeOK, Phases, Refusals, Normal, pool, ending, Ended, Working
  <1>1. ASSUME NEW j \in Rest, CancelOne(j) PROVE Phases'
    BY <1>1 DEF CancelOne
  <1>2. ASSUME NEW j \in Rest, Take(j) PROVE Phases'
    BY <1>2 DEF Take
  <1>3. ASSUME NEW j \in Rest, Begin(j) PROVE Phases'
    BY <1>3 DEF Begin
  <1>4. ASSUME NEW j \in Rest, Write(j) PROVE Phases'
    BY <1>4 DEF Write, _one
  <1>5. ASSUME NEW j \in Rest, Cancelled(j) PROVE Phases'
    BY <1>5 DEF Cancelled
  <1>6. ASSUME NEW j \in Rest, Settle(j) PROVE Phases'
    BY <1>6 DEF Settle
  <1>7. CASE PythonStart
    BY <1>7 DEF PythonStart, IsNext
  <1>8. CASE PythonEnd
    BY <1>8 DEF PythonEnd, IsNext
  <1>9. CASE PythonDone
    BY <1>9 DEF PythonDone
  <1>10. CASE Submit
    BY <1>10 DEF Submit, IsNext
  <1>11. CASE Submitted
    BY <1>11 DEF Submitted
  <1>12. CASE Wait
    BY <1>12 DEF Wait, IsNext, Settled
  <1>13. CASE Return
    BY <1>13 DEF Return, write_summary
  <1>14. CASE Snapshot
    BY <1>14 DEF Snapshot, Settled
  <1>15. CASE KillLive
    BY <1>15 DEF KillLive
  <1>16. CASE Interrupted
    BY <1>16 DEF Interrupted, write_summary, Recordable, Drained, Working
  <1>17. CASE Interrupt
    BY <1>17 DEF Interrupt
  <1>18. CASE UNCHANGED vars
    BY <1>18 DEF vars, Settled, Working
  <1>19. QED
    BY <1>1, <1>2, <1>3, <1>4, <1>5, <1>6, <1>7, <1>8, <1>9, <1>10,
       <1>11, <1>12, <1>13, <1>14, <1>15, <1>16, <1>17, <1>18 DEF Next, Main, Worker

(* A refused, cancelled or interrupted job means an interrupt.             *)
LEMMA RefusalsStep == TypeOK /\ Phases /\ Refusals /\ [Next]_vars => Refusals'
  <1> SUFFICES ASSUME TypeOK, Phases, Refusals, [Next]_vars PROVE Refusals'
    OBVIOUS
  <1> USE DEF TypeOK, Phases, Refusals, Normal, pool, ending, Ended
  <1>1. ASSUME NEW j \in Rest, CancelOne(j) PROVE Refusals'
    BY <1>1 DEF CancelOne
  <1>2. ASSUME NEW j \in Rest, Take(j) PROVE Refusals'
    BY <1>2 DEF Take
  <1>3. ASSUME NEW j \in Rest, Begin(j) PROVE Refusals'
    BY <1>3 DEF Begin
  <1>4. ASSUME NEW j \in Rest, Write(j) PROVE Refusals'
    BY <1>4 DEF Write, _one
  <1>5. ASSUME NEW j \in Rest, Cancelled(j) PROVE Refusals'
    BY <1>5 DEF Cancelled
  <1>6. ASSUME NEW j \in Rest, Settle(j) PROVE Refusals'
    BY <1>6 DEF Settle
  <1>7. CASE PythonStart
    BY <1>7 DEF PythonStart, IsNext
  <1>8. CASE PythonEnd
    BY <1>8 DEF PythonEnd, IsNext
  <1>9. CASE PythonDone
    BY <1>9 DEF PythonDone
  <1>10. CASE Submit
    BY <1>10 DEF Submit, IsNext
  <1>11. CASE Submitted
    BY <1>11 DEF Submitted
  <1>12. CASE Wait
    BY <1>12 DEF Wait, IsNext, Settled
  <1>13. CASE Return
    BY <1>13 DEF Return, write_summary
  <1>14. CASE Snapshot
    BY <1>14 DEF Snapshot, Settled
  <1>15. CASE KillLive
    BY <1>15 DEF KillLive
  <1>16. CASE Interrupted
    BY <1>16 DEF Interrupted, write_summary, Recordable
  <1>17. CASE Interrupt
    BY <1>17 DEF Interrupt
  <1>18. CASE UNCHANGED vars
    BY <1>18 DEF vars, Settled
  <1>19. QED
    BY <1>1, <1>2, <1>3, <1>4, <1>5, <1>6, <1>7, <1>8, <1>9, <1>10,
       <1>11, <1>12, <1>13, <1>14, <1>15, <1>16, <1>17, <1>18 DEF Next, Main, Worker

(* Only kill_live makes artefacts, and the snapshot was taken before it.   *)
LEMMA GenuineStep == TypeOK /\ Phases /\ Genuine /\ [Next]_vars => Genuine'
  <1> SUFFICES ASSUME TypeOK, Phases, Genuine, [Next]_vars PROVE Genuine'
    OBVIOUS
  <1> USE DEF TypeOK, Phases, Genuine, Settled, Normal, pool, ending, Ended
  <1>1. ASSUME NEW j \in Rest, CancelOne(j) PROVE Genuine'
    BY <1>1 DEF CancelOne
  <1>2. ASSUME NEW j \in Rest, Take(j) PROVE Genuine'
    BY <1>2 DEF Take
  <1>3. ASSUME NEW j \in Rest, Begin(j) PROVE Genuine'
    BY <1>3 DEF Begin
  <1>4. ASSUME NEW j \in Rest, Write(j) PROVE Genuine'
    BY <1>4 DEF Write, _one
  <1>5. ASSUME NEW j \in Rest, Cancelled(j) PROVE Genuine'
    BY <1>5 DEF Cancelled
  <1>6. ASSUME NEW j \in Rest, Settle(j) PROVE Genuine'
    BY <1>6 DEF Settle
  <1>7. CASE PythonStart
    BY <1>7 DEF PythonStart, IsNext
  <1>8. CASE PythonEnd
    BY <1>8 DEF PythonEnd, IsNext
  <1>9. CASE PythonDone
    BY <1>9 DEF PythonDone
  <1>10. CASE Submit
    BY <1>10 DEF Submit, IsNext
  <1>11. CASE Submitted
    BY <1>11 DEF Submitted
  <1>12. CASE Wait
    BY <1>12 DEF Wait, IsNext
  <1>13. CASE Return
    BY <1>13 DEF Return, write_summary
  <1>14. CASE Snapshot
    BY <1>14 DEF Snapshot
  <1>15. CASE KillLive
    BY <1>15 DEF KillLive
  <1>16. CASE Interrupted
    BY <1>16 DEF Interrupted, write_summary, Recordable
  <1>17. CASE Interrupt
    BY <1>17 DEF Interrupt
  <1>18. CASE UNCHANGED vars
    BY <1>18 DEF vars
  <1>19. QED
    BY <1>1, <1>2, <1>3, <1>4, <1>5, <1>6, <1>7, <1>8, <1>9, <1>10,
       <1>11, <1>12, <1>13, <1>14, <1>15, <1>16, <1>17, <1>18 DEF Next, Main, Worker

(* `results` gains python results, the results of a pool that ended        *)
(* undisturbed, and those of the snapshot.                                 *)
LEMMA SummaryStep == IInv /\ [Next]_vars => SummaryIsGenuine'
  <1> SUFFICES ASSUME IInv, [Next]_vars PROVE SummaryIsGenuine'
    OBVIOUS
  <1> USE DEF IInv, TypeOK, SummaryIsGenuine, pool, ending
  <1>1. ASSUME NEW j \in Rest, CancelOne(j) PROVE SummaryIsGenuine'
    BY <1>1 DEF CancelOne
  <1>2. ASSUME NEW j \in Rest, Take(j) PROVE SummaryIsGenuine'
    BY <1>2 DEF Take
  <1>3. ASSUME NEW j \in Rest, Begin(j) PROVE SummaryIsGenuine'
    BY <1>3 DEF Begin
  <1>4. ASSUME NEW j \in Rest, Write(j) PROVE SummaryIsGenuine'
    BY <1>4 DEF Write, _one
  <1>5. ASSUME NEW j \in Rest, Cancelled(j) PROVE SummaryIsGenuine'
    BY <1>5 DEF Cancelled
  <1>6. ASSUME NEW j \in Rest, Settle(j) PROVE SummaryIsGenuine'
    BY <1>6 DEF Settle
  <1>7. CASE PythonStart
    BY <1>7 DEF PythonStart
  <1>8. CASE PythonEnd
    <2>1. PICK p \in First : results' = results \cup {<<p, "own">>}
      BY <1>8 DEF PythonEnd
    <2>2. <<p, "own">>[2] = "own"
      OBVIOUS
    <2>3. QED
      BY <2>1, <2>2
  <1>9. CASE PythonDone
    BY <1>9 DEF PythonDone
  <1>10. CASE Submit
    BY <1>10 DEF Submit
  <1>11. CASE Submitted
    BY <1>11 DEF Submitted
  <1>12. CASE Wait
    BY <1>12 DEF Wait
  <1>13. CASE Return
    BY <1>13 DEF Return, write_summary, With, Phases, Genuine, Normal
  <1>14. CASE Snapshot
    BY <1>14 DEF Snapshot
  <1>15. CASE KillLive
    BY <1>15 DEF KillLive
  <1>16. CASE Interrupted
    BY <1>16 DEF Interrupted, write_summary, With, Recordable, Phases, Genuine, Normal
  <1>17. CASE Interrupt
    BY <1>17 DEF Interrupt
  <1>18. CASE UNCHANGED vars
    BY <1>18 DEF vars
  <1>19. QED
    BY <1>1, <1>2, <1>3, <1>4, <1>5, <1>6, <1>7, <1>8, <1>9, <1>10,
       <1>11, <1>12, <1>13, <1>14, <1>15, <1>16, <1>17, <1>18 DEF Next, Main, Worker

(* A python run starts and ends before anything is submitted.              *)
LEMMA PythonRunsStep == TypeOK /\ Phases /\ PythonRuns /\ [Next]_vars => PythonRuns'
  <1> SUFFICES ASSUME TypeOK, Phases, PythonRuns, [Next]_vars PROVE PythonRuns'
    OBVIOUS
  <1> USE DEF pool, ending
  <1>0. /\ python \in [Vector -> {"old", "none", "own"}]
        /\ fut \in [Rest -> {"none", "queued", "taken", "running", "written", "done",
                             "refused", "interrupted", "cancelled"}]
        /\ \A p \in First : p = <<p[1], "python">> /\ p[1] \in Vector
    <2>1. \A p \in First : p = <<p[1], "python">> /\ p[1] \in Vector
      BY DEF First
    <2>2. QED
      BY <2>1 DEF TypeOK
  <1>1. ASSUME UNCHANGED <<main, todo, python, results>>,
               \A j \in Rest : fut[j] = "none" => fut'[j] = "none"
        PROVE  PythonRuns'
    BY <1>1 DEF PythonRuns, Ran
  <1>2. ASSUME NEW j \in Rest, CancelOne(j) \/ Take(j) \/ Begin(j) \/ Write(j) \/ Cancelled(j) \/ Settle(j)
        PROVE  PythonRuns'
    <2>1. UNCHANGED <<main, todo, python, results>>
      BY <1>2 DEF CancelOne, Take, Begin, Write, Cancelled, Settle
    <2>2. fut[j] # "none" /\ \E f : fut' = [fut EXCEPT ![j] = f]
      BY <1>2 DEF CancelOne, Take, Begin, Write, Cancelled, Settle
    <2>3. QED
      BY <1>0, <1>1, <2>1, <2>2
  <1>3. CASE PythonStart
    <2>1. PICK p \in First : p \in todo /\ python' = [python EXCEPT ![p[1]] = "none"]
      BY <1>3 DEF PythonStart, IsNext
    <2>2. main = "python" /\ main' = "in python" /\ UNCHANGED <<todo, fut, results>>
      BY <1>3 DEF PythonStart
    <2>3. ASSUME NEW q \in First \ todo PROVE Ran(q)'
      <3>1. q[1] # p[1]
        BY <1>0, <2>1
      <3>2. QED
        BY <1>0, <2>1, <2>2, <3>1 DEF PythonRuns, Ran
    <2>4. \A j \in Rest : fut'[j] = "none"
      BY <2>2 DEF Phases
    <2>5. QED
      BY <2>2, <2>3, <2>4 DEF PythonRuns
  <1>4. CASE PythonEnd
    <2>1. PICK p \in First : /\ todo' = todo \ {p}
                             /\ python' = [python EXCEPT ![p[1]] = "own"]
                             /\ results' = results \cup {<<p, "own">>}
      BY <1>4 DEF PythonEnd
    <2>2. main = "in python" /\ main' = "python" /\ UNCHANGED fut
      BY <1>4 DEF PythonEnd
    <2>3. ASSUME NEW q \in First \ todo' PROVE Ran(q)'
      <3>1. CASE q = p
        BY <1>0, <2>1, <3>1 DEF Ran
      <3>2. CASE q # p
        BY <1>0, <2>1, <2>2, <3>2 DEF PythonRuns, Ran
      <3>3. QED
        BY <3>1, <3>2
    <2>4. \A j \in Rest : fut'[j] = "none"
      BY <2>2 DEF Phases
    <2>5. QED
      BY <2>2, <2>3, <2>4 DEF PythonRuns
  <1>5. CASE PythonDone
    BY <1>5 DEF PythonDone, PythonRuns, Ran
  <1>6. CASE Submit
    <2>1. \A p \in First : python[p[1]] = "own"
      BY <1>6 DEF Submit, PythonRuns, Ran
    <2>2. QED
      BY <1>6, <2>1 DEF Submit, PythonRuns, Ran
  <1>7. CASE Submitted \/ Wait \/ Snapshot \/ KillLive \/ Interrupt
    BY <1>7 DEF Submitted, Wait, Snapshot, KillLive, Interrupt, PythonRuns, Ran
  <1>8. CASE Return \/ Interrupted
    <2>1. UNCHANGED <<python, fut>>
      BY <1>8 DEF Return, Interrupted
    <2>2. results \subseteq results'
      BY <1>8 DEF Return, Interrupted, With
    <2>3. main' \in {"returned", "interrupted", "escaped"} /\ (main' = "returned" => main = "waiting")
      BY <1>8 DEF Return, Interrupted
    <2>4. QED
      BY <2>1, <2>2, <2>3 DEF PythonRuns, Ran
  <1>9. CASE UNCHANGED vars
    BY <1>1, <1>9 DEF vars
  <1>10. QED
    BY <1>2, <1>3, <1>4, <1>5, <1>6, <1>7, <1>8, <1>9 DEF Next, Main, Worker

(* The summary is written once, at the end.                                *)
LEMMA SummarisedStep == TypeOK /\ Phases /\ Genuine /\ Summarised /\ [Next]_vars => Summarised'
  <1> SUFFICES ASSUME TypeOK, Phases, Genuine, Summarised, [Next]_vars PROVE Summarised'
    OBVIOUS
  <1> USE DEF pool, ending, Ended, Summarised
  <1>1. ASSUME NEW j \in Rest, CancelOne(j) \/ Take(j) \/ Begin(j) \/ Write(j) \/ Cancelled(j) \/ Settle(j)
        PROVE  Summarised'
    BY <1>1 DEF CancelOne, Take, Begin, Write, Cancelled, Settle
  <1>2. CASE PythonStart \/ PythonEnd \/ PythonDone \/ Submit \/ Submitted
    BY <1>2 DEF PythonStart, PythonEnd, PythonDone, Submit, Submitted
  <1>3. CASE Wait \/ Snapshot \/ KillLive \/ Interrupt
    BY <1>3 DEF Wait, Snapshot, KillLive, Interrupt
  <1>4. CASE Return
    <2>1. \A j \in Rest : res[j] = "own"
      BY <1>4 DEF Return, Phases, Genuine, Normal
    <2>2. \A j \in Rest : <<j, "own">> \in With(Rest)
      BY <2>1 DEF With
    <2>3. QED
      BY <1>4, <2>2 DEF Return, write_summary
  <1>5. CASE Interrupted
    BY <1>5 DEF Interrupted, write_summary
  <1>6. CASE UNCHANGED vars
    BY <1>6 DEF vars
  <1>7. QED
    BY <1>1, <1>2, <1>3, <1>4, <1>5, <1>6 DEF Next, Main, Worker

LEMMA IInvStep == IInv /\ [Next]_vars => IInv'
  BY TypeStep, PhasesStep, RefusalsStep, GenuineStep, SummaryStep, PythonRunsStep, SummarisedStep DEF IInv

LEMMA Invariant == Spec => []IInv
  BY IInvStep, InitIInv, PTL DEF Spec

(* A runner of a vector test runs after its python run.                    *)
LEMMA PythonFirstFromInv == IInv => PythonFirst
  <1> SUFFICES ASSUME IInv, NEW j \in Rest, fut[j] = "running", j[1] \in Vector
               PROVE  python[j[1]] = "own"
    BY DEF PythonFirst
  <1>1. <<j[1], "python">> \in First
    BY DEF First, Rest
  <1>2. QED
    BY <1>1 DEF IInv, PythonRuns

-----------------------------------------------------------------------------
(* Every variable keeps its type.                                          *)
THEOREM TypeCorrect == Spec => []TypeOK
  <1>1. IInv => TypeOK
    BY DEF IInv
  <1>2. QED
    BY <1>1, Invariant, PTL

(* An artefact of the kill is never recorded in the summary.               *)
THEOREM NoArtefactIsRecorded == Spec => []SummaryIsGenuine
  <1>1. IInv => SummaryIsGenuine
    BY DEF IInv
  <1>2. QED
    BY <1>1, Invariant, PTL

(* When run_tests is left its pool is at rest.                             *)
THEOREM PoolIsAtRest == Spec => []QuietAtEnd
  <1>1. IInv => QuietAtEnd
    BY DEF IInv, Phases, QuietAtEnd, Ended, Working
  <1>2. QED
    BY <1>1, Invariant, PTL

(* An interrupt ends in a summary and a KeyboardInterrupt.                 *)
THEOREM InterruptIsReported == Spec => []CancelledNeverEscapes
  <1>1. IInv => CancelledNeverEscapes
    BY DEF IInv, Phases, CancelledNeverEscapes
  <1>2. QED
    BY <1>1, Invariant, PTL

(* No runner of a vector test goes by an older python run.                 *)
THEOREM PythonRunsFirst == Spec => []PythonFirst
  BY Invariant, PythonFirstFromInv, PTL

-----------------------------------------------------------------------------
(* The command.                                                            *)
CommandInv ==
    /\ IInv /\ line \in Invocations /\ stage \in {"parsing", "running", "over"}
    /\ stage = "parsing" => summary = "old" /\ results = {}
    /\ stage = "running" =>
          /\ Cases(line) # {} /\ Named(line.runners) \subseteq Named(RUNNERS)
          /\ \A s \in line.selectors : Meaningful(s)
    /\ stage = "over" => ExitIsTrue

(* What is asked for is what is selected.                                  *)
LEMMA AskedAreCases ==
    ASSUME line \in Invocations, Named(line.runners) \subseteq Named(RUNNERS)
    PROVE  Asked = Cases(line) \X RunnerNames(line).names
  <1>1. Cases(line) = {c \in 1 .. TestCount :
            /\ line.selectors = {} \/ \E s \in line.selectors : _matches(c, s)
            /\ line.levels = {} \/ Level[c] \in line.levels
            /\ line.styles = {} \/ Style[c] \in line.styles}
    BY DEF Cases, _select_cases, Matching
  <1>2. CASE line.runners = <<>>
    <2>1. Default.names = Named(RUNNERS) \ {"iverilog-vz"}
      BY DEF Default, Deduplicated
    <2>2. RunnerNames(line).names = {n \in Named(RUNNERS) :
             n # "iverilog-vz" \/ "verilator" \in Named(RUNNERS)}
      BY <1>2, <2>1, CallAssumption DEF RunnerNames, with_companions
    <2>3. RunnerNames(line).names = Named(RUNNERS)
      BY <2>2, CallAssumption
    <2>4. {n \in Named(RUNNERS) :
             \/ n \in Named(line.runners)
             \/ line.runners = <<>> /\ n # "iverilog-vz"
             \/ n = "iverilog-vz" /\ (line.runners = <<>> \/ "verilator" \in Named(line.runners))}
           = Named(RUNNERS)
      BY <1>2
    <2>5. QED
      BY <1>1, <2>3, <2>4 DEF Asked
  <1>3. CASE line.runners # <<>>
    <2>1. Deduplicated(line.runners).names = Named(line.runners)
      BY DEF Deduplicated
    <2>2. RunnerNames(line).names = {n \in Named(RUNNERS) :
             n \in Named(line.runners) \/ (n = "iverilog-vz" /\ "verilator" \in Named(line.runners))}
      BY <1>3, <2>1, CallAssumption DEF RunnerNames, with_companions
    <2>3. QED
      BY <1>1, <1>3, <2>2 DEF Asked
  <1>4. QED
    BY <1>2, <1>3

(* A selector that was refused, and the selectors of a call that was not.  *)
LEMMA RefusedIsMeaningless ==
    ASSUME UnitsRefused(line) \/ Unmatched(line) # {}
    PROVE  \E s \in line.selectors : ~ Meaningful(s)
  <1>1. \A s : Matching({s}) = {} <=> \A c \in 1 .. TestCount : ~ _matches(c, s)
    BY DEF Matching
  <1>2. PICK s \in line.selectors :
             /\ Matching({s}) = {}
             /\ \/ line.units = "doubled"
                \/ ~ (s.unit /\ s.name \in load_units(line))
    BY DEF UnitsRefused, Unmatched
  <1>3. ~ (s.unit /\ s.name \in WorkUnits /\ line.units = "listed")
    BY <1>2 DEF load_units
  <1>4. QED
    BY <1>1, <1>2, <1>3 DEF Meaningful

LEMMA AcceptedIsMeaningful ==
    ASSUME line \in Invocations, ~ UnitsRefused(line), Unmatched(line) = {}, NEW s \in line.selectors
    PROVE  Meaningful(s)
  <1>1. Matching({s}) = {} <=> \A c \in 1 .. TestCount : ~ _matches(c, s)
    BY DEF Matching
  <1>2. CASE Matching({s}) # {}
    BY <1>1, <1>2 DEF Meaningful
  <1>3. CASE Matching({s}) = {}
    <2>1. s.unit /\ s.name \in load_units(line)
      BY <1>3 DEF Unmatched
    <2>2. line.units \in {"listed", "missing", "doubled"}
      BY CallAssumption
    <2>3. line.units = "listed" /\ s.name \in WorkUnits
      BY <1>3, <2>1, <2>2 DEF UnitsRefused, load_units
    <2>4. QED
      BY <2>1, <2>3 DEF Meaningful
  <1>4. QED
    BY <1>2, <1>3

(* More containers than the budget holds.                                  *)
LEMMA TooManyJobs ==
    ASSUME NEW j \in Nat, NEW b \in Nat, NEW c \in Nat \ {0}
    PROVE  /\ j > b \div c => j * c > b
           /\ b \div c = 0 => c > b
  <1> DEFINE q == b \div c
             r == b % c
  <1>1. q \in Nat /\ r \in 0 .. c - 1 /\ b = c * q + r
    OBVIOUS
  <1> HIDE DEF q, r
  <1>2. ASSUME j > q PROVE j * c > b
    <2>1. PICK d \in Nat : j = q + 1 + d
      <3>1. j - q - 1 \in Nat /\ j = q + 1 + (j - q - 1)
        BY <1>1, <1>2
      <3>2. QED
        BY <3>1
    <2>2. j * c = c * q + c + d * c
      BY <1>1, <2>1
    <2>3. d * c \in Nat /\ c * q \in Nat
      BY <1>1
    <2>4. QED
      BY <1>1, <2>2, <2>3
  <1>3. ASSUME q = 0 PROVE c > b
    <2>1. c * q = 0
      BY <1>3
    <2>2. QED
      BY <1>1, <2>1
  <1>4. QED
    BY <1>2, <1>3 DEF q

(* What the CI job leaves out.                                             *)
LEMMA SkippedIsUnread ==
    ASSUME line \in Invocations, NEW ci \in line.ci, ~ select(ci)
    PROVE  \A e \in UNION {x.edits : x \in line.ci} : {e.old, e.new} \cap Read = {}
  <1>1. changed_files(ci.edits) \subseteq DocOnly
    BY DEF select
  <1>2. \A e \in ci.edits : {e.old, e.new} \subseteq DocOnly \cup {NoPath}
    BY <1>1 DEF changed_files
  <1>3. \A x \in line.ci : x = ci
    BY CallAssumption
  <1>4. \A e \in UNION {x.edits : x \in line.ci} : e \in ci.edits
    BY <1>3
  <1>5. QED
    BY <1>2, <1>4, ReadAssumption

(* Each way the command can end gives its exit code.                       *)
LEMMA ParseStep ==
    ASSUME CommandInv, Parse
    PROVE  CommandInv'
  <1>1. /\ stage = "parsing" /\ line \in Invocations /\ IInv
        /\ UNCHANGED <<vars, line, verdict>> /\ summary = "old" /\ results = {}
    BY DEF Parse, CommandInv
  <1>2. IInv'
    BY <1>1, IInvStep
  <1>3. /\ line.runners \in Seq(STRING)
        /\ line.tree \in {"sound", "no models", "invalid test"}
    BY <1>1, CallAssumption
  <1>4. line.jobs \in Nat /\ line.budget \in Nat /\ line.cap \in Nat \ {0}
    BY <1>1, CallAssumption
  <1>5. ASSUME stage' = "over", ExitIsTrue' PROVE CommandInv'
    BY <1>1, <1>2, <1>5 DEF CommandInv
  <1>6. CASE \E ci \in line.ci : ~ select(ci)
    <2>1. stage' = "over" /\ exit' = "skipped"
      BY <1>6 DEF Parse, Exit
    <2>2. ExitIsTrue'
      BY <1>1, <1>6, <2>1, SkippedIsUnread DEF ExitIsTrue
    <2>3. QED
      BY <1>5, <2>1, <2>2
  <1>7. ASSUME exit' = "1", stage' = "over",
               \/ \E s \in line.selectors : ~ Meaningful(s)
               \/ ~ Named(line.runners) \subseteq Named(RUNNERS)
               \/ line.tree # "sound" \/ line.cap > line.budget
        PROVE  CommandInv'
    <2>1. summary' = "old" /\ results' = {} /\ line' = line
      BY <1>1 DEF vars
    <2>2. ExitIsTrue'
      BY <1>7, <2>1 DEF ExitIsTrue, Meaningful
    <2>3. QED
      BY <1>5, <1>7, <2>2
  <1>8. CASE Parsed(line)
    <2>1. CASE max_jobs(line) = 0
      <3>1. line.cap > line.budget
        BY <1>4, <2>1, TooManyJobs DEF max_jobs
      <3>2. QED
        BY <1>7, <1>8, <2>1, <3>1 DEF Parsed, Exit
    <2>2. CASE max_jobs(line) # 0 /\ line.jobs > max_jobs(line)
      <3>1. line.jobs * line.cap > line.budget
        BY <1>4, <2>2, TooManyJobs DEF max_jobs
      <3>2. stage' = "over" /\ exit' = "2"
        BY <1>8, <2>2 DEF Parsed, Exit
      <3>3. ExitIsTrue'
        BY <1>1, <3>1, <3>2 DEF ExitIsTrue
      <3>4. QED
        BY <1>5, <3>2, <3>3
    <2>3. CASE max_jobs(line) # 0 /\ ~ line.jobs > max_jobs(line)
      <3>1. CASE \/ ~ Named(line.runners) \subseteq Named(RUNNERS)
                 \/ NotDiscovered(line)
                 \/ UnitsRefused(line) \/ Unmatched(line) # {}
        <4>1. exit' = "1" /\ stage' = "over"
          BY <1>8, <2>3, <3>1 DEF Parsed, Exit
        <4>2. NotDiscovered(line) => line.tree # "sound"
          BY DEF NotDiscovered
        <4>3. QED
          BY <1>7, <3>1, <4>1, <4>2, RefusedIsMeaningless
      <3>2. CASE /\ Named(line.runners) \subseteq Named(RUNNERS)
                 /\ ~ NotDiscovered(line)
                 /\ ~ UnitsRefused(line) /\ Unmatched(line) = {}
        <4>1. \A s \in line.selectors : Meaningful(s)
          BY <1>1, <3>2, AcceptedIsMeaningful
        <4>2. CASE Cases(line) = {}
          <5>1. stage' = "over" /\ exit' = "0"
            BY <1>8, <2>3, <3>2, <4>2 DEF Parsed, Exit
          <5>2. Asked = {}
            BY <1>1, <3>2, <4>2, AskedAreCases
          <5>3. ExitIsTrue'
            BY <1>1, <4>1, <5>1, <5>2 DEF ExitIsTrue, Asked, Meaningful
          <5>4. QED
            BY <1>5, <5>1, <5>3
        <4>3. CASE Cases(line) # {} /\ line.tree = "no models"
          <5>1. exit' = "1" /\ stage' = "over"
            BY <1>8, <2>3, <3>2, <4>3 DEF Parsed, Exit
          <5>2. QED
            BY <1>7, <4>3, <5>1
        <4>4. CASE Cases(line) # {} /\ line.tree # "no models"
          <5>1. stage' = "running"
            BY <1>8, <2>3, <3>2, <4>4 DEF Parsed
          <5>2. QED
            BY <1>1, <1>2, <3>2, <4>1, <4>4, <5>1 DEF CommandInv, Meaningful
        <4>5. QED
          BY <4>2, <4>3, <4>4
      <3>3. QED
        BY <3>1, <3>2
    <2>4. QED
      BY <2>1, <2>2, <2>3
  <1>9. QED
    BY <1>6, <1>8 DEF Parse

LEMMA FinishStep ==
    ASSUME CommandInv, Finish
    PROVE  CommandInv'
  <1>1. /\ stage = "running" /\ line \in Invocations /\ IInv /\ main \in Ended
        /\ UNCHANGED <<vars, line, verdict>> /\ stage' = "over"
        /\ exit' = IF main = "interrupted" THEN "130"
                   ELSE IF main = "escaped" \/ BadResults # {} THEN "1" ELSE "0"
    BY DEF Finish, CommandInv, Exit
  <1>2. IInv'
    BY <1>1, IInvStep
  <1>3. main \in {"returned", "interrupted"}
    BY <1>1 DEF Ended, IInv, Phases
  <1>4. UNCHANGED <<results, summary>>
    BY <1>1 DEF vars
  <1>5. CASE main = "interrupted"
    BY <1>1, <1>2, <1>4, <1>5 DEF CommandInv, ExitIsTrue, IInv, Summarised
  <1>6. CASE main = "returned" /\ BadResults # {}
    <2>1. summary = "complete" /\ \E r \in results : verdict[r[1]] \in Bad
      BY <1>1, <1>6 DEF BadResults, IInv, Summarised
    <2>2. exit' = "1"
      BY <1>1, <1>6
    <2>3. ExitIsTrue'
      BY <1>1, <1>4, <2>1, <2>2 DEF ExitIsTrue
    <2>4. QED
      BY <1>1, <1>2, <2>3 DEF CommandInv
  <1>7. CASE main = "returned" /\ BadResults = {}
    <2>1. Asked = (1 .. CaseCount) \X Names.names
      BY <1>1, CallAssumption, AskedAreCases DEF CommandInv
    <2>2. Asked \subseteq Pairs
      BY <2>1 DEF Pairs, First, Rest, Pooled
    <2>3. \A p \in Pairs : <<p, "own">> \in results
      BY <1>1, <1>7 DEF Pairs, IInv, PythonRuns, Summarised, Ran
    <2>4. \A p \in Asked : <<p, "own">> \in results /\ verdict[p] \notin Bad
      <3>1. ASSUME NEW p \in Asked PROVE verdict[p] \notin Bad
        <4>1. <<p, "own">> \in results /\ <<p, "own">>[1] = p
          BY <2>2, <2>3
        <4>2. QED
          BY <1>7, <4>1 DEF BadResults
      <3>2. QED
        BY <2>2, <2>3, <3>1
    <2>5. summary = "complete" /\ \A s \in line.selectors : Meaningful(s)
      BY <1>1, <1>7 DEF CommandInv, IInv, Summarised
    <2>6. exit' = "0"
      BY <1>1, <1>7
    <2>7. ExitIsTrue'
      BY <1>1, <1>4, <2>4, <2>5, <2>6 DEF ExitIsTrue, Asked, Meaningful
    <2>8. QED
      BY <1>1, <1>2, <2>7 DEF CommandInv
  <1>8. QED
    BY <1>3, <1>5, <1>6, <1>7

LEMMA CommandInvStep == CommandInv /\ [CNext]_cvars => CommandInv'
  <1> SUFFICES ASSUME CommandInv, [CNext]_cvars PROVE CommandInv'
    OBVIOUS
  <1>1. ASSUME Next, Statuses PROVE CommandInv'
    <2>1. stage = "running" /\ UNCHANGED <<line, stage, exit>>
      BY <1>1 DEF Statuses
    <2>2. IInv'
      BY <1>1, IInvStep DEF CommandInv
    <2>3. QED
      BY <2>1, <2>2 DEF CommandInv, Meaningful
  <1>2. CASE UNCHANGED cvars
    <2>1. UNCHANGED <<vars, summary, results, line, stage, exit, verdict>>
      BY <1>2 DEF cvars, vars
    <2>2. IInv'
      BY <2>1, IInvStep DEF CommandInv
    <2>3. ExitIsTrue' <=> ExitIsTrue
      BY <2>1 DEF ExitIsTrue, Asked, Meaningful
    <2>4. QED
      BY <2>1, <2>2, <2>3 DEF CommandInv, Meaningful
  <1>3. CASE Parse \/ Finish
    BY <1>3, ParseStep, FinishStep
  <1>4. QED
    BY <1>1, <1>2, <1>3 DEF CNext, CommandMain, CtrlC, CommandWorker, Next

THEOREM CommandInductive == CSpec => []CommandInv
  <1>1. CInit => CommandInv
    BY InitIInv DEF CInit, CommandInv, Init
  <1>2. QED
    BY <1>1, CommandInvStep, PTL DEF CSpec

(* An exit code can be believed.                                           *)
THEOREM ExitCanBeBelieved == CSpec => [](stage = "over" => ExitIsTrue)
  <1>1. CommandInv => (stage = "over" => ExitIsTrue)
    BY DEF CommandInv
  <1>2. QED
    BY <1>1, CommandInductive, PTL

(* What holds of run_tests holds of it under the command.                  *)
THEOREM HoldsUnderTheCommand == CSpec => [](SummaryIsGenuine /\ PythonFirst /\ QuietAtEnd)
  <1>1. CommandInv => SummaryIsGenuine /\ PythonFirst /\ QuietAtEnd
    BY PythonFirstFromInv DEF CommandInv, IInv, Phases, QuietAtEnd, Ended, Working
  <1>2. QED
    BY <1>1, CommandInductive, PTL
=============================================================================
