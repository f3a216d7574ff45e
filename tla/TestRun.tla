------------------------------- MODULE TestRun -------------------------------
(***************************************************************************)
(* run_tests (tools/xut/run.py): every selected runner on every selected   *)
(* test; python first and one at a time, the rest in a pool of threads,    *)
(* with a KeyboardInterrupt at any point of it.                            *)
(*                                                                         *)
(* A run has a result: its own, or, when kill_live ended its container     *)
(* under it, one that is an artefact of the kill.                          *)
(***************************************************************************)
EXTENDS Naturals, Sequences, FiniteSets

CONSTANTS
    CaseCount,  \* the selected tests are 1 .. CaseCount, in order
    Vector,     \* those of style "vector"
    Selected,   \* the sequence of runner names on the command line
    Jobs        \* ctx.jobs

ASSUME SelectionAssumption ==
    /\ CaseCount \in Nat
    /\ Vector \subseteq 1 .. CaseCount
    /\ Selected \in Seq(STRING)
    /\ Jobs \in Nat \ {0}

VARIABLES
    main,      \* where run_tests is
    todo,      \* what the loop it is in has still to go through
    fut,       \* the job of each pair of Rest, and then its future
    stop,      \* the stop event
    killed,    \* kill_live was called
    futures,   \* the jobs the variable `futures` names
    finished,  \* of those, the ones done before kill_live
    res,       \* what the result of each job is
    python,    \* the python run each vector test has on disk
    results,   \* the pairs in `results`, with what their result is
    summary    \* the summary file

vars == <<main, todo, fut, stop, killed, futures, finished, res, python, results, summary>>

-----------------------------------------------------------------------------
(* What is run                                                             *)

Named(s) == {s[i] : i \in 1 .. Len(s)}

(* A list of names, each once at its first place (dict.fromkeys): who is   *)
(* in it, and who comes before whom.                                       *)
Deduplicated(s) ==
    LET At(n) == CHOOSE i \in 1 .. Len(s) : s[i] = n /\ \A j \in 1 .. i - 1 : s[j] # n
    IN  [names |-> Named(s), before |-> {p \in Named(s) \X Named(s) : At(p[1]) < At(p[2])}]

(* COMPANIONS: verilator brings iverilog-vz, as the last.                  *)
with_companions(list) ==
    IF "verilator" \in list.names /\ "iverilog-vz" \notin list.names
      THEN [names |-> list.names \cup {"iverilog-vz"},
            before |-> list.before \cup list.names \X {"iverilog-vz"}]
      ELSE list

Names == with_companions(Deduplicated(Selected))

(* The pairs of a test and a runner: `first`, and the pool's `rest`.       *)
First == IF Names.names = {} THEN {} ELSE Vector \X {"python"}

Pooled(p) == ~ (p[2] = "python" /\ p[1] \in Vector)

Rest == {p \in (1 .. CaseCount) \X Names.names : Pooled(p)}

Pairs == First \cup Rest

(* Tests in order, and the runners of each in theirs.                      *)
Earlier(p, q) == p[1] < q[1] \/ (p[1] = q[1] /\ <<p[2], q[2]>> \in Names.before)

-----------------------------------------------------------------------------
Init ==
    /\ main = "python" /\ todo = First
    /\ fut = [j \in Rest |-> "none"]
    /\ stop = FALSE /\ killed = FALSE
    /\ futures = {} /\ finished = {}
    /\ res = [j \in Rest |-> "none"]
    /\ python = [c \in Vector |-> "old"]
    /\ results = {}
    /\ summary = "old"

pool == <<fut, res>>
ending == <<killed, futures, finished, results, summary>>

(* Every loop goes through its list in order.                              *)
IsNext(p) == p \in todo /\ \A q \in todo : ~ Earlier(q, p)

(* A python run starts: its directory is removed and made anew.            *)
PythonStart ==
    /\ main = "python"
    /\ main' = "in python"
    /\ \E p \in First : IsNext(p) /\ python' = [python EXCEPT ![p[1]] = "none"]
    /\ UNCHANGED <<todo, pool, stop, ending>>

PythonEnd ==
    /\ main = "in python"
    /\ main' = "python"
    /\ \E p \in First :
          /\ IsNext(p)
          /\ todo' = todo \ {p}
          /\ python' = [python EXCEPT ![p[1]] = "own"]
          /\ results' = results \cup {<<p, "own">>}
    /\ UNCHANGED <<pool, stop, killed, futures, finished, summary>>

(* Mutant: one python run short.                                           *)
PythonDone_OneShort ==
    /\ main = "python" /\ Cardinality(todo) <= 1
    /\ main' = "submitting"
    /\ todo' = Rest
    /\ UNCHANGED <<pool, python, stop, ending>>

PythonDone ==
    /\ main = "python" /\ todo = {}
    /\ main' = "submitting"
    /\ todo' = Rest
    /\ UNCHANGED <<pool, python, stop, ending>>

Submit ==
    /\ main = "submitting"
    /\ \E j \in Rest :
          /\ IsNext(j)
          /\ fut' = [fut EXCEPT ![j] = "queued"]
          /\ todo' = todo \ {j}
    /\ UNCHANGED <<main, res, python, stop, ending>>

(* `futures` is assigned when every job has been submitted.                *)
Submitted ==
    /\ main = "submitting" /\ todo = {}
    /\ main' = "waiting"
    /\ todo' = Rest
    /\ futures' = Rest
    /\ UNCHANGED <<pool, python, stop, killed, finished, results, summary>>

Settled(j) == fut[j] \in {"done", "refused", "interrupted", "cancelled"}

(* f.result(), in order; an exception of a job that is no                  *)
(* KeyboardInterrupt would leave run_tests.                                *)
Wait ==
    /\ main = "waiting"
    /\ \E j \in Rest :
          /\ IsNext(j) /\ Settled(j)
          /\ todo' = todo \ {j}
          /\ main' = IF fut[j] = "done" THEN main ELSE "escaped"
    /\ UNCHANGED <<pool, python, stop, ending>>

write_summary(interrupted) ==
    summary' = IF interrupted THEN "interrupted" ELSE "complete"

With(S) == results \cup {<<j, res[j]>> : j \in S}

Return ==
    /\ main = "waiting" /\ todo = {}
    /\ main' = "returned"
    /\ results' = With(Rest)
    /\ write_summary(FALSE)
    /\ UNCHANGED <<todo, pool, python, stop, killed, futures, finished>>

-----------------------------------------------------------------------------
(* The pool                                                                *)

Working == {j \in Rest : fut[j] \in {"taken", "running", "written"}}

(* A worker takes the oldest job of the queue.                             *)
Take(j) ==
    /\ fut[j] = "queued"
    /\ \A i \in Rest : fut[i] = "queued" => ~ Earlier(i, j)
    /\ Cardinality(Working) < Jobs
    /\ fut' = [fut EXCEPT ![j] = "taken"]
    /\ UNCHANGED <<main, todo, res, python, stop, ending>>

Begin(j) ==
    /\ fut[j] = "taken"
    /\ fut' = [fut EXCEPT ![j] = IF stop THEN "refused" ELSE "running"]
    /\ UNCHANGED <<main, todo, res, python, stop, ending>>

(* A run has a result on every path, an error result if all else fails.    *)
(* After kill_live it may be that of a run whose container was killed.     *)
_one == IF killed THEN {"own", "artefact"} ELSE {"own"}

(* Runner.run writes and returns it.                                       *)
Write(j) ==
    /\ fut[j] = "running"
    /\ fut' = [fut EXCEPT ![j] = "written"]
    /\ \E r \in _one : res' = [res EXCEPT ![j] = r]
    /\ UNCHANGED <<main, todo, python, stop, ending>>

(* After kill_live DockerExecutor.run refuses: RunCancelled, which is a    *)
(* KeyboardInterrupt and passes every `except Exception`.                  *)
Cancelled(j) ==
    /\ fut[j] = "running"
    /\ killed
    /\ fut' = [fut EXCEPT ![j] = "interrupted"]
    /\ stop' = TRUE
    /\ UNCHANGED <<main, todo, res, python, ending>>

(* The progress line, and the future gets its result.                      *)
Settle(j) ==
    /\ fut[j] = "written"
    /\ fut' = [fut EXCEPT ![j] = "done"]
    /\ UNCHANGED <<main, todo, res, python, stop, ending>>

-----------------------------------------------------------------------------
(* KeyboardInterrupt: Python delivers it to the main thread                *)

Interrupt ==
    /\ main \in {"python", "in python", "submitting", "waiting"}
    /\ main' = "cancelling"
    /\ stop' = TRUE
    /\ UNCHANGED <<todo, pool, python, ending>>

(* shutdown(wait = False, cancel_futures = True) empties the queue.        *)
CancelOne(j) ==
    /\ main = "cancelling"
    /\ fut[j] = "queued"
    /\ fut' = [fut EXCEPT ![j] = "cancelled"]
    /\ UNCHANGED <<main, todo, res, python, stop, ending>>

(* Mutant: what is finished is asked after the kill and the wait.          *)
Snapshot_Late ==
    /\ main = "cancelling"
    /\ \A j \in Rest : fut[j] # "queued"
    /\ main' = "killing"
    /\ finished' = futures
    /\ UNCHANGED <<todo, pool, python, stop, killed, futures, results, summary>>

Snapshot ==
    /\ main = "cancelling"
    /\ \A j \in Rest : fut[j] # "queued"
    /\ main' = "killing"
    /\ finished' = {j \in futures : Settled(j)}
    /\ UNCHANGED <<todo, pool, python, stop, killed, futures, results, summary>>

KillLive ==
    /\ main = "killing"
    /\ main' = "draining"
    /\ killed' = TRUE
    /\ UNCHANGED <<todo, pool, python, stop, futures, finished, results, summary>>

(* Mutant: it is waited until every job is done.                           *)
Drained_AllDone == \A j \in Rest : fut[j] = "done"

Drained == Working = {}

(* Mutant: every finished future is asked for its result.                  *)
Recordable_Every(j) == TRUE

Recordable(j) == fut[j] = "done"

(* shutdown(wait = True), the summary, and the interrupt goes on.          *)
Interrupted ==
    /\ main = "draining"
    /\ Drained
    /\ IF \A j \in finished : Recordable(j) => fut[j] = "done"
         THEN /\ main' = "interrupted"
              /\ results' = With({j \in finished : Recordable(j)})
              /\ write_summary(TRUE)
         ELSE /\ main' = "escaped"
              /\ UNCHANGED <<results, summary>>
    /\ UNCHANGED <<todo, pool, python, stop, killed, futures, finished>>

Main ==
    \/ PythonStart \/ PythonEnd \/ PythonDone
    \/ Submit \/ Submitted \/ Wait \/ Return
    \/ \E j \in Rest : CancelOne(j)
    \/ Snapshot \/ KillLive \/ Interrupted

Worker(j) == Take(j) \/ Begin(j) \/ Write(j) \/ Cancelled(j) \/ Settle(j)

Next == Main \/ Interrupt \/ \E j \in Rest : Worker(j)

Spec == Init /\ [][Next]_vars

-----------------------------------------------------------------------------
Ended == {"returned", "interrupted", "escaped"}

TypeOK ==
    /\ main \in {"python", "in python", "submitting", "waiting", "cancelling",
                 "killing", "draining"} \cup Ended
    /\ todo \subseteq Pairs
    /\ fut \in [Rest -> {"none", "queued", "taken", "running", "written", "done",
                      "refused", "interrupted", "cancelled"}]
    /\ stop \in BOOLEAN /\ killed \in BOOLEAN
    /\ futures \subseteq Rest /\ finished \subseteq Rest
    /\ res \in [Rest -> {"none", "own", "artefact"}]
    /\ python \in [Vector -> {"old", "none", "own"}]
    /\ results \subseteq Pairs \X {"own", "artefact"}
    /\ summary \in {"old", "complete", "interrupted"}

(* "A killed run's result is an artefact of the kill, so only runs done    *)
(* before it are recorded": whatever the workers still write while the     *)
(* pool drains, the summary holds results of whole runs only.              *)
SummaryIsGenuine == \A r \in results : r[2] = "own"

(* "The python run is the source of truth for vector tests": a runner      *)
(* reads its configurations and expected traces from this invocation's     *)
(* python run, never from an older one.                                    *)
PythonFirst ==
    \A j \in Rest :
        fut[j] = "running" /\ j[1] \in Vector
            => python[j[1]] = "own"

(* When run_tests is left, by whichever way, nothing runs in its pool and  *)
(* no result.json is being written any more.                               *)
QuietAtEnd == main \in Ended => Working = {}

(* The internal _Cancelled never leaves run_tests: an interrupt ends in a  *)
(* summary and a KeyboardInterrupt.                                        *)
CancelledNeverEscapes == main # "escaped"
=============================================================================
