---------------------------- MODULE VivadoSlots ----------------------------
(***************************************************************************)
(* vivado_slot (tools/xut/slots.py) around xsim.run_script: a thread scans *)
(* the slot files of the host with a non-blocking flock, runs Vivado in a  *)
(* session of its own while it holds one, and gives it back.  The          *)
(* descriptor is not inherited, so a slot is the thread's, not Vivado's.   *)
(***************************************************************************)
EXTENDS Integers, FiniteSets

CONSTANTS
    Runs,     \* calls of run_script, by threads of some process
    Procs,    \* xut processes
    Proc,     \* [Runs -> Procs]
    Limit,    \* [Procs -> Nat]: slot_count() in that process's environment
    Stubborn, \* calls whose Vivado may outlive SIGKILL by more than the grace
    NoSlot

ASSUME SlotsAssumption ==
    /\ Proc \in [Runs -> Procs]
    /\ Limit \in [Procs -> Nat \ {0}]
    /\ \A p \in Procs : NoSlot \notin 0 .. Limit[p] - 1

VARIABLES
    place,      \* where each call is
    next,    \* the slot its scan tries next
    slot,    \* the slot it has locked
    vivado   \* the calls whose Vivado process group is alive

slotsVars == <<place, next, slot, vivado>>

SlotsOf(r) == 0 .. Limit[Proc[r]] - 1

SlotsInit ==
    /\ place = [r \in Runs |-> "idle"]
    /\ next = [r \in Runs |-> 0]
    /\ slot = [r \in Runs |-> NoSlot]
    /\ vivado = {}

MoveCall(r, from, to) ==
    /\ place[r] = from
    /\ place' = [place EXCEPT ![r] = to]

Request(r) ==
    /\ MoveCall(r, "idle", "scanning")
    /\ UNCHANGED <<next, slot, vivado>>

(* Mutant: the lock is a process's (POSIX), not an open file's.            *)
Locked_ByProcess(r, i) == \E s \in Runs : Proc[s] # Proc[r] /\ slot[s] = i

Locked(r, i) == \E s \in Runs : slot[s] = i

(* One step of the scan: take the slot if it is free, else try the next.   *)
TrySlot(r) ==
    /\ place[r] = "scanning"
    /\ next[r] \in SlotsOf(r)
    /\ IF Locked(r, next[r])
         THEN /\ next' = [next EXCEPT ![r] = @ + 1]
              /\ UNCHANGED <<place, slot>>
         ELSE /\ place' = [place EXCEPT ![r] = "holding"]
              /\ slot' = [slot EXCEPT ![r] = next[r]]
              /\ UNCHANGED next
    /\ UNCHANGED vivado

(* Mutant: once every slot was busy the scan is not begun again.           *)
ScanAgain_GivesUp(r) == FALSE

(* Every slot was busy: sleep, then scan again from the first.             *)
ScanAgain(r) ==
    /\ place[r] = "scanning"
    /\ next[r] \notin SlotsOf(r)
    /\ next' = [next EXCEPT ![r] = 0]
    /\ UNCHANGED <<place, slot, vivado>>

LaunchVivado(r) ==
    /\ MoveCall(r, "holding", "waiting")
    /\ vivado' = vivado \cup {r}
    /\ UNCHANGED <<next, slot>>

VivadoExit(r) ==
    /\ r \in vivado
    /\ vivado' = vivado \ {r}
    /\ UNCHANGED <<place, next, slot>>

Release(r) == slot' = [slot EXCEPT ![r] = NoSlot]

(* p.wait returns and the `with` block ends.                               *)
CollectRun(r) ==
    /\ r \notin vivado
    /\ MoveCall(r, "waiting", "done")
    /\ Release(r)
    /\ UNCHANGED <<next, vivado>>

(* The timeout: killpg, then a wait that itself may time out on a process  *)
(* the kernel cannot end yet; the slot is released either way.             *)
Timeout(r) ==
    /\ MoveCall(r, "waiting", "done")
    /\ \/ vivado' = vivado \ {r}
       \/ r \in Stubborn /\ UNCHANGED vivado
    /\ Release(r)
    /\ UNCHANGED next

(* A whole xut process is killed: the kernel drops its locks; Vivado, in   *)
(* its own session, is not signalled.                                      *)
KillProcess(p) ==
    LET mine == {r \in Runs : Proc[r] = p /\ place[r] # "done"} IN
    /\ \E r \in mine : place[r] # "idle" /\ place[r] # "dead"
    /\ place' = [r \in Runs |-> IF r \in mine THEN "dead" ELSE place[r]]
    /\ slot' = [r \in Runs |-> IF r \in mine THEN NoSlot ELSE slot[r]]
    /\ UNCHANGED <<next, vivado>>

SlotsNext ==
    \/ \E r \in Runs :
          \/ Request(r) \/ TrySlot(r) \/ ScanAgain(r) \/ LaunchVivado(r)
          \/ VivadoExit(r) \/ CollectRun(r) \/ Timeout(r)
    \/ \E p \in Procs : KillProcess(p)

SlotsSpec == SlotsInit /\ [][SlotsNext]_slotsVars

(* Threads run on and Vivado ends (its timeout bounds it).  A call may be  *)
(* overtaken by another between two of its polls, but there are only       *)
(* finitely many calls.                                                    *)
SlotsFairness ==
    \A r \in Runs :
        /\ WF_slotsVars(TrySlot(r) \/ ScanAgain(r))
        /\ WF_slotsVars(LaunchVivado(r))
        /\ WF_slotsVars(VivadoExit(r))
        /\ WF_slotsVars(CollectRun(r))

SlotsFairSpec == SlotsSpec /\ SlotsFairness

-----------------------------------------------------------------------------
SlotsTypeOK ==
    /\ place \in [Runs -> {"idle", "scanning", "holding", "waiting", "done", "dead"}]
    /\ next \in [Runs -> Nat]
    /\ \A r \in Runs : next[r] <= Limit[Proc[r]]
    /\ slot \in [Runs -> Int \cup {NoSlot}]
    /\ \A r \in Runs : slot[r] \in SlotsOf(r) \cup {NoSlot}
    /\ vivado \subseteq Runs

Attended == {r \in vivado : place[r] = "waiting"}

(* The limit, as far as a live xut process waits for the run, and also     *)
(* when processes disagree on $XUT_VIVADO_SLOTS: for every n, at most n    *)
(* Vivado runs belong to processes that allow at most n.                   *)
AttendedWithinLimit ==
    \A p \in Procs :
        Cardinality({r \in Attended : Limit[Proc[r]] <= Limit[p]}) <= Limit[p]

(* A slot is never lost: whatever times out or is killed while others      *)
(* wait, every call that asked for a slot is done in the end.              *)
EveryCallEnds ==
    \A r \in Runs : place[r] = "scanning" ~> place[r] \in {"done", "dead"}
=============================================================================
