---------------------------- MODULE ContainerRuns ----------------------------
(***************************************************************************)
(* DockerExecutor.run, kill_live and sweep_orphans (tools/xut/container.py)*)
(* of one xut process with several threads, against a docker daemon whose  *)
(* commands may fail or time out and containers that may run away, be      *)
(* OOM-killed, or outlive the process that started them.                   *)
(*                                                                         *)
(* A container comes up only while its `docker run` client lives.          *)
(***************************************************************************)
EXTENDS FiniteSets, Naturals

CONSTANT Calls   \* the calls of DockerExecutor.run the process makes

VARIABLES
    pc,        \* where each call is
    live,      \* _LIVE
    halt,      \* _HALT
    client,    \* the calls whose `docker run` client is alive
    box,       \* the container of each call
    end,       \* how it ended: why, and what `docker inspect` shows of it
    timedOut,  \* the calls whose host-side timeout fired
    oomLine,   \* what the call's log says of an OOM kill
    stuck,     \* the calls whose docker rm failed
    killer,    \* where the thread that calls kill_live is
    names,     \* kill_live's snapshot
    toKill,    \* the part of it not yet killed
    owner      \* what the xut process's pid stands for

containersVars ==
    <<pc, live, halt, client, box, end, timedOut, oomLine, stuck,
      killer, names, toKill, owner>>

docker == <<client, box, end>>
log == <<timedOut, oomLine, stuck>>
interrupt == <<halt, killer, names, toKill>>

Final == {"idle", "done", "cancelled", "dead"}

NotEnded == [why |-> "none", flag |-> FALSE, sigkill |-> FALSE]

(* An OOM kill may take a child only, and some setups never set the flag.  *)
Ends(why) ==
    [why : {why},
     flag : IF why = "oom" THEN BOOLEAN ELSE {FALSE},
     sigkill : CASE why = "exit" -> {FALSE}
                 [] why = "kill" -> {TRUE}
                 [] OTHER -> BOOLEAN]

ContainersInit ==
    /\ pc = [c \in Calls |-> "idle"]
    /\ live = {} /\ halt = FALSE /\ client = {}
    /\ box = [c \in Calls |-> "none"]
    /\ end = [c \in Calls |-> NotEnded]
    /\ timedOut = {} /\ stuck = {}
    /\ oomLine = [c \in Calls |-> "none"]
    /\ killer = "idle" /\ names = {} /\ toKill = {}
    /\ owner = "xut"

MoveTo(c, from, to) ==
    /\ pc[c] = from
    /\ pc' = [pc EXCEPT ![c] = to]

-----------------------------------------------------------------------------
(* The daemon and the containers                                           *)

Create(c) ==
    /\ c \in client
    /\ box[c] = "none"
    /\ box' = [box EXCEPT ![c] = "up"]
    /\ UNCHANGED <<pc, live, client, end, log, interrupt, owner>>

Stop(c, why) ==
    /\ box[c] = "up"
    /\ box' = [box EXCEPT ![c] = "stopped"]
    /\ \E e \in Ends(why) : end' = [end EXCEPT ![c] = e]

EndsItself(c) ==
    /\ Stop(c, "exit") \/ Stop(c, "oom")
    /\ UNCHANGED <<pc, live, client, log, interrupt, owner>>

(* Mutant: the command does not run under `timeout` in the container.      *)
GuestTimeout_None(c) == FALSE

(* The in-container `timeout` is set later, and longer, than the host's.   *)
GuestTimeout(c) ==
    /\ c \in timedOut \/ pc[c] = "dead"
    /\ Stop(c, "guest")
    /\ UNCHANGED <<pc, live, client, log, interrupt, owner>>

(* `docker kill`: nothing to kill, killed, or the command failed.          *)
DockerKill(c) == Stop(c, "kill") \/ UNCHANGED <<box, end>>

-----------------------------------------------------------------------------
(* DockerExecutor.run                                                      *)

(* Mutant: the halt is checked before the lock is taken.                   *)
Register_Unlocked(c) ==
    /\ \/ ~ halt /\ MoveTo(c, "idle", "checked") /\ UNCHANGED live
       \/ halt /\ MoveTo(c, "idle", "cancelled") /\ UNCHANGED live
       \/ MoveTo(c, "checked", "registered") /\ live' = live \cup {c}
    /\ UNCHANGED <<docker, log, interrupt, owner>>

(* Under _LIVE_LOCK: refuse, or register.                                  *)
Register(c) ==
    /\ owner = "xut"
    /\ IF halt
         THEN MoveTo(c, "idle", "cancelled") /\ UNCHANGED live
         ELSE MoveTo(c, "idle", "registered") /\ live' = live \cup {c}
    /\ UNCHANGED <<docker, log, interrupt, owner>>

(* The lock is released by now: a kill_live may already be past this name. *)
StartClient(c) ==
    /\ MoveTo(c, "registered", "client")
    /\ client' = client \cup {c}
    /\ UNCHANGED <<live, box, end, log, interrupt, owner>>

(* The client exits with the container, or because none could be created.  *)
ClientExit(c) ==
    /\ c \in client
    /\ box[c] \in {"none", "stopped"}
    /\ client' = client \ {c}
    /\ pc' = IF pc[c] = "client" THEN [pc EXCEPT ![c] = "inspect"] ELSE pc
    /\ UNCHANGED <<live, box, end, log, interrupt, owner>>

(* subprocess.run kills the client, not the container.                     *)
HostTimeout(c) ==
    /\ MoveTo(c, "client", "killing")
    /\ c \in client
    /\ client' = client \ {c}
    /\ timedOut' = timedOut \cup {c}
    /\ UNCHANGED <<live, box, end, oomLine, stuck, interrupt, owner>>

KillAfterTimeout(c) ==
    /\ MoveTo(c, "killing", "inspect")
    /\ DockerKill(c)
    /\ UNCHANGED <<live, client, log, interrupt, owner>>

(* Mutant: an exit of 137 after a timeout is an OOM kill too.              *)
OomSeen_TimeoutToo(c) ==
    CASE box[c] = "stopped" /\ end[c].flag -> "reported"
      [] box[c] = "stopped" /\ ~ end[c].flag /\ end[c].sigkill -> "inferred"
      [] OTHER -> "none"

(* What _finish writes when `docker inspect` answers.                      *)
OomSeen(c) ==
    CASE box[c] = "stopped" /\ end[c].flag -> "reported"
      [] box[c] = "stopped" /\ ~ end[c].flag /\ end[c].sigkill /\ c \notin timedOut
           -> "inferred"
      [] OTHER -> "none"

Inspect(c) ==
    /\ MoveTo(c, "inspect", "remove")
    /\ \E seen \in {OomSeen(c), "none"} : oomLine' = [oomLine EXCEPT ![c] = seen]
    /\ UNCHANGED <<live, docker, timedOut, stuck, interrupt, owner>>

(* `docker rm -f` ends a container that still runs; it too may fail.       *)
Remove(c) ==
    /\ MoveTo(c, "remove", "deregister")
    /\ \/ /\ box' = IF box[c] = "none" THEN box ELSE [box EXCEPT ![c] = "gone"]
          /\ UNCHANGED stuck
       \/ /\ stuck' = stuck \cup {c}
          /\ UNCHANGED box
    /\ UNCHANGED <<live, client, end, timedOut, oomLine, interrupt, owner>>

Deregister(c) ==
    /\ MoveTo(c, "deregister", "done")
    /\ live' = live \ {c}
    /\ UNCHANGED <<docker, log, interrupt, owner>>

-----------------------------------------------------------------------------
(* kill_live, the death of the process, and sweep_orphans                  *)

KillLive ==
    /\ killer = "idle" /\ owner = "xut"
    /\ killer' = "killing"
    /\ halt' = TRUE
    /\ names' = live
    /\ toKill' = live
    /\ UNCHANGED <<pc, live, docker, log, owner>>

KillOne(c) ==
    /\ c \in toKill
    /\ toKill' = toKill \ {c}
    /\ DockerKill(c)
    /\ UNCHANGED <<pc, live, halt, client, log, killer, names, owner>>

KillLiveReturns ==
    /\ killer = "killing" /\ toKill = {}
    /\ killer' = "returned"
    /\ UNCHANGED <<pc, live, halt, docker, log, names, toKill, owner>>

(* SIGKILL of xut: its clients and containers run on.                      *)
Die ==
    /\ owner = "xut"
    /\ owner' = "nobody"
    /\ pc' = [c \in Calls |-> IF pc[c] \in Final THEN pc[c] ELSE "dead"]
    /\ toKill' = {}
    /\ killer' = "dead"
    /\ UNCHANGED <<live, halt, docker, log, names>>

(* The pid may be given to another process, and that one may end.          *)
PidReused ==
    /\ owner # "xut"
    /\ owner' = IF owner = "nobody" THEN "stranger" ELSE "nobody"
    /\ UNCHANGED <<pc, live, docker, log, interrupt>>

(* `xut doctor --sweep-containers`, run by somebody else.                  *)
Sweep(c) ==
    /\ owner = "nobody"
    /\ box[c] \in {"up", "stopped"}
    /\ box' = [box EXCEPT ![c] = "gone"]
    /\ client' = client \ {c}
    /\ UNCHANGED <<pc, live, end, log, interrupt, owner>>

ContainersNext ==
    \/ \E c \in Calls :
          \/ Create(c) \/ EndsItself(c) \/ GuestTimeout(c)
          \/ Register(c) \/ StartClient(c) \/ ClientExit(c)
          \/ HostTimeout(c) \/ KillAfterTimeout(c) \/ Inspect(c) \/ Remove(c) \/ Deregister(c)
          \/ KillOne(c) \/ Sweep(c)
    \/ KillLive \/ KillLiveReturns \/ Die \/ PidReused

ContainersSpec == ContainersInit /\ [][ContainersNext]_containersVars

(* The process's threads and its timers run on, and so does the timer in   *)
(* a container.  A container need not end by itself, no docker command     *)
(* need succeed, and nobody need sweep.                                    *)
ContainersFairness ==
    \A c \in Calls :
        /\ WF_containersVars(ClientExit(c))
        /\ WF_containersVars(HostTimeout(c))
        /\ WF_containersVars(\/ StartClient(c) \/ KillAfterTimeout(c)
                             \/ Inspect(c) \/ Remove(c) \/ Deregister(c))
        /\ WF_containersVars(KillOne(c))
        /\ WF_containersVars(GuestTimeout(c))

ContainersFairSpec ==
    ContainersSpec /\ ContainersFairness /\ WF_containersVars(KillLiveReturns)

-----------------------------------------------------------------------------
ContainersTypeOK ==
    /\ pc \in [Calls -> {"idle", "registered", "client", "killing", "inspect",
                         "remove", "deregister", "done", "cancelled", "dead"}]
    /\ halt \in BOOLEAN
    /\ live \subseteq Calls /\ client \subseteq Calls /\ timedOut \subseteq Calls
    /\ stuck \subseteq Calls /\ names \subseteq Calls /\ toKill \subseteq Calls
    /\ box \in [Calls -> {"none", "up", "stopped", "gone"}]
    /\ end \in [Calls -> [why : {"none", "exit", "oom", "kill", "guest"},
                          flag : BOOLEAN, sigkill : BOOLEAN]]
    /\ oomLine \in [Calls -> {"none", "reported", "inferred"}]
    /\ killer \in {"idle", "killing", "returned", "dead"}
    /\ owner \in {"xut", "nobody", "stranger"}

(* "A container is either in the snapshot or never starts": once kill_live *)
(* has halted the process, every call that could still bring a container   *)
(* up, or has one up, is in its snapshot or had been finished with.        *)
NoneUnseen ==
    halt => \A c \in Calls :
                pc[c] \notin Final => c \in names

(* The same of a container that comes up after the halt.                   *)
NoneStartsUnseen ==
    [][\A c \in Calls : halt /\ box[c] = "none" /\ box'[c] = "up" => c \in names]_containersVars

(* An OOM line in a log is about an OOM kill, unless kill_live was called: *)
(* a container it kills exits with 137 and no timeout as well.             *)
OomLineIsReal ==
    \A c \in Calls : oomLine[c] # "none" /\ ~ halt => end[c].why = "oom"

(* Every path out of a run removes its container, also when the kill after *)
(* a timeout failed or the container was never created; only a docker rm   *)
(* that itself fails leaves one.                                           *)
RemovedOnEveryPath ==
    \A c \in Calls : pc[c] = "done" /\ c \notin stuck => box[c] \in {"none", "gone"}

(* A runaway container ends, whoever was killed and whichever docker       *)
(* command failed: nothing stays up for ever.                              *)
ContainersEnd == \A c \in Calls : box[c] = "up" ~> box[c] # "up"

Drained == \A c \in Calls : pc[c] \in Final /\ box[c] # "up"

(* An interrupt drains the process: if it is not killed meanwhile, every   *)
(* call ends, and no container comes up again.                             *)
InterruptDrains == halt ~> owner # "xut" \/ [](owner = "xut" => Drained)
=============================================================================
