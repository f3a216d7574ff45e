--------------------------- MODULE HeavyAdmission ---------------------------
(***************************************************************************)
(* `xut heavy` (tools/xut/heavy.py): a command declares its memory, waits  *)
(* until it holds that many tokens of the host budget, and runs in a       *)
(* capped scope that inherits the token locks.                             *)
(*                                                                         *)
(* A lock is a flock on an open file description.  The description of one  *)
(* invocation is shared by two file tables: the `xut heavy` process's and  *)
(* the scope's (pass_fds), and the kernel drops the lock when the last     *)
(* table drops it.  gate.lock is never passed on.                          *)
(***************************************************************************)
EXTENDS Integers, FiniteSets

CONSTANTS
    Commands,     \* invocations of `xut heavy`
    OldCommands,  \* commands still started with flock xut-heavy.lock
    NoCommand,    \* the gate is free; an invocation outside any scope
    TOKENS,       \* tokens of the whole budget
    TOKEN_G,      \* the memory one token stands for
    VIVADO_G,     \* the size of one Vivado scope
    ContainerCap, \* the memory cap of one container
    Mem,          \* [Commands -> Nat]: --mem
    Containers,   \* [Commands -> Nat]: --containers
    Vivado,       \* [Commands -> Nat]: --vivado
    MEMORY_MIN, MEMORY_MAX, \* what a container cap may be
    Line,         \* the commands on each command line, shell scripts opened up
    Outer,        \* the command whose scope an invocation is started in
    Recurring     \* commands that are invoked again after they end

ASSUME CommandsAssumption ==
    /\ NoCommand \notin Commands
    /\ Outer \in [Commands -> Commands \cup {NoCommand}]
    /\ Recurring \subseteq Commands

ASSUME BudgetAssumption ==
    /\ TOKENS \in Nat \ {0}
    /\ TOKEN_G \in Nat \ {0}
    /\ VIVADO_G \in Nat
    /\ ContainerCap \in Nat
    /\ MEMORY_MIN \in Nat /\ MEMORY_MAX \in Nat
    /\ Mem \in [Commands -> Nat \ {0}]
    /\ Containers \in [Commands -> Nat]
    /\ Vivado \in [Commands -> Nat]
    /\ Line \in [Commands -> SUBSET [tool : STRING, auto : BOOLEAN, jobs : SUBSET Nat]]

VARIABLES
    proc,      \* where each `xut heavy` process is
    scope,     \* each command's process tree: the command, then what it leaves behind
    tokenFd,   \* the token files each process has open and locked
    scopeFd,   \* the token files each scope inherited
    legacyFd,  \* the processes that have xut-heavy.lock open, locked shared
    gate,      \* the process that holds gate.lock
    scan,      \* the index the scan of the tokens is at
    old        \* where each old-style command is

vars == <<proc, scope, tokenFd, scopeFd, legacyFd, gate, scan, old>>

Tokens == 0 .. TOKENS - 1

ProcStates == {"idle", "legacy", "gate", "taking", "admitted", "running",
               "closing", "ended", "refused", "dead"}

-----------------------------------------------------------------------------
(* Declarations                                                            *)

Declared(c) == Mem[c] + Containers[c] * ContainerCap + Vivado[c] * VIVADO_G

(* Mutant: rounded down.                                                   *)
tokens_for_Floor(c) == Declared(c) \div TOKEN_G

(* The declared memory in whole tokens, rounded up.                        *)
tokens_for(c) == (Declared(c) + TOKEN_G - 1) \div TOKEN_G

Nested(c) == Outer[c] # NoCommand

_PAR == {"pytest", "xut", "make", "ninja"}

(* The commands of the line whose parallelism options are known.           *)
_commands(c) == {cmd \in Line[c] : cmd.tool \in _PAR}

declared_parallelism(c) == UNION {cmd.jobs : cmd \in _commands(c)}

container_memory == MEMORY_MIN <= ContainerCap /\ ContainerCap <= MEMORY_MAX

Accepted(c) ==
    /\ ~ Nested(c)
    /\ \A cmd \in _commands(c) : ~ cmd.auto
    /\ \A n \in declared_parallelism(c) : n <= Containers[c]
    /\ container_memory /\ MEMORY_MIN <= Mem[c]
    /\ tokens_for(c) <= TOKENS

-----------------------------------------------------------------------------
(* Locks                                                                   *)

TokensOf(c) == tokenFd[c] \cup scopeFd[c]

(* Mutant: the token files are not passed to the command.                  *)
Free_NotPassedOn(t) == \A c \in Commands : t \notin tokenFd[c]

Free(t) == \A c \in Commands : t \notin TokensOf(c)

(* Mutant: xut-heavy.lock is not passed to the command.                    *)
SharesLegacy_NotPassedOn(c) == c \in legacyFd

SharesLegacy(c) == c \in legacyFd \/ scope[c] # "none"

OldRunning == \E o \in OldCommands : old[o] = "running"

-----------------------------------------------------------------------------
Init ==
    /\ proc = [c \in Commands |-> "idle"]
    /\ scope = [c \in Commands |-> "none"]
    /\ tokenFd = [c \in Commands |-> {}]
    /\ scopeFd = [c \in Commands |-> {}]
    /\ legacyFd = {}
    /\ gate = NoCommand
    /\ scan = [c \in Commands |-> 0]
    /\ old = [o \in OldCommands |-> "idle"]

Move(c, from, to) ==
    /\ proc[c] = from
    /\ proc' = [proc EXCEPT ![c] = to]

(* run(): every check of the declaration precedes the first lock.          *)
Start(c) ==
    /\ Nested(c) => scope[Outer[c]] = "command"
    /\ Move(c, "idle", IF Accepted(c) THEN "legacy" ELSE "refused")
    /\ UNCHANGED <<scope, tokenFd, scopeFd, legacyFd, gate, scan, old>>

(* A shared flock is granted whenever nobody holds the file exclusively,   *)
(* whether or not somebody waits to.                                       *)
ShareLegacy(c) ==
    /\ ~ OldRunning
    /\ Move(c, "legacy", "gate")
    /\ legacyFd' = legacyFd \cup {c}
    /\ UNCHANGED <<scope, tokenFd, scopeFd, gate, scan, old>>

(* Mutant: tokens are taken without waiting for the gate.                  *)
TakeGate_NoWait(c) ==
    /\ Move(c, "gate", "taking")
    /\ gate' = c
    /\ scan' = [scan EXCEPT ![c] = 0]
    /\ UNCHANGED <<scope, tokenFd, scopeFd, legacyFd, old>>

TakeGate(c) ==
    /\ gate = NoCommand
    /\ Move(c, "gate", "taking")
    /\ gate' = c
    /\ scan' = [scan EXCEPT ![c] = 0]
    /\ UNCHANGED <<scope, tokenFd, scopeFd, legacyFd, old>>

Enough(c) == Cardinality(tokenFd[c]) = tokens_for(c)

(* One step of _take_tokens' for loop: a busy token is passed over, and so *)
(* is one this command took in an earlier pass.                            *)
TryToken(c) ==
    /\ proc[c] = "taking"
    /\ ~ Enough(c)
    /\ scan[c] < TOKENS
    /\ tokenFd' = IF Free(scan[c])
                    THEN [tokenFd EXCEPT ![c] = @ \cup {scan[c]}]
                    ELSE tokenFd
    /\ scan' = [scan EXCEPT ![c] = @ + 1]
    /\ UNCHANGED <<proc, scope, scopeFd, legacyFd, gate, old>>

(* The pass took too few: sleep, then scan again, keeping what it took.    *)
Rescan(c) ==
    /\ proc[c] = "taking"
    /\ ~ Enough(c)
    /\ scan[c] = TOKENS
    /\ scan' = [scan EXCEPT ![c] = 0]
    /\ UNCHANGED <<proc, scope, tokenFd, scopeFd, legacyFd, gate, old>>

LeaveGate(c) ==
    /\ Enough(c)
    /\ Move(c, "taking", "admitted")
    /\ gate' = NoCommand
    /\ UNCHANGED <<scope, tokenFd, scopeFd, legacyFd, scan, old>>

(* subprocess.run(argv, pass_fds = fds): the scope gets every token file   *)
(* and the shared xut-heavy.lock.                                          *)
Launch(c) ==
    /\ Move(c, "admitted", "running")
    /\ scope' = [scope EXCEPT ![c] = "command"]
    /\ scopeFd' = [scopeFd EXCEPT ![c] = tokenFd[c]]
    /\ UNCHANGED <<tokenFd, legacyFd, gate, scan, old>>

(* The command ends, once every `xut heavy` it started has; processes it   *)
(* left in the background may outlive it, and they hold its files.         *)
CommandExit(c) ==
    /\ scope[c] = "command"
    /\ \A d \in Commands : Outer[d] = c =>
          proc[d] \in {"idle", "ended", "refused", "dead"}
    /\ \/ /\ scope' = [scope EXCEPT ![c] = "none"]
          /\ scopeFd' = [scopeFd EXCEPT ![c] = {}]
       \/ /\ scope' = [scope EXCEPT ![c] = "leftover"]
          /\ UNCHANGED scopeFd
    /\ UNCHANGED <<proc, tokenFd, legacyFd, gate, scan, old>>

LeftoverExit(c) ==
    /\ scope[c] = "leftover"
    /\ scope' = [scope EXCEPT ![c] = "none"]
    /\ scopeFd' = [scopeFd EXCEPT ![c] = {}]
    /\ UNCHANGED <<proc, tokenFd, legacyFd, gate, scan, old>>

(* subprocess.run waits for the command only, not for what it left behind. *)
Collect(c) ==
    /\ scope[c] # "command"
    /\ Move(c, "running", "closing")
    /\ UNCHANGED <<scope, tokenFd, scopeFd, legacyFd, gate, scan, old>>

(* The ExitStack closes the token files one by one, xut-heavy.lock last.   *)
CloseToken(c) ==
    /\ proc[c] = "closing"
    /\ \E t \in tokenFd[c] : tokenFd' = [tokenFd EXCEPT ![c] = @ \ {t}]
    /\ UNCHANGED <<proc, scope, scopeFd, legacyFd, gate, scan, old>>

CloseLegacy(c) ==
    /\ tokenFd[c] = {}
    /\ Move(c, "closing", "ended")
    /\ legacyFd' = legacyFd \ {c}
    /\ UNCHANGED <<scope, tokenFd, scopeFd, gate, scan, old>>

(* The `xut heavy` process is killed: the kernel closes its file table     *)
(* only, so a running scope keeps every lock it inherited.                 *)
Kill(c) ==
    /\ proc[c] \in {"legacy", "gate", "taking", "admitted", "running", "closing"}
    /\ proc' = [proc EXCEPT ![c] = "dead"]
    /\ tokenFd' = [tokenFd EXCEPT ![c] = {}]
    /\ legacyFd' = legacyFd \ {c}
    /\ gate' = IF gate = c THEN NoCommand ELSE gate
    /\ UNCHANGED <<scope, scopeFd, scan, old>>

(* KeyboardInterrupt before the command runs: the gate's `with` block and  *)
(* then the ExitStack are unwound.                                         *)
Interrupt(c) ==
    /\ proc[c] \in {"legacy", "gate", "taking", "admitted"}
    /\ proc' = [proc EXCEPT ![c] = "closing"]
    /\ gate' = IF gate = c THEN NoCommand ELSE gate
    /\ UNCHANGED <<scope, tokenFd, scopeFd, legacyFd, scan, old>>

Again(c) ==
    /\ c \in Recurring
    /\ proc[c] \in {"ended", "refused", "dead"}
    /\ scope[c] = "none"
    /\ proc' = [proc EXCEPT ![c] = "idle"]
    /\ UNCHANGED <<scope, tokenFd, scopeFd, legacyFd, gate, scan, old>>

(* flock "$XDG_RUNTIME_DIR/xut-heavy.lock" <command>                       *)
OldAcquire(o) ==
    /\ old[o] = "idle"
    /\ ~ OldRunning
    /\ \A c \in Commands : ~ SharesLegacy(c)
    /\ old' = [old EXCEPT ![o] = "running"]
    /\ UNCHANGED <<proc, scope, tokenFd, scopeFd, legacyFd, gate, scan>>

OldExit(o) ==
    /\ old[o] = "running"
    /\ old' = [old EXCEPT ![o] = "idle"]
    /\ UNCHANGED <<proc, scope, tokenFd, scopeFd, legacyFd, gate, scan>>

-----------------------------------------------------------------------------
Invocation(c) ==
    \/ Start(c) \/ ShareLegacy(c) \/ TakeGate(c)
    \/ TryToken(c) \/ Rescan(c) \/ LeaveGate(c)
    \/ Launch(c) \/ Collect(c) \/ CloseToken(c) \/ CloseLegacy(c)
    \/ Interrupt(c) \/ Kill(c) \/ Again(c)

Scope(c) == CommandExit(c) \/ LeftoverExit(c)

OldCommand(o) == OldAcquire(o) \/ OldExit(o)

Next ==
    \/ \E c \in Commands : Invocation(c) \/ Scope(c)
    \/ \E o \in OldCommands : OldCommand(o)

Spec == Init /\ [][Next]_vars

(* A process that can go on does, and every command ends: heavy commands   *)
(* are finite jobs.  Nothing makes a command start, be killed or be        *)
(* repeated, and nobody is promised the gate against its competitors:      *)
(* flock wakes its waiters in no particular order.                         *)
Fairness ==
    /\ \A c \in Commands :
          /\ WF_vars(ShareLegacy(c))
          /\ WF_vars(TakeGate(c))
          /\ WF_vars(TryToken(c) \/ Rescan(c) \/ LeaveGate(c))
          /\ WF_vars(Launch(c))
          /\ WF_vars(Collect(c) \/ CloseToken(c) \/ CloseLegacy(c))
          /\ WF_vars(CommandExit(c))
          /\ WF_vars(LeftoverExit(c))
    /\ \A o \in OldCommands : WF_vars(OldExit(o))

FairSpec == Spec /\ Fairness

-----------------------------------------------------------------------------
(* Properties                                                              *)

TypeOK ==
    /\ proc \in [Commands -> ProcStates]
    /\ scope \in [Commands -> {"none", "command", "leftover"}]
    /\ tokenFd \in [Commands -> SUBSET Tokens]
    /\ scopeFd \in [Commands -> SUBSET Tokens]
    /\ legacyFd \subseteq Commands
    /\ gate \in Commands \cup {NoCommand}
    /\ scan \in [Commands -> 0 .. TOKENS]
    /\ old \in [OldCommands -> {"idle", "running"}]

(* Tokens are exclusive: whatever is killed, in whatever order, no token   *)
(* is held on behalf of two invocations.                                   *)
Exclusive ==
    \A c, d \in Commands : c # d => TokensOf(c) \cap TokensOf(d) = {}

(* A scope that still has a process, left-behind ones included, holds all  *)
(* the tokens its declaration needs, even after its `xut heavy` process    *)
(* died ("held for as long as the command runs").                          *)
RunningIsCovered ==
    \A c \in Commands :
        scope[c] # "none" => Cardinality(scopeFd[c]) = tokens_for(c)

Waiting(c) == proc[c] \in {"legacy", "gate", "taking"}

(* "No two commands can each hold part of what the other needs": of the    *)
(* invocations that still wait, only the one at the gate holds tokens.     *)
NoHoldAndWait ==
    \A c \in Commands :
        Waiting(c) /\ tokenFd[c] # {} => gate = c

(* "Waits until no admitted command runs and then runs alone, with the     *)
(* whole budget": while an old-style command runs no scope exists and no   *)
(* token is held.                                                          *)
OldRunsAlone ==
    OldRunning =>
        \A c \in Commands : scope[c] = "none" /\ TokensOf(c) = {}

(* "Never overtaken once it holds the gate": while an invocation collects  *)
(* its tokens, nobody else's tokens grow.                                  *)
NeverOvertaken ==
    [][\A c, d \in Commands :
          c # d /\ proc[c] = "taking" => TokensOf(d)' \subseteq TokensOf(d)]_vars

(* The budget itself: the declared memory of every scope with a process in *)
(* it, counted in units, stays within TOKENS x TOKEN_G.                    *)
BudgetKept ==
    Cardinality(UNION {{c} \X (1 .. Declared(c)) : c \in {c \in Commands : scope[c] # "none"}})
        <= TOKENS * TOKEN_G

(* The whole protocol, kills included, implements the token pool.          *)
Pool == INSTANCE TokenPool
            WITH Need <- [c \in Commands |-> tokens_for(c)], granted <- scopeFd

PoolSpec == Pool!Spec

(* However many smaller commands keep arriving, the one at the gate is     *)
(* admitted (or is interrupted or killed): it does not starve.             *)
GateHolderIsAdmitted ==
    \A c \in Commands : proc[c] = "taking" ~> proc[c] # "taking"
=============================================================================
