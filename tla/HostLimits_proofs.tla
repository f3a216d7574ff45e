--------------------------- MODULE HostLimits_proofs ---------------------------
(***************************************************************************)
(* What xut processes keep to on the host they share: the memory budget    *)
(* (HeavyAdmission), the Vivado slots (VivadoSlots) and the containers     *)
(* they start (ContainerRuns), for any number of commands, tokens,         *)
(* processes, slots and calls.  The three parts are independent.           *)
(***************************************************************************)
EXTENDS HeavyAdmission, VivadoSlots, ContainerRuns, FiniteSetTheorems, TLAPS

-----------------------------------------------------------------------------
(* The memory budget                                                       *)
(*                                                                         *)
(* The invariants of HeavyAdmission are not inductive alone: that a scope  *)
(* is covered rests on what an admitted process holds when it launches it, *)
(* and that an old-style command is alone rests on every holder of a token *)
(* sharing xut-heavy.lock too.  The proof goes in layers: types; Places,   *)
(* what each place of the `xut heavy` process says about its file table    *)
(* and its scope; then, on top of both, one invariant at a time.           *)

(* The gate is held exactly by the process that collects its tokens.       *)
GateOwner == \A c \in Commands : proc[c] = "taking" <=> gate = c

(* Before the gate and after the end no token file is open.                *)
NoTokensOutside ==
    \A c \in Commands :
        proc[c] \in {"idle", "legacy", "gate", "ended", "refused", "dead"}
            => tokenFd[c] = {}

AdmittedHoldsAll ==
    \A c \in Commands : proc[c] = "admitted" => Enough(c)

(* Whoever has reached the gate, or still has a token file open, has       *)
(* xut-heavy.lock.                                                         *)
HoldersShareLegacy ==
    \A c \in Commands :
        \/ proc[c] \in {"gate", "taking", "admitted", "running"}
        \/ tokenFd[c] # {}
        => c \in legacyFd

ScopeAfterLaunch ==
    \A c \in Commands :
        /\ scope[c] = "none" => scopeFd[c] = {}
        /\ proc[c] \in {"idle", "legacy", "gate", "taking", "admitted", "refused"}
              => scope[c] = "none"

Places ==
    /\ GateOwner
    /\ NoTokensOutside
    /\ AdmittedHoldsAll
    /\ HoldersShareLegacy
    /\ ScopeAfterLaunch

OldExcludesShared == OldRunning => \A c \in Commands : ~ SharesLegacy(c)

BudgetInv ==
    /\ TypeOK
    /\ Places
    /\ Exclusive
    /\ RunningIsCovered
    /\ OldExcludesShared

-----------------------------------------------------------------------------
LEMMA InitTypes == Init => TypeOK
BY BudgetAssumption DEF Init, TypeOK, ProcStates

LEMMA NextTypes == TypeOK /\ [Next]_vars => TypeOK'
<1> SUFFICES ASSUME TypeOK, [Next]_vars PROVE TypeOK'
    OBVIOUS
<1> USE BudgetAssumption DEF TypeOK, ProcStates, Tokens
<1>1. ASSUME NEW c \in Commands, Start(c) PROVE TypeOK'
    BY <1>1 DEF Start, Move
<1>2. ASSUME NEW c \in Commands, ShareLegacy(c) PROVE TypeOK'
    BY <1>2 DEF ShareLegacy, Move
<1>3. ASSUME NEW c \in Commands, TakeGate(c) PROVE TypeOK'
    BY <1>3 DEF TakeGate, Move
<1>4. ASSUME NEW c \in Commands, TryToken(c) PROVE TypeOK'
    BY <1>4 DEF TryToken
<1>5. ASSUME NEW c \in Commands, Rescan(c) PROVE TypeOK'
    BY <1>5 DEF Rescan
<1>6. ASSUME NEW c \in Commands, LeaveGate(c) PROVE TypeOK'
    BY <1>6 DEF LeaveGate, Move
<1>7. ASSUME NEW c \in Commands, Launch(c) PROVE TypeOK'
    BY <1>7 DEF Launch, Move
<1>8. ASSUME NEW c \in Commands, Collect(c) PROVE TypeOK'
    BY <1>8 DEF Collect, Move
<1>9. ASSUME NEW c \in Commands, CloseToken(c) PROVE TypeOK'
    BY <1>9 DEF CloseToken
<1>10. ASSUME NEW c \in Commands, CloseLegacy(c) PROVE TypeOK'
    BY <1>10 DEF CloseLegacy, Move
<1>11. ASSUME NEW c \in Commands, Interrupt(c) PROVE TypeOK'
    BY <1>11 DEF Interrupt
<1>12. ASSUME NEW c \in Commands, Kill(c) PROVE TypeOK'
    BY <1>12 DEF Kill
<1>13. ASSUME NEW c \in Commands, Again(c) PROVE TypeOK'
    BY <1>13 DEF Again
<1>14. ASSUME NEW c \in Commands, CommandExit(c) PROVE TypeOK'
    BY <1>14 DEF CommandExit
<1>15. ASSUME NEW c \in Commands, LeftoverExit(c) PROVE TypeOK'
    BY <1>15 DEF LeftoverExit
<1>16. ASSUME NEW o \in OldCommands, OldAcquire(o) PROVE TypeOK'
    BY <1>16 DEF OldAcquire
<1>17. ASSUME NEW o \in OldCommands, OldExit(o) PROVE TypeOK'
    BY <1>17 DEF OldExit
<1>18. CASE UNCHANGED vars
    BY <1>18 DEF vars
<1>19. QED
    BY <1>1, <1>2, <1>3, <1>4, <1>5, <1>6, <1>7, <1>8, <1>9, <1>10,
       <1>11, <1>12, <1>13, <1>14, <1>15, <1>16, <1>17, <1>18
    DEF Next, Invocation, Scope, OldCommand

(* The `xut heavy` processes, their scopes and the locks are always of the *)
(* shape the model declares, for any commands, declarations and budget.    *)
THEOREM BudgetTyped == Spec => []TypeOK
BY InitTypes, NextTypes, PTL DEF Spec

-----------------------------------------------------------------------------
LEMMA InitPlaces == Init => Places
BY CommandsAssumption
DEF Init, Places, GateOwner, NoTokensOutside, AdmittedHoldsAll, HoldersShareLegacy,
    ScopeAfterLaunch

LEMMA NextPlaces == TypeOK /\ Places /\ [Next]_vars => Places'
<1> SUFFICES ASSUME TypeOK, Places, [Next]_vars PROVE Places'
    OBVIOUS
<1> USE CommandsAssumption DEF TypeOK, ProcStates, Places, GateOwner, NoTokensOutside,
        AdmittedHoldsAll, Enough, HoldersShareLegacy, ScopeAfterLaunch, tokens_for, Declared
<1>1. ASSUME NEW c \in Commands, Start(c) PROVE Places'
    BY <1>1 DEF Start, Move
<1>2. ASSUME NEW c \in Commands, ShareLegacy(c) PROVE Places'
    BY <1>2 DEF ShareLegacy, Move
<1>3. ASSUME NEW c \in Commands, TakeGate(c) PROVE Places'
    BY <1>3 DEF TakeGate, Move
<1>4. ASSUME NEW c \in Commands, TryToken(c) PROVE Places'
    BY <1>4 DEF TryToken
<1>5. ASSUME NEW c \in Commands, Rescan(c) PROVE Places'
    BY <1>5 DEF Rescan
<1>6. ASSUME NEW c \in Commands, LeaveGate(c) PROVE Places'
    BY <1>6 DEF LeaveGate, Move
<1>7. ASSUME NEW c \in Commands, Launch(c) PROVE Places'
    BY <1>7 DEF Launch, Move
<1>8. ASSUME NEW c \in Commands, Collect(c) PROVE Places'
    BY <1>8 DEF Collect, Move
<1>9. ASSUME NEW c \in Commands, CloseToken(c) PROVE Places'
    BY <1>9 DEF CloseToken
<1>10. ASSUME NEW c \in Commands, CloseLegacy(c) PROVE Places'
    BY <1>10 DEF CloseLegacy, Move
<1>11. ASSUME NEW c \in Commands, Interrupt(c) PROVE Places'
    BY <1>11 DEF Interrupt
<1>12. ASSUME NEW c \in Commands, Kill(c) PROVE Places'
    BY <1>12 DEF Kill
<1>13. ASSUME NEW c \in Commands, Again(c) PROVE Places'
    BY <1>13 DEF Again
<1>14. ASSUME NEW c \in Commands, CommandExit(c) PROVE Places'
    BY <1>14 DEF CommandExit
<1>15. ASSUME NEW c \in Commands, LeftoverExit(c) PROVE Places'
    BY <1>15 DEF LeftoverExit
<1>16. ASSUME NEW o \in OldCommands, OldAcquire(o) PROVE Places'
    BY <1>16 DEF OldAcquire
<1>17. ASSUME NEW o \in OldCommands, OldExit(o) PROVE Places'
    BY <1>17 DEF OldExit
<1>18. CASE UNCHANGED vars
    BY <1>18 DEF vars
<1>19. QED
    BY <1>1, <1>2, <1>3, <1>4, <1>5, <1>6, <1>7, <1>8, <1>9, <1>10,
       <1>11, <1>12, <1>13, <1>14, <1>15, <1>16, <1>17, <1>18
    DEF Next, Invocation, Scope, OldCommand

-----------------------------------------------------------------------------
(* A step that gives an invocation a token it did not have is one that     *)
(* tries a free token at the gate.                                         *)
Grows(c) ==
    /\ proc[c] = "taking"
    /\ Free(scan[c])
    /\ TokensOf(c)' \subseteq TokensOf(c) \cup {scan[c]}
    /\ \A d \in Commands \ {c} : TokensOf(d)' \subseteq TokensOf(d)

OnlyShrinks == \A d \in Commands : TokensOf(d)' \subseteq TokensOf(d)

LEMMA TokensGrowAtTheGate ==
    ASSUME TypeOK, [Next]_vars
    PROVE  OnlyShrinks \/ \E c \in Commands : Grows(c)
<1>1. ASSUME NEW c \in Commands, TryToken(c)
      PROVE  OnlyShrinks \/ Grows(c)
    <2>1. CASE Free(scan[c])
        BY <1>1, <2>1 DEF TryToken, Grows, TokensOf, TypeOK
    <2>2. CASE ~ Free(scan[c])
        BY <1>1, <2>2 DEF TryToken, OnlyShrinks, TokensOf, TypeOK
    <2>3. QED
        BY <2>1, <2>2
<1>2. ASSUME NEW c \in Commands, Launch(c)
      PROVE  OnlyShrinks
    BY <1>2 DEF Launch, Move, OnlyShrinks, TokensOf, TypeOK
<1>3. ASSUME NEW c \in Commands,
             CloseToken(c) \/ Kill(c) \/ CommandExit(c) \/ LeftoverExit(c)
      PROVE  OnlyShrinks
    BY <1>3 DEF CloseToken, Kill, CommandExit, LeftoverExit, OnlyShrinks, TokensOf, TypeOK
<1>4. CASE UNCHANGED <<tokenFd, scopeFd>>
    BY <1>4 DEF OnlyShrinks, TokensOf
<1>5. QED
    BY <1>1, <1>2, <1>3, <1>4
    DEF Next, Invocation, Scope, OldCommand, vars, Start, ShareLegacy, TakeGate, Rescan,
        LeaveGate, Collect, CloseLegacy, Interrupt, Again, OldAcquire, OldExit

LEMMA NextExclusive == TypeOK /\ Exclusive /\ [Next]_vars => Exclusive'
<1> SUFFICES ASSUME TypeOK, Exclusive, [Next]_vars PROVE Exclusive'
    OBVIOUS
<1>1. CASE OnlyShrinks
    BY <1>1 DEF OnlyShrinks, Exclusive
<1>2. ASSUME NEW c \in Commands, Grows(c) PROVE Exclusive'
    BY <1>2 DEF Grows, Free, Exclusive
<1>3. QED
    BY <1>1, <1>2, TokensGrowAtTheGate

(* What covers a scope when it starts is what its process held when it     *)
(* left the gate; afterwards nothing touches the scope's file table.       *)
LEMMA NextCovered == TypeOK /\ Places /\ RunningIsCovered /\ [Next]_vars => RunningIsCovered'
<1> SUFFICES ASSUME TypeOK, Places, RunningIsCovered, [Next]_vars PROVE RunningIsCovered'
    OBVIOUS
<1> USE DEF RunningIsCovered, TypeOK, tokens_for, Declared
<1>1. ASSUME NEW c \in Commands, Launch(c) PROVE RunningIsCovered'
    BY <1>1 DEF Launch, Move, Places, AdmittedHoldsAll, Enough
<1>2. ASSUME NEW c \in Commands, CommandExit(c) \/ LeftoverExit(c) PROVE RunningIsCovered'
    BY <1>2 DEF CommandExit, LeftoverExit
<1>3. CASE UNCHANGED <<scope, scopeFd>>
    BY <1>3
<1>4. QED
    BY <1>1, <1>2, <1>3
    DEF Next, Invocation, Scope, OldCommand, vars, Start, ShareLegacy, TakeGate, TryToken,
        Rescan, LeaveGate, Collect, CloseToken, CloseLegacy, Interrupt, Kill, Again,
        OldAcquire, OldExit

(* A step shares xut-heavy.lock anew only while no old-style command runs; *)
(* launching a scope shares nothing its process did not share already.     *)
LEMMA NextOldExcludes ==
    TypeOK /\ Places /\ OldExcludesShared /\ [Next]_vars => OldExcludesShared'
<1> SUFFICES ASSUME TypeOK, Places, OldExcludesShared, [Next]_vars PROVE OldExcludesShared'
    OBVIOUS
<1> USE DEF OldExcludesShared, OldRunning, SharesLegacy, TypeOK
<1>1. ASSUME NEW c \in Commands, ShareLegacy(c) PROVE OldExcludesShared'
    BY <1>1 DEF ShareLegacy
<1>2. ASSUME NEW c \in Commands, Launch(c) PROVE OldExcludesShared'
    BY <1>2 DEF Launch, Move, Places, HoldersShareLegacy
<1>3. ASSUME NEW c \in Commands,
             CloseLegacy(c) \/ Kill(c) \/ CommandExit(c) \/ LeftoverExit(c)
      PROVE  OldExcludesShared'
    BY <1>3 DEF CloseLegacy, Kill, CommandExit, LeftoverExit
<1>4. ASSUME NEW o \in OldCommands, OldAcquire(o) \/ OldExit(o) PROVE OldExcludesShared'
    BY <1>4 DEF OldAcquire, OldExit
<1>5. CASE UNCHANGED <<scope, legacyFd, old>>
    BY <1>5
<1>6. QED
    BY <1>1, <1>2, <1>3, <1>4, <1>5
    DEF Next, Invocation, Scope, OldCommand, vars, Start, TakeGate, TryToken, Rescan,
        LeaveGate, Collect, CloseToken, Interrupt, Again

LEMMA BudgetInductive == Spec => []BudgetInv
<1>1. Init => BudgetInv
    <2>1. Init => Exclusive /\ RunningIsCovered /\ OldExcludesShared
        BY DEF Init, Exclusive, TokensOf, RunningIsCovered, OldExcludesShared, OldRunning
    <2>2. QED
        BY <2>1, InitTypes, InitPlaces DEF BudgetInv
<1>2. BudgetInv /\ [Next]_vars => BudgetInv'
    BY NextTypes, NextPlaces, NextExclusive, NextCovered, NextOldExcludes DEF BudgetInv
<1>3. QED
    BY <1>1, <1>2, PTL DEF Spec

-----------------------------------------------------------------------------
(* No token is ever held for two invocations, whoever is killed and when.  *)
THEOREM TokensAreExclusive == Spec => []Exclusive
<1>1. BudgetInv => Exclusive
    BY DEF BudgetInv
<1>2. QED
    BY <1>1, BudgetInductive, PTL

(* Every scope with a process in it has all its tokens, also when the      *)
(* process that started it is dead.                                        *)
THEOREM ScopesAreCovered == Spec => []RunningIsCovered
<1>1. BudgetInv => RunningIsCovered
    BY DEF BudgetInv
<1>2. QED
    BY <1>1, BudgetInductive, PTL

(* Only the invocation at the gate waits while it holds tokens.            *)
THEOREM NobodyHoldsAndWaits == Spec => []NoHoldAndWait
<1>1. BudgetInv => NoHoldAndWait
    BY DEF BudgetInv, Places, GateOwner, NoTokensOutside, NoHoldAndWait, Waiting
<1>2. QED
    BY <1>1, BudgetInductive, PTL

(* An old-style command runs while no scope exists and no token is held.   *)
THEOREM OldCommandsRunAlone == Spec => []OldRunsAlone
<1>1. BudgetInv => OldRunsAlone
    BY DEF BudgetInv, TypeOK, Places, HoldersShareLegacy, ScopeAfterLaunch, OldExcludesShared,
       SharesLegacy, OldRunsAlone, TokensOf
<1>2. QED
    BY <1>1, BudgetInductive, PTL

(* While one invocation collects its tokens nobody else gets any.          *)
THEOREM GateHolderIsNeverOvertaken == Spec => NeverOvertaken
<1>1. BudgetInv /\ [Next]_vars =>
          [\A c, d \in Commands :
              c # d /\ proc[c] = "taking" => TokensOf(d)' \subseteq TokensOf(d)]_vars
    <2> SUFFICES ASSUME BudgetInv, [Next]_vars,
                        NEW c \in Commands, NEW d \in Commands,
                        c # d, proc[c] = "taking"
                 PROVE  TokensOf(d)' \subseteq TokensOf(d)
        OBVIOUS
    <2>1. CASE OnlyShrinks
        BY <2>1 DEF OnlyShrinks
    <2>2. ASSUME NEW e \in Commands, Grows(e)
          PROVE  TokensOf(d)' \subseteq TokensOf(d)
        <3>1. e = c
            BY <2>2 DEF Grows, BudgetInv, Places, GateOwner
        <3>2. QED
            BY <2>2, <3>1 DEF Grows
    <2>3. QED
        BY <2>1, <2>2, TokensGrowAtTheGate DEF BudgetInv
<1>2. QED
    BY <1>1, BudgetInductive, PTL DEF Spec, NeverOvertaken

(* Rounding up to whole parts of size g leaves nothing of m uncovered.     *)
LEMMA RoundingUp ==
    ASSUME NEW m \in Nat, NEW g \in Nat \ {0}
    PROVE  m <= g * ((m + g - 1) \div g)
<1> DEFINE n == m + g - 1
           q == n \div g
           r == n % g
<1>1. n \in Nat /\ g \in Nat /\ g > 0
    OBVIOUS
<1> HIDE DEF n
<1>2. q \in Int /\ r \in Int /\ n = g * q + r /\ r < g
    BY <1>1, SMTT(30)
<1> HIDE DEF q, r
<1>3. g * q \in Int
    BY <1>1, <1>2
<1> DEFINE p == g * q
<1> HIDE DEF p
<1>4. n = p + r /\ p \in Int
    BY <1>2, <1>3 DEF p
<1>5. m <= p
    BY <1>1, <1>2, <1>4 DEF n
<1>6. QED
    BY <1>5 DEF p, q, n

(* The memory a scope declared is covered by the tokens it holds: rounding *)
(* to whole tokens never rounds a declaration down.                        *)
MemoryIsCovered ==
    \A c \in Commands :
        scope[c] # "none" => Declared(c) <= TOKEN_G * Cardinality(scopeFd[c])

(* "The sum of the caps of every admitted command and of everything it     *)
(* starts" is what its tokens stand for, at any time until its last        *)
(* process ends.                                                           *)
THEOREM MemoryCovered == Spec => []MemoryIsCovered
<1>1. ASSUME NEW c \in Commands PROVE Declared(c) \in Nat
    <2>1. /\ Mem[c] \in Nat /\ Containers[c] \in Nat /\ Vivado[c] \in Nat
          /\ ContainerCap \in Nat /\ VIVADO_G \in Nat
        BY BudgetAssumption
    <2>2. Containers[c] * ContainerCap \in Nat /\ Vivado[c] * VIVADO_G \in Nat
        BY <2>1
    <2>3. QED
        BY <2>1, <2>2 DEF Declared
<1>2. RunningIsCovered => MemoryIsCovered
    BY <1>1, RoundingUp, BudgetAssumption
    DEF RunningIsCovered, MemoryIsCovered, tokens_for
<1>3. QED
    BY <1>2, ScopesAreCovered, PTL

(* The budget: every declared unit of memory has a place of its own in a   *)
(* token that the scope holds, and no two scopes hold the same token.      *)
LEMMA UnitsFitTokens ==
    TypeOK /\ Exclusive /\ RunningIsCovered /\ MemoryIsCovered => BudgetKept
<1> SUFFICES ASSUME TypeOK, Exclusive, RunningIsCovered, MemoryIsCovered
             PROVE  BudgetKept
    OBVIOUS
<1> DEFINE launched == {c \in Commands : scope[c] # "none"}
           units == UNION {{c} \X (1 .. Declared(c)) : c \in launched}
           G == 1 .. TOKEN_G
           size(c) == Cardinality(scopeFd[c]) * TOKEN_G
           places(c) == scopeFd[c] \X G
           seat == [c \in launched |-> CHOOSE f : f \in Bijection(1 .. size(c), places(c))]
           f == [u \in units |-> seat[u[1]][u[2]]]
<1>1. TOKENS \in Nat /\ TOKEN_G \in Nat
    BY BudgetAssumption
<1>2. IsFiniteSet(G) /\ Cardinality(G) = TOKEN_G
    BY <1>1, FS_Interval
<1>3. IsFiniteSet(Tokens) /\ Cardinality(Tokens) = TOKENS
    BY <1>1, FS_Interval DEF Tokens
<1>4. IsFiniteSet(Tokens \X G) /\ Cardinality(Tokens \X G) = TOKENS * TOKEN_G
    BY <1>2, <1>3, FS_Product
<1>5. ASSUME NEW c \in launched
      PROVE  /\ seat[c] \in Bijection(1 .. size(c), places(c))
             /\ Declared(c) <= size(c)
    <2>1. scopeFd[c] \in SUBSET Tokens
        BY DEF TypeOK
    <2>2. IsFiniteSet(scopeFd[c])
        BY <2>1, <1>3, FS_Subset
    <2>3. IsFiniteSet(places(c)) /\ Cardinality(places(c)) = size(c)
        BY <2>2, <1>2, FS_Product
    <2>4. ExistsBijection(1 .. size(c), places(c))
        BY <2>3, FS_CardinalityType
    <2>5. seat[c] \in Bijection(1 .. size(c), places(c))
        BY <2>4 DEF ExistsBijection
    <2>6. Declared(c) <= TOKEN_G * Cardinality(scopeFd[c])
        BY DEF MemoryIsCovered
    <2>7. Cardinality(scopeFd[c]) \in Nat
        BY <2>2, FS_CardinalityType
    <2>8. QED
        BY <2>5, <2>6, <2>7, <1>1
<1> HIDE DEF seat
<1>6. ASSUME NEW u \in units
      PROVE  /\ u[1] \in launched /\ u[2] \in 1 .. Declared(u[1]) /\ u = <<u[1], u[2]>>
    OBVIOUS
<1>7. ASSUME NEW c \in launched
      PROVE  Declared(c) \in Int /\ size(c) \in Int
    <2>1. /\ Mem[c] \in Nat /\ Containers[c] \in Nat /\ Vivado[c] \in Nat
          /\ ContainerCap \in Nat /\ VIVADO_G \in Nat
        BY BudgetAssumption
    <2>2. Containers[c] * ContainerCap \in Nat /\ Vivado[c] * VIVADO_G \in Nat
        BY <2>1
    <2>3. IsFiniteSet(scopeFd[c])
        BY <1>3, FS_Subset DEF TypeOK
    <2>4. Cardinality(scopeFd[c]) \in Nat
        BY <2>3, FS_CardinalityType
    <2>5. QED
        BY <2>1, <2>2, <2>4, <1>1 DEF Declared
<1>8. ASSUME NEW u \in units
      PROVE  /\ u[2] \in 1 .. size(u[1])
             /\ f[u] \in places(u[1])
    <2>1. u[1] \in launched /\ u[2] \in 1 .. Declared(u[1])
        BY <1>6
    <2>2. /\ Declared(u[1]) \in Int /\ size(u[1]) \in Int
          /\ Declared(u[1]) <= size(u[1])
        BY <2>1, <1>5, <1>7
    <2>3. \A m, n \in Int : m <= n => (1 .. m) \subseteq (1 .. n)
        OBVIOUS
    <2>4. (1 .. Declared(u[1])) \subseteq (1 .. size(u[1]))
        BY <2>2, <2>3, Zenon
    <2>5. u[2] \in 1 .. size(u[1])
        BY <2>1, <2>4, Zenon
    <2>6. seat[u[1]] \in [1 .. size(u[1]) -> places(u[1])]
        BY <1>5, <1>6 DEF Bijection, Injection, IsInjective
    <2>7. QED
        BY <2>5, <2>6
<1>9. f \in [units -> Tokens \X G]
    BY <1>6, <1>8 DEF TypeOK
<1>10. ASSUME NEW u \in units, NEW v \in units, f[u] = f[v]
       PROVE  u = v
    <2>1. f[u][1] \in scopeFd[u[1]] /\ f[u][1] \in scopeFd[v[1]]
        BY <1>8, <1>10
    <2>2. u[1] = v[1]
        BY <2>1, <1>6 DEF Exclusive, TokensOf
    <2>3. seat[u[1]] \in Bijection(1 .. size(u[1]), places(u[1]))
        BY <1>5, <1>6
    <2>4. u[2] \in 1 .. size(u[1]) /\ v[2] \in 1 .. size(u[1])
        BY <1>8, <2>2
    <2>5. seat[u[1]][u[2]] = seat[u[1]][v[2]]
        BY <1>10, <2>2
    <2>6. u[2] = v[2]
        BY <2>3, <2>4, <2>5 DEF Bijection, Injection, IsInjective
    <2>7. QED
        BY <2>2, <2>6, <1>6
<1>11. f \in Injection(units, Tokens \X G)
    BY <1>9, <1>10, Zenon DEF Injection, IsInjective
<1>12. Cardinality(units) <= TOKENS * TOKEN_G
    BY <1>4, <1>11, FS_Injection
<1>13. QED
    BY <1>12 DEF BudgetKept

(* The sum of what the scopes declared stays within the budget, whatever   *)
(* commands run and whichever `xut heavy` processes are killed.            *)
THEOREM BudgetIsKept == Spec => []BudgetKept
<1>1. Spec => [](TypeOK /\ Exclusive /\ RunningIsCovered)
    BY BudgetInductive, PTL DEF BudgetInv
<1>2. QED
    BY <1>1, MemoryCovered, UnitsFitTokens, PTL

-----------------------------------------------------------------------------
(* `xut heavy` implements the token pool.                                  *)
THEOREM ImplementsPool == Spec => PoolSpec
<1>1. Init => Pool!Init
    BY DEF Init, Pool!Init
<1>2. BudgetInv /\ [Next]_vars => [Pool!Next]_scopeFd
    <2> SUFFICES ASSUME BudgetInv, [Next]_vars PROVE [Pool!Next]_scopeFd
        OBVIOUS
    <2>1. ASSUME NEW c \in Commands, Launch(c) PROVE Pool!Grant(c)
        <3>1. scopeFd[c] = {}
            BY <2>1 DEF Launch, Move, BudgetInv, Places, ScopeAfterLaunch
        <3>2. tokenFd[c] \in SUBSET Pool!Unclaimed
            BY <3>1 DEF BudgetInv, TypeOK, Exclusive, TokensOf, Pool!Unclaimed
        <3>3. Cardinality(tokenFd[c]) = tokens_for(c)
            BY <2>1 DEF Launch, Move, BudgetInv, Places, AdmittedHoldsAll, Enough
        <3>4. Pool!Cardinality(tokenFd[c]) = Cardinality(tokenFd[c])
            BY DEF Pool!Cardinality, Cardinality
        <3>5. scopeFd' = [scopeFd EXCEPT ![c] = tokenFd[c]]
            BY <2>1 DEF Launch
        <3>6. \E S \in SUBSET Pool!Unclaimed :
                 /\ Pool!Cardinality(S) = tokens_for(c)
                 /\ scopeFd' = [scopeFd EXCEPT ![c] = S]
            BY <3>2, <3>3, <3>4, <3>5
        <3>7. QED
            BY <3>1, <3>6 DEF Pool!Grant
    <2>2. ASSUME NEW c \in Commands, CommandExit(c) \/ LeftoverExit(c)
          PROVE  Pool!Return(c) \/ UNCHANGED scopeFd
        <3>1. scopeFd' = [scopeFd EXCEPT ![c] = {}] \/ UNCHANGED scopeFd
            BY <2>2 DEF CommandExit, LeftoverExit
        <3>2. scopeFd[c] = {} => [scopeFd EXCEPT ![c] = {}] = scopeFd
            BY DEF BudgetInv, TypeOK
        <3>3. CASE scopeFd[c] = {}
            BY <3>1, <3>2, <3>3
        <3>4. CASE scopeFd[c] # {}
            BY <3>1, <3>4 DEF Pool!Return
        <3>5. QED
            BY <3>3, <3>4
    <2>3. ASSUME NEW c \in Commands,
                 \/ Start(c) \/ ShareLegacy(c) \/ TakeGate(c) \/ TryToken(c) \/ Rescan(c)
                 \/ LeaveGate(c) \/ Collect(c) \/ CloseToken(c) \/ CloseLegacy(c)
                 \/ Interrupt(c) \/ Kill(c) \/ Again(c)
          PROVE  UNCHANGED scopeFd
        BY <2>3 DEF Start, ShareLegacy, TakeGate, TryToken, Rescan, LeaveGate, Collect,
            CloseToken, CloseLegacy, Interrupt, Kill, Again
    <2>4. ASSUME NEW o \in OldCommands, OldCommand(o) PROVE UNCHANGED scopeFd
        BY <2>4 DEF OldCommand, OldAcquire, OldExit
    <2>5. UNCHANGED vars => UNCHANGED scopeFd
        BY DEF vars
    <2>6. ASSUME NEW c \in Commands, Invocation(c) \/ Scope(c)
          PROVE  (\E d \in Commands : Pool!Grant(d) \/ Pool!Return(d)) \/ UNCHANGED scopeFd
        BY <2>1, <2>2, <2>3, <2>6 DEF Invocation, Scope
    <2>7. QED
        BY <2>4, <2>5, <2>6 DEF Next, Pool!Next
<1>3. QED
    BY <1>1, <1>2, BudgetInductive, PTL DEF Spec, PoolSpec, Pool!Spec

-----------------------------------------------------------------------------
(* The Vivado slots                                                        *)
(*                                                                         *)
(* For any number of processes, calls and slots, and for processes that    *)
(* disagree on the limit: a slot that is held is held by one call          *)
(* (OneRunPerSlot), between its scan and its end (Holders); so the         *)
(* attended runs of the processes that allow at most n map one to one to   *)
(* slots below n.                                                          *)

(* Exactly the calls that took a slot and have not given it back hold one. *)
Holders ==
    \A r \in Runs : place[r] \in {"holding", "waiting"} <=> slot[r] # NoSlot

OneRunPerSlot ==
    \A r, s \in Runs : r # s /\ slot[r] # NoSlot => slot[r] # slot[s]

SlotsInv == SlotsTypeOK /\ Holders /\ OneRunPerSlot

LEMMA InitSlotsInv == SlotsInit => SlotsInv
BY SlotsAssumption DEF SlotsInit, SlotsInv, SlotsTypeOK, Holders, OneRunPerSlot, SlotsOf

LEMMA SlotIsNumber ==
    ASSUME NEW r \in Runs
    PROVE  /\ Limit[Proc[r]] \in Nat \ {0}
           /\ SlotsOf(r) \subseteq Nat
           /\ NoSlot \notin SlotsOf(r)
BY SlotsAssumption DEF SlotsOf

(* Every step keeps the invariant; only TrySlot can take a slot, and only  *)
(* one that no call has locked.                                            *)
LEMMA NextSlotsInv == SlotsInv /\ [SlotsNext]_slotsVars => SlotsInv'
<1> SUFFICES ASSUME SlotsInv, [SlotsNext]_slotsVars PROVE SlotsInv'
    OBVIOUS
<1> USE DEF SlotsInv, SlotsTypeOK, Holders, OneRunPerSlot
<1>1. ASSUME NEW r \in Runs, Request(r) PROVE SlotsInv'
    BY <1>1 DEF Request, MoveCall, SlotsOf
<1>2. ASSUME NEW r \in Runs, TrySlot(r) PROVE SlotsInv'
    <2>1. CASE Locked(r, next[r])
        <3>1. next[r] + 1 <= Limit[Proc[r]] /\ next[r] + 1 \in Nat
            BY <1>2, SlotIsNumber DEF TrySlot, SlotsOf
        <3>2. QED
            BY <1>2, <2>1, <3>1 DEF TrySlot, SlotsOf
    <2>2. CASE ~ Locked(r, next[r])
        <3>1. /\ place' = [place EXCEPT ![r] = "holding"]
              /\ slot' = [slot EXCEPT ![r] = next[r]]
              /\ UNCHANGED <<next, vivado>>
              /\ next[r] \in SlotsOf(r)
            BY <1>2, <2>2 DEF TrySlot
        <3>2. next[r] # NoSlot /\ next[r] \in Int
            BY <3>1, SlotIsNumber
        <3>3. \A s \in Runs : slot[s] # next[r]
            BY <2>2 DEF Locked
        <3>4. SlotsTypeOK'
            BY <3>1, <3>2 DEF SlotsOf
        <3>5. Holders'
            BY <3>1, <3>2
        <3>6. OneRunPerSlot'
            BY <3>1, <3>2, <3>3
        <3>7. QED
            BY <3>4, <3>5, <3>6
    <2>3. QED
        BY <2>1, <2>2
<1>3. ASSUME NEW r \in Runs, ScanAgain(r) PROVE SlotsInv'
    BY <1>3, SlotIsNumber DEF ScanAgain, SlotsOf
<1>4. ASSUME NEW r \in Runs, LaunchVivado(r) PROVE SlotsInv'
    BY <1>4 DEF LaunchVivado, MoveCall, SlotsOf
<1>5. ASSUME NEW r \in Runs, VivadoExit(r) PROVE SlotsInv'
    BY <1>5 DEF VivadoExit, SlotsOf
<1>6. ASSUME NEW r \in Runs, CollectRun(r) PROVE SlotsInv'
    BY <1>6 DEF CollectRun, MoveCall, Release, SlotsOf
<1>7. ASSUME NEW r \in Runs, Timeout(r) PROVE SlotsInv'
    BY <1>7 DEF Timeout, MoveCall, Release, SlotsOf
<1>8. ASSUME NEW p \in Procs, KillProcess(p) PROVE SlotsInv'
    BY <1>8 DEF KillProcess, SlotsOf
<1>9. CASE UNCHANGED slotsVars
    BY <1>9 DEF slotsVars, SlotsOf
<1>10. QED
    BY <1>1, <1>2, <1>3, <1>4, <1>5, <1>6, <1>7, <1>8, <1>9 DEF SlotsNext

LEMMA SlotsInductive == SlotsSpec => []SlotsInv
BY InitSlotsInv, NextSlotsInv, PTL DEF SlotsSpec

(* Every variable keeps its type.                                          *)
THEOREM SlotsTyped == SlotsSpec => []SlotsTypeOK
<1>1. SlotsInv => SlotsTypeOK
    BY DEF SlotsInv
<1>2. QED
    BY <1>1, SlotsInductive, PTL

(* The host-wide limit holds of every Vivado run a live xut process waits  *)
(* for, whatever is killed or times out, and for every n at once when      *)
(* processes disagree on the limit.                                        *)
THEOREM LimitKept == SlotsSpec => []AttendedWithinLimit
<1>1. SlotsInv => AttendedWithinLimit
    <2> SUFFICES ASSUME SlotsInv, NEW p \in Procs
                 PROVE  Cardinality({r \in Attended : Limit[Proc[r]] <= Limit[p]})
                            <= Limit[p]
        BY DEF AttendedWithinLimit
    <2> DEFINE S == {r \in Attended : Limit[Proc[r]] <= Limit[p]}
               T == 0 .. Limit[p] - 1
               f == [r \in S |-> slot[r]]
    <2>1. Limit[p] \in Nat \ {0}
        BY SlotsAssumption
    <2>2. \A r \in S : r \in Runs /\ slot[r] \in T
        <3> TAKE r \in S
        <3>1. r \in Runs /\ place[r] = "waiting"
            BY DEF Attended, SlotsInv, SlotsTypeOK
        <3>2. slot[r] \in SlotsOf(r)
            BY <3>1 DEF SlotsInv, SlotsTypeOK, Holders
        <3>3. QED
            BY <3>1, <3>2, <2>1, SlotIsNumber DEF SlotsOf
    <2>3. \A r, s \in S : slot[r] = slot[s] => r = s
        <3>1. \A r \in S : slot[r] # NoSlot
            BY <2>2 DEF Attended, SlotsInv, Holders
        <3>2. QED
            BY <3>1, <2>2 DEF SlotsInv, OneRunPerSlot
    <2> HIDE DEF S, T
    <2>4. f \in Injection(S, T)
        <3>1. f \in [S -> T]
            BY <2>2
        <3>2. ASSUME NEW r \in DOMAIN f, NEW s \in DOMAIN f, f[r] = f[s]
              PROVE  r = s
            BY <2>3, <3>2
        <3>3. QED
            BY <3>1, <3>2 DEF Injection, IsInjective
    <2>5. IsFiniteSet(T) /\ Cardinality(T) = Limit[p]
        <3>1. 0 \in Int /\ Limit[p] - 1 \in Int /\ ~ (0 > Limit[p] - 1)
            BY <2>1
        <3>2. IsFiniteSet(T) /\ Cardinality(T) = Limit[p] - 1 - 0 + 1
            BY <3>1, FS_Interval DEF T
        <3>3. QED
            BY <2>1, <3>2
    <2>6. Cardinality(S) <= Cardinality(T)
        BY <2>4, <2>5, FS_Injection
    <2>7. QED
        BY <2>5, <2>6 DEF S
<1>2. QED
    BY <1>1, SlotsInductive, PTL

-----------------------------------------------------------------------------
(* The containers                                                          *)

(* A client belongs to a call that waits for it, or to a process that was  *)
(* killed; whoever is on the way is registered; the dead are not xut's.    *)
Registered ==
    \A c \in Calls :
        /\ c \in client => pc[c] \in {"client", "dead"}
        /\ pc[c] \notin Final => c \in live
        /\ pc[c] = "dead" => owner # "xut"

(* After the halt a client that can still create a container is known.     *)
ClientsSeen == halt => client \subseteq names

(* Once docker rm has answered the container is gone for good.             *)
Removed ==
    \A c \in Calls :
        pc[c] \in {"deregister", "done"} /\ c \notin stuck => box[c] \in {"none", "gone"}

(* What ends a container, and what docker inspect can show of it.          *)
Causes ==
    \A c \in Calls :
        /\ end[c].flag => end[c].why = "oom"
        /\ end[c].sigkill => end[c].why \notin {"none", "exit"}
        /\ end[c].why = "kill" => c \in timedOut \/ halt
        /\ end[c].why = "guest" => c \in timedOut \/ pc[c] = "dead"
        /\ pc[c] = "killing" => c \in timedOut
        /\ c \in toKill => halt
        /\ oomLine[c] # "none" => box[c] \notin {"none", "up"}

ContainersInv == ContainersTypeOK /\ Registered /\ NoneUnseen /\ ClientsSeen /\ Removed

OomInv == ContainersTypeOK /\ Causes /\ OomLineIsReal

-----------------------------------------------------------------------------
(* A container that stops is one that was up, and what inspect will show   *)
(* of it fits the cause.                                                   *)
LEMMA StopSteps ==
    ASSUME ContainersTypeOK, NEW c \in Calls, NEW why \in {"exit", "oom", "kill", "guest"}, Stop(c, why)
    PROVE  /\ box[c] = "up"
           /\ box' = [box EXCEPT ![c] = "stopped"]
           /\ \E e \in [why : {"none", "exit", "oom", "kill", "guest"},
                        flag : BOOLEAN, sigkill : BOOLEAN] :
                 /\ end' = [end EXCEPT ![c] = e]
                 /\ e.why = why
                 /\ e.flag => why = "oom"
                 /\ e.sigkill => why # "exit"
  <1>1. PICK e \in Ends(why) : end' = [end EXCEPT ![c] = e]
    BY DEF Stop
  <1>2. /\ e \in [why : {"none", "exit", "oom", "kill", "guest"},
                  flag : BOOLEAN, sigkill : BOOLEAN]
        /\ e.why = why
        /\ e.flag => why = "oom"
        /\ e.sigkill => why # "exit"
    <2>1. CASE why = "oom"    BY <2>1 DEF Ends
    <2>2. CASE why = "exit"   BY <2>2 DEF Ends
    <2>3. CASE why = "kill"   BY <2>3 DEF Ends
    <2>4. CASE why = "guest"  BY <2>4 DEF Ends
    <2>5. QED  BY <2>1, <2>2, <2>3, <2>4
  <1>3. QED  BY <1>1, <1>2 DEF Stop

(* A container that stops keeps the types of what it changes.              *)
LEMMA StopTypes ==
    ASSUME ContainersTypeOK, NEW c \in Calls, NEW why \in {"exit", "oom", "kill", "guest"}, Stop(c, why)
    PROVE  /\ box' \in [Calls -> {"none", "up", "stopped", "gone"}]
           /\ end' \in [Calls -> [why : {"none", "exit", "oom", "kill", "guest"},
                                  flag : BOOLEAN, sigkill : BOOLEAN]]
  <1>1. box' = [box EXCEPT ![c] = "stopped"]
    BY DEF Stop
  <1>2. PICK e \in [why : {"none", "exit", "oom", "kill", "guest"},
                    flag : BOOLEAN, sigkill : BOOLEAN] : end' = [end EXCEPT ![c] = e]
    BY StopSteps
  <1> DEFINE Ended == [why : {"none", "exit", "oom", "kill", "guest"},
                       flag : BOOLEAN, sigkill : BOOLEAN]
  <1>3. end \in [Calls -> Ended] /\ e \in Ended
    BY <1>2 DEF ContainersTypeOK
  <1> HIDE DEF Ended
  <1>4. [end EXCEPT ![c] = e] \in [Calls -> Ended]
    BY <1>3
  <1>5. end' \in [Calls -> Ended]
    BY <1>2, <1>4
  <1>6. box' \in [Calls -> {"none", "up", "stopped", "gone"}]
    BY <1>1 DEF ContainersTypeOK
  <1>7. QED
    BY <1>5, <1>6 DEF Ended

(* Every variable keeps its type.                                          *)
LEMMA NextContainersTypes == ContainersTypeOK /\ [ContainersNext]_containersVars => ContainersTypeOK'
  <1> SUFFICES ASSUME ContainersTypeOK, [ContainersNext]_containersVars PROVE ContainersTypeOK'
    OBVIOUS
  <1>1. ASSUME NEW c \in Calls, Create(c) PROVE ContainersTypeOK'
    BY <1>1 DEF ContainersTypeOK, Create, interrupt, log
  <1>2. ASSUME NEW c \in Calls, EndsItself(c) PROVE ContainersTypeOK'
    <2>1. /\ box' \in [Calls -> {"none", "up", "stopped", "gone"}]
          /\ end' \in [Calls -> [why : {"none", "exit", "oom", "kill", "guest"},
                                 flag : BOOLEAN, sigkill : BOOLEAN]]
      BY <1>2, StopTypes DEF EndsItself
    <2>2. QED
      BY <1>2, <2>1 DEF ContainersTypeOK, EndsItself, interrupt, log
  <1>3. ASSUME NEW c \in Calls, GuestTimeout(c) PROVE ContainersTypeOK'
    <2>1. /\ box' \in [Calls -> {"none", "up", "stopped", "gone"}]
          /\ end' \in [Calls -> [why : {"none", "exit", "oom", "kill", "guest"},
                                 flag : BOOLEAN, sigkill : BOOLEAN]]
      BY <1>3, StopTypes DEF GuestTimeout
    <2>2. QED
      BY <1>3, <2>1 DEF ContainersTypeOK, GuestTimeout, interrupt, log
  <1>4. ASSUME NEW c \in Calls, Register(c) PROVE ContainersTypeOK'
    BY <1>4 DEF ContainersTypeOK, Register, MoveTo, docker, interrupt, log
  <1>4s. ASSUME NEW c \in Calls, StartClient(c) PROVE ContainersTypeOK'
    BY <1>4s DEF ContainersTypeOK, StartClient, MoveTo, interrupt, log
  <1>5. ASSUME NEW c \in Calls, ClientExit(c) PROVE ContainersTypeOK'
    BY <1>5 DEF ContainersTypeOK, ClientExit, interrupt, log
  <1>6. ASSUME NEW c \in Calls, HostTimeout(c) PROVE ContainersTypeOK'
    BY <1>6 DEF ContainersTypeOK, HostTimeout, MoveTo, interrupt
  <1>7. ASSUME NEW c \in Calls, KillAfterTimeout(c) PROVE ContainersTypeOK'
    BY <1>7, StopSteps DEF ContainersTypeOK, KillAfterTimeout, DockerKill, MoveTo, interrupt, log
  <1>8. ASSUME NEW c \in Calls, Inspect(c) PROVE ContainersTypeOK'
    BY <1>8 DEF ContainersTypeOK, Inspect, OomSeen, MoveTo, docker, interrupt
  <1>9. ASSUME NEW c \in Calls, Remove(c) PROVE ContainersTypeOK'
    BY <1>9 DEF ContainersTypeOK, Remove, MoveTo, interrupt
  <1>10. ASSUME NEW c \in Calls, Deregister(c) PROVE ContainersTypeOK'
    BY <1>10 DEF ContainersTypeOK, Deregister, MoveTo, docker, log, interrupt
  <1>11. ASSUME NEW c \in Calls, KillOne(c) PROVE ContainersTypeOK'
    BY <1>11, StopSteps DEF ContainersTypeOK, KillOne, DockerKill, log
  <1>12. ASSUME NEW c \in Calls, Sweep(c) PROVE ContainersTypeOK'
    BY <1>12 DEF ContainersTypeOK, Sweep, log, interrupt
  <1>13. CASE KillLive
    BY <1>13 DEF ContainersTypeOK, KillLive, docker, log
  <1>14. CASE KillLiveReturns
    BY <1>14 DEF ContainersTypeOK, KillLiveReturns, docker, log
  <1>15. CASE Die
    BY <1>15 DEF ContainersTypeOK, Die, docker, log, Final
  <1>16. CASE PidReused
    BY <1>16 DEF ContainersTypeOK, PidReused, docker, log, interrupt
  <1>17. CASE UNCHANGED containersVars
    BY <1>17 DEF ContainersTypeOK, containersVars
  <1>18. QED
    BY <1>1, <1>2, <1>3, <1>4, <1>4s, <1>5, <1>6, <1>7, <1>8, <1>9, <1>10, <1>11,
       <1>12, <1>13, <1>14, <1>15, <1>16, <1>17 DEF ContainersNext

(* Nobody is on the way unregistered, and nobody is overlooked.            *)
LEMMA NextContainersInv == ContainersInv /\ [ContainersNext]_containersVars => ContainersInv'
  <1> SUFFICES ASSUME ContainersInv, [ContainersNext]_containersVars PROVE ContainersInv'
    OBVIOUS
  <1>0. ContainersTypeOK /\ ContainersTypeOK'
    BY NextContainersTypes DEF ContainersInv
  <1>a. SUFFICES (Registered /\ NoneUnseen /\ ClientsSeen /\ Removed)'
    BY <1>0 DEF ContainersInv
  <1> DEFINE Rest == Registered /\ NoneUnseen /\ ClientsSeen /\ Removed
  <1> USE DEF ContainersInv, Registered, NoneUnseen, ClientsSeen, Removed, Final
  <1>1. ASSUME NEW c \in Calls, Create(c) PROVE Rest'
    BY <1>0, <1>1 DEF ContainersTypeOK, Create, interrupt, log
  <1>2. ASSUME NEW c \in Calls, EndsItself(c) PROVE Rest'
    BY <1>0, <1>2, StopSteps DEF ContainersTypeOK, EndsItself, interrupt, log
  <1>3. ASSUME NEW c \in Calls, GuestTimeout(c) PROVE Rest'
    BY <1>0, <1>3, StopSteps DEF ContainersTypeOK, GuestTimeout, interrupt, log
  <1>4. ASSUME NEW c \in Calls, Register(c) PROVE Rest'
    BY <1>0, <1>4 DEF ContainersTypeOK, Register, MoveTo, docker, interrupt, log
  <1>4s. ASSUME NEW c \in Calls, StartClient(c) PROVE Rest'
    BY <1>0, <1>4s DEF ContainersTypeOK, StartClient, MoveTo, interrupt, log
  <1>5. ASSUME NEW c \in Calls, ClientExit(c) PROVE Rest'
    BY <1>0, <1>5 DEF ContainersTypeOK, ClientExit, interrupt, log
  <1>6. ASSUME NEW c \in Calls, HostTimeout(c) PROVE Rest'
    BY <1>0, <1>6 DEF ContainersTypeOK, HostTimeout, MoveTo, interrupt
  <1>7. ASSUME NEW c \in Calls, KillAfterTimeout(c) PROVE Rest'
    BY <1>0, <1>7, StopSteps DEF ContainersTypeOK, KillAfterTimeout, DockerKill, MoveTo, interrupt, log
  <1>8. ASSUME NEW c \in Calls, Inspect(c) PROVE Rest'
    BY <1>0, <1>8 DEF ContainersTypeOK, Inspect, MoveTo, docker, interrupt
  <1>9. ASSUME NEW c \in Calls, Remove(c) PROVE Rest'
    BY <1>0, <1>9 DEF ContainersTypeOK, Remove, MoveTo, interrupt
  <1>10. ASSUME NEW c \in Calls, Deregister(c) PROVE Rest'
    BY <1>0, <1>10 DEF ContainersTypeOK, Deregister, MoveTo, docker, log, interrupt
  <1>11. ASSUME NEW c \in Calls, KillOne(c) PROVE Rest'
    BY <1>0, <1>11, StopSteps DEF ContainersTypeOK, KillOne, DockerKill, log
  <1>12. ASSUME NEW c \in Calls, Sweep(c) PROVE Rest'
    BY <1>0, <1>12 DEF ContainersTypeOK, Sweep, log, interrupt
  <1>13. CASE KillLive
    BY <1>0, <1>13 DEF ContainersTypeOK, KillLive, docker, log
  <1>14. CASE KillLiveReturns
    BY <1>0, <1>14 DEF ContainersTypeOK, KillLiveReturns, docker, log
  <1>15. CASE Die
    BY <1>0, <1>15 DEF ContainersTypeOK, Die, docker, log
  <1>16. CASE PidReused
    BY <1>0, <1>16 DEF ContainersTypeOK, PidReused, docker, log, interrupt
  <1>17. CASE UNCHANGED containersVars
    BY <1>17 DEF containersVars
  <1>18. QED
    BY <1>1, <1>2, <1>3, <1>4, <1>4s, <1>5, <1>6, <1>7, <1>8, <1>9, <1>10, <1>11,
       <1>12, <1>13, <1>14, <1>15, <1>16, <1>17 DEF ContainersNext

(* What a log says of an OOM kill is written once, of a container that has *)
(* ended and will not start again.                                         *)
LEMMA NextOomInv == OomInv /\ [ContainersNext]_containersVars => OomInv'
  <1> SUFFICES ASSUME OomInv, [ContainersNext]_containersVars PROVE OomInv'
    OBVIOUS
  <1>0. ContainersTypeOK /\ ContainersTypeOK'
    BY NextContainersTypes DEF OomInv
  <1>a. SUFFICES (Causes /\ OomLineIsReal)'
    BY <1>0 DEF OomInv
  <1> DEFINE Rest == Causes /\ OomLineIsReal
  <1> USE DEF OomInv, Causes, OomLineIsReal
  <1>1. ASSUME NEW c \in Calls, Create(c) PROVE Rest'
    BY <1>0, <1>1 DEF ContainersTypeOK, Create, interrupt, log
  <1>2. ASSUME NEW c \in Calls, EndsItself(c) PROVE Rest'
    BY <1>0, <1>2, StopSteps DEF ContainersTypeOK, EndsItself, interrupt, log
  <1>3. ASSUME NEW c \in Calls, GuestTimeout(c) PROVE Rest'
    BY <1>0, <1>3, StopSteps DEF ContainersTypeOK, GuestTimeout, interrupt, log
  <1>4. ASSUME NEW c \in Calls, Register(c) PROVE Rest'
    BY <1>0, <1>4 DEF ContainersTypeOK, Register, MoveTo, docker, interrupt, log
  <1>4s. ASSUME NEW c \in Calls, StartClient(c) PROVE Rest'
    BY <1>0, <1>4s DEF ContainersTypeOK, StartClient, MoveTo, interrupt, log
  <1>5. ASSUME NEW c \in Calls, ClientExit(c) PROVE Rest'
    BY <1>0, <1>5 DEF ContainersTypeOK, ClientExit, interrupt, log
  <1>6. ASSUME NEW c \in Calls, HostTimeout(c) PROVE Rest'
    BY <1>0, <1>6 DEF ContainersTypeOK, HostTimeout, MoveTo, interrupt
  <1>7. ASSUME NEW c \in Calls, KillAfterTimeout(c) PROVE Rest'
    BY <1>0, <1>7, StopSteps DEF ContainersTypeOK, KillAfterTimeout, DockerKill, MoveTo, interrupt, log
  <1>8. ASSUME NEW c \in Calls, Inspect(c) PROVE Rest'
    <2>1. ~ halt /\ OomSeen(c) # "none" => end[c].why = "oom"
      BY <1>0, <1>8 DEF ContainersTypeOK, Inspect, MoveTo, OomSeen
    <2>2. OomSeen(c) # "none" => box[c] = "stopped"
      BY DEF OomSeen
    <2>3. QED
      BY <1>0, <1>8, <2>1, <2>2 DEF ContainersTypeOK, Inspect, MoveTo, docker, interrupt
  <1>9. ASSUME NEW c \in Calls, Remove(c) PROVE Rest'
    BY <1>0, <1>9 DEF ContainersTypeOK, Remove, MoveTo, interrupt
  <1>10. ASSUME NEW c \in Calls, Deregister(c) PROVE Rest'
    BY <1>0, <1>10 DEF ContainersTypeOK, Deregister, MoveTo, docker, log, interrupt
  <1>11. ASSUME NEW c \in Calls, KillOne(c) PROVE Rest'
    BY <1>0, <1>11, StopSteps DEF ContainersTypeOK, KillOne, DockerKill, log
  <1>12. ASSUME NEW c \in Calls, Sweep(c) PROVE Rest'
    BY <1>0, <1>12 DEF ContainersTypeOK, Sweep, log, interrupt
  <1>13. CASE KillLive
    BY <1>0, <1>13 DEF ContainersTypeOK, KillLive, docker, log
  <1>14. CASE KillLiveReturns
    BY <1>0, <1>14 DEF ContainersTypeOK, KillLiveReturns, docker, log
  <1>15. CASE Die
    BY <1>0, <1>15 DEF ContainersTypeOK, Die, docker, log, Final
  <1>16. CASE PidReused
    BY <1>0, <1>16 DEF ContainersTypeOK, PidReused, docker, log, interrupt
  <1>17. CASE UNCHANGED containersVars
    BY <1>17 DEF containersVars
  <1>18. QED
    BY <1>1, <1>2, <1>3, <1>4, <1>4s, <1>5, <1>6, <1>7, <1>8, <1>9, <1>10, <1>11,
       <1>12, <1>13, <1>14, <1>15, <1>16, <1>17 DEF ContainersNext

LEMMA InitContainersInv == ContainersInit => ContainersInv /\ OomInv
  <1> SUFFICES ASSUME ContainersInit PROVE ContainersInv /\ OomInv
    OBVIOUS
  <1>1. ContainersTypeOK
    BY DEF ContainersInit, ContainersTypeOK, NotEnded
  <1>2. Registered /\ NoneUnseen /\ ClientsSeen /\ Removed
    BY DEF ContainersInit, Registered, NoneUnseen, ClientsSeen, Removed, Final
  <1>3. Causes /\ OomLineIsReal
    BY DEF ContainersInit, Causes, OomLineIsReal, NotEnded
  <1>4. QED
    BY <1>1, <1>2, <1>3 DEF ContainersInv, OomInv

LEMMA ContainersInductive == ContainersSpec => []ContainersInv
  <1>1. ContainersInit => ContainersInv
    BY InitContainersInv
  <1>2. QED
    BY <1>1, NextContainersInv, PTL DEF ContainersSpec

-----------------------------------------------------------------------------
(* Every variable keeps its type, for any number of calls.                 *)
THEOREM ContainersTyped == ContainersSpec => []ContainersTypeOK
  <1>1. ContainersInv => ContainersTypeOK
    BY DEF ContainersInv
  <1>2. QED
    BY <1>1, ContainersInductive, PTL

(* "A container is either in the snapshot or never starts": after          *)
(* kill_live has halted the process, each call on the way is in its        *)
(* snapshot.                                                               *)
THEOREM NobodyIsOverlooked == ContainersSpec => []NoneUnseen
  <1>1. ContainersInv => NoneUnseen
    BY DEF ContainersInv
  <1>2. QED
    BY <1>1, ContainersInductive, PTL

(* No container comes up after the halt that kill_live did not know of.    *)
THEOREM NoContainerStartsUnseen == ContainersSpec => NoneStartsUnseen
  <1>1. ASSUME ContainersInv, [ContainersNext]_containersVars
        PROVE  [\A c \in Calls : halt /\ box[c] = "none" /\ box'[c] = "up" => c \in names]_containersVars
    <2> SUFFICES ASSUME NEW d \in Calls, halt, box[d] = "none", box'[d] = "up"
                 PROVE  d \in names
      OBVIOUS
    <2>0. ContainersTypeOK
      BY <1>1 DEF ContainersInv
    <2>1. ASSUME NEW c \in Calls, Create(c) PROVE d \in names
      BY <1>1, <2>0, <2>1 DEF ContainersInv, ClientsSeen, ContainersTypeOK, Create
    <2>2. ASSUME NEW c \in Calls, NEW why \in {"exit", "oom", "kill", "guest"}, Stop(c, why)
          PROVE  FALSE
      BY <2>0, <2>2 DEF ContainersTypeOK, Stop
    <2>3. ASSUME NEW c \in Calls,
                 Remove(c) \/ Sweep(c)
          PROVE  FALSE
      BY <2>0, <2>3 DEF ContainersTypeOK, Remove, Sweep
    <2>4. ASSUME UNCHANGED box PROVE FALSE
      BY <2>4
    <2>5. QED
      BY <1>1, <2>1, <2>2, <2>3, <2>4
      DEF ContainersNext, containersVars, docker, EndsItself, GuestTimeout, Register, StartClient, ClientExit, HostTimeout,
          KillAfterTimeout, DockerKill, Inspect, Deregister, KillLive, KillOne,
          KillLiveReturns, Die, PidReused
  <1>2. QED
    BY <1>1, ContainersInductive, PTL DEF NoneStartsUnseen, ContainersSpec

(* Every path out of a run removes its container, unless docker rm fails.  *)
THEOREM EveryPathRemoves == ContainersSpec => []RemovedOnEveryPath
  <1>1. ContainersInv => RemovedOnEveryPath
    BY DEF ContainersInv, Removed, RemovedOnEveryPath
  <1>2. QED
    BY <1>1, ContainersInductive, PTL
(* An OOM line is about an OOM kill, as long as nothing was interrupted.   *)
THEOREM OomLinesAreReal == ContainersSpec => []OomLineIsReal
  <1>1. ContainersInit => OomInv
    BY InitContainersInv
  <1>2. OomInv => OomLineIsReal
    BY DEF OomInv
  <1>3. QED
    BY <1>1, <1>2, NextOomInv, PTL DEF ContainersSpec
=============================================================================
