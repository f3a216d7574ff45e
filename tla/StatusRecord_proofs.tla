------------------------ MODULE StatusRecord_proofs ------------------------
(***************************************************************************)
(* What a recorded status says, for any tests, flows, runners and          *)
(* configurations.                                                         *)
(***************************************************************************)
EXTENDS StatusFile, TLAPS

(* Every recorded value has a rank, and every rank is a number.            *)
LEMMA Ranks ==
    ASSUME NEW v \in RESULT_VALUES
    PROVE  /\ RECORD_PRECEDENCE[v] \in 1 .. 7 /\ PRECEDENCE[v] \in 1 .. 7
           /\ RECORD_PRECEDENCE[v] >= RECORD_PRECEDENCE["pass"]
                => v \in {"pass", "skip", "unsupported", "n/a"}
           /\ PRECEDENCE[v] >= PRECEDENCE["pass"] => v \notin {"fail", "error"}
  BY DEF RESULT_VALUES, RECORD_PRECEDENCE, PRECEDENCE

(* The worst of some values is one of them, and no other is worse.         *)
LEMMA WorstResult ==
    ASSUME NEW S, S \subseteq RESULT_VALUES, S # {}
    PROVE  worst_result(S) \in S
           /\ \A w \in S : RECORD_PRECEDENCE[worst_result(S)] <= RECORD_PRECEDENCE[w]
<1>1. \E v \in S : \A w \in S : RECORD_PRECEDENCE[v] <= RECORD_PRECEDENCE[w]
  BY DEF RESULT_VALUES, RECORD_PRECEDENCE
<1>2. QED
  BY <1>1 DEF worst_result

(* A set of values whose mark is a plain pass.                             *)
LEMMA Tick ==
    ASSUME NEW S, S \subseteq RESULT_VALUES, NEW x \in S,
           ~ (S \cap {"fail", "error"} = {} /\ "pass" \in S /\ S \cap {"not-run", "skip"} # {}),
           (CHOOSE v \in S : \A w \in S : PRECEDENCE[v] <= PRECEDENCE[w]) = "pass"
    PROVE  x \in {"pass", "unsupported", "n/a"}
<1>0. S # {}
  OBVIOUS
<1>1. \E v \in S : \A w \in S : PRECEDENCE[v] <= PRECEDENCE[w]
  <2>1. /\ PRECEDENCE["fail"] = 1 /\ PRECEDENCE["error"] = 2 /\ PRECEDENCE["pass"] = 3
        /\ PRECEDENCE["skip"] = 4 /\ PRECEDENCE["not-run"] = 5
        /\ PRECEDENCE["unsupported"] = 6 /\ PRECEDENCE["n/a"] = 7
    BY DEF PRECEDENCE, RESULT_VALUES
  <2>2. QED
    BY <1>0, <2>1 DEF RESULT_VALUES
<1>2. "pass" \in S /\ \A w \in S : PRECEDENCE["pass"] <= PRECEDENCE[w]
  BY <1>1
<1>3. S \cap {"fail", "error"} = {}
  BY <1>2, Ranks
<1>4. QED
  BY <1>2, <1>3 DEF RESULT_VALUES

-----------------------------------------------------------------------------
(* What a run leaves on disk                                               *)

LEMMA ResultType ==
    ASSUME scenario \in Scenarios, NEW t, NEW r, NEW res \in Results(t, r)
    PROVE  res.kind \in {"ran", "undeclared", "style", "unavailable", "unusable"} /\ res.at \in {0, head}
<1>1. CASE DeclaredAs(t, r) # "yes"
  BY <1>1 DEF Results
<1>2. CASE DeclaredAs(t, r) = "yes" /\ <<t, r>> \in NotOfStyle
  BY <1>2 DEF Results
<1>3. CASE DeclaredAs(t, r) = "yes" /\ <<t, r>> \notin NotOfStyle
  BY <1>3, StatusAssumption DEF Results
<1>4. QED
  BY <1>1, <1>2, <1>3

(* The inductive part of the type invariant: what the record reads.        *)
Inv ==
    /\ scenario \in Scenarios /\ declares \in scenario.declarations
    /\ disk = [t \in Tests |-> [k \in Keys |-> disk[t][k]]]
    /\ \A t \in Tests, k \in Keys :
          /\ disk[t][k].kind \in {"none", "ran", "undeclared", "style", "unavailable", "unusable"}
          /\ disk[t][k] # None => disk[t][k].at \in 0 .. head
    /\ changed \in Nat /\ head \in Nat /\ 1 <= changed /\ changed <= head

LEMMA InvInit == Init => Inv
  BY DEF Init, Inv, None

LEMMA InvNext == Inv /\ [Next]_vars => Inv'
<1> SUFFICES ASSUME Inv, [Next]_vars PROVE Inv'
  OBVIOUS
<1>1. ASSUME NEW t \in Tests, NEW k \in Keys, Run(t, k) PROVE Inv'
  <2>1. PICK res \in Results(t, k[2]) : disk' = [disk EXCEPT ![t][k] = res]
    BY <1>1 DEF Run
  <2>2. res.kind \in {"ran", "undeclared", "style", "unavailable", "unusable"} /\ res.at \in {0, head}
    BY ResultType DEF Inv
  <2>3. \A u \in Tests, j \in Keys :
           disk'[u][j] = IF u = t /\ j = k THEN res ELSE disk[u][j]
    BY <2>1 DEF Inv
  <2>4. disk' = [u \in Tests |-> [j \in Keys |-> disk'[u][j]]]
    BY <2>1 DEF Inv
  <2>5. \A u \in Tests, j \in Keys :
          /\ disk'[u][j].kind \in {"none", "ran", "undeclared", "style", "unavailable", "unusable"}
          /\ disk'[u][j] # None => disk'[u][j].at \in 0 .. head
    BY <2>2, <2>3 DEF Inv
  <2>6. QED
    BY <1>1, <2>4, <2>5 DEF Run, Inv
<1>2. CASE Commit
  BY <1>2, StatusAssumption DEF Commit, Inv
<1>3. CASE Record
  BY <1>3 DEF Record, Inv
<1>4. CASE UNCHANGED vars
  BY <1>4 DEF vars, Inv
<1>5. QED
  BY <1>1, <1>2, <1>3, <1>4 DEF Next

-----------------------------------------------------------------------------
(* The cells                                                               *)

LEMMA CellType ==
    ASSUME NEW t, NEW k
    PROVE  Cell(t, k) \in RESULT_VALUES /\ ResultCell(t, k) \in RESULT_VALUES
<1>1. Status(disk[t][k]) \in {"fail", "error", "pass", "skip"}
  BY DEF Status
<1>2. ResultCell(t, k) \in RESULT_VALUES
  BY <1>1 DEF ResultCell, RESULT_VALUES
<1>3. QED
  BY <1>2 DEF Cell, RESULT_VALUES

(* Behind a recorded pass no test's cell is a failure, an error or missing. *)
LEMMA PassHidesNothing ==
    ASSUME NEW k, NEW t \in Tests, worst_result({Cell(u, k) : u \in Tests}) = "pass"
    PROVE  Cell(t, k) \in {"pass", "skip", "unsupported", "n/a"}
<1> DEFINE S == {Cell(u, k) : u \in Tests}
<1>1. S \subseteq RESULT_VALUES /\ Cell(t, k) \in S
  BY CellType
<1> HIDE DEF S
<1>2. worst_result(S) = "pass"
  BY DEF S
<1>3. RECORD_PRECEDENCE["pass"] <= RECORD_PRECEDENCE[Cell(t, k)]
  BY <1>1, <1>2, WorstResult
<1>4. QED
  BY <1>1, <1>3, Ranks DEF RESULT_VALUES, RECORD_PRECEDENCE

(* A record needs a result, hence a test, so every key has a worst value.  *)
LEMMA WorstOfTests ==
    ASSUME Record, NEW k \in RecordedKeys
    PROVE  worst_result({Cell(t, k) : t \in Tests}) \in RESULT_VALUES
<1>1. PICK t \in Tests : TRUE
  BY DEF Record, Recordable
<1> DEFINE S == {Cell(u, k) : u \in Tests}
<1>2. S \subseteq RESULT_VALUES /\ S # {}
  BY <1>1, CellType
<1> HIDE DEF S
<1>3. worst_result(S) \in S
  BY <1>2, WorstResult
<1>4. QED
  BY <1>2, <1>3 DEF S

(* The step that records.                                                  *)
LEMMA RecordStep ==
    ASSUME Record
    PROVE  /\ status' # None
           /\ status'.results = [k \in RecordedKeys |-> worst_result({Cell(t, k) : t \in Tests})]
           /\ status'.covered = [t \in Tests |-> Credited(t)]
  BY DEF Record, None

-----------------------------------------------------------------------------
(* A step that is not a record leaves the status file alone, and none of   *)
(* them happens once it is written.                                        *)
LEMMA OnlyRecord ==
    ASSUME [Next]_vars, status' # None
    PROVE  Record \/ UNCHANGED vars
<1>1. ASSUME NEW t \in Tests, NEW k \in Keys, Run(t, k) PROVE FALSE
  BY <1>1 DEF Run
<1>2. CASE Commit
  BY <1>2 DEF Commit
<1>3. QED
  BY <1>1, <1>2 DEF Next

LEMMA InvAlways == Spec => []Inv
  BY InvInit, InvNext, PTL DEF Spec

(* TypeOK, of the specification: the keys that are recorded are those of   *)
(* RECORDED_RUNNERS and every value is one of RESULT_VALUES.               *)
THEOREM TypeCorrect == Spec => []TypeOK
<1>1. Init => TypeOK
  BY InvInit DEF Init, Inv, TypeOK, Recording
<1>2. ASSUME Inv, TypeOK, Inv', [Next]_vars PROVE TypeOK'
  <2>1. CASE status' = None
    BY <1>2, <2>1 DEF Inv, TypeOK, Recording
  <2>2. CASE UNCHANGED vars
    BY <1>2, <2>2 DEF vars, TypeOK, Recording, Keys, RecordedKeys
  <2>3. CASE Record
    <3>1. \A k \in RecordedKeys : worst_result({Cell(t, k) : t \in Tests}) \in RESULT_VALUES
      BY <2>3, WorstOfTests
    <3>2. \A t \in Tests : Credited(t) \subseteq Cfgs
      BY DEF Credited, SimPassedCfgs, PassedCfgs, Ran
    <3>3. \A k \in DOMAIN status'.results :
             k[2] \in Recorded /\ status'.results[k] \in RESULT_VALUES
      <4>1. status'.results = [k \in RecordedKeys |-> worst_result({Cell(t, k) : t \in Tests})]
        BY <2>3, RecordStep
      <4>2. QED
        BY <3>1, <4>1 DEF RecordedKeys
    <3>4. \A t \in Tests : status'.covered[t] \subseteq Cfgs
      BY <2>3, <3>2, RecordStep
    <3>5. QED
      BY <1>2, <3>3, <3>4 DEF Inv, TypeOK
  <2>4. QED
    BY <1>2, <2>1, <2>2, <2>3, OnlyRecord
<1>3. QED
  BY <1>1, <1>2, InvAlways, PTL DEF Spec

LEMMA NothingIsHiddenStep ==
    ASSUME Inv, NothingIsHidden, [Next]_vars
    PROVE  NothingIsHidden'
<1>1. CASE status' = None
  BY <1>1 DEF NothingIsHidden, Recording
<1>2. CASE UNCHANGED vars
  BY <1>2 DEF vars, NothingIsHidden, Recording, RecordedKeys, Keys, DeclaredAs, Fresh, Ends, Outcome
<1>3. CASE Record
  <2>1. ASSUME NEW k \in RecordedKeys, NEW t \in Tests,
               status'.results[k] = "pass", DeclaredAs(t, k[2]) = "yes"
        PROVE  /\ disk[t][k].kind \in {"ran", "style"}
               /\ Fresh(disk[t][k])
               /\ ~ Ends(disk[t][k], "fail") /\ ~ Ends(disk[t][k], "error")
    <3>1. worst_result({Cell(u, k) : u \in Tests}) = "pass"
      BY <1>3, <2>1, RecordStep
    <3>2. Cell(t, k) \in {"pass", "skip", "unsupported", "n/a"}
      BY <3>1, PassHidesNothing
    <3>3. ResultCell(t, k) \in {"pass", "skip", "unsupported", "n/a"}
      BY <3>2 DEF Cell
    <3>4. k \in Keys
      BY DEF RecordedKeys
    <3>5. disk[t][k].kind \in {"none", "ran", "undeclared", "style", "unavailable", "unusable"}
      BY <3>4, StatusAssumption DEF Inv
    <3>6. disk[t][k].kind \in {"ran", "style", "unusable"}
      BY <2>1, <3>3, <3>5 DEF ResultCell
    <3>7. disk[t][k].kind # "style" => Status(disk[t][k]) \in {"pass", "skip"}
      <4>1. Status(disk[t][k]) \in {"fail", "error", "pass", "skip"}
        BY DEF Status
      <4>2. QED
        BY <2>1, <3>3, <3>6, <4>1 DEF ResultCell
    <3>8. disk[t][k].kind # "unusable"
      BY <3>7 DEF Status
    <3>9. ~ Ends(disk[t][k], "fail") /\ ~ Ends(disk[t][k], "error")
      BY <3>7, <3>8 DEF Status, Ends
    <3>10. Fresh(disk[t][k])
      BY <1>3, <3>6, <3>8 DEF Record, Recordable
    <3>11. QED
      BY <3>6, <3>8, <3>9, <3>10
  <2>2. declares' = declares /\ disk' = disk /\ changed' = changed
    BY <1>3 DEF Record
  <2>3. QED
    BY <2>1, <2>2 DEF NothingIsHidden, Recording, RecordedKeys, Keys, DeclaredAs, Fresh, Ends, Outcome
<1>4. QED
  BY <1>1, <1>2, <1>3, OnlyRecord

(* A recorded pass hides no failure, no old result and no test that was    *)
(* never run (RECORD_PRECEDENCE, StaleResultError).                        *)
THEOREM PassesHideNothing == Spec => []NothingIsHidden
<1>1. Init => NothingIsHidden
  BY DEF Init, NothingIsHidden, Recording
<1>2. QED
  BY <1>1, NothingIsHiddenStep, InvAlways, PTL DEF Spec

LEMMA VerilatorIsConfirmedStep ==
    ASSUME VerilatorIsConfirmed, [Next]_vars
    PROVE  VerilatorIsConfirmed'
<1>1. CASE status' = None
  BY <1>1 DEF VerilatorIsConfirmed, Recording
<1>2. CASE UNCHANGED vars
  <2>1. \A f \in Flows, t \in Tests : /\ Confirmed(t, f)' <=> Confirmed(t, f)
                                     /\ ResultCell(t, <<f, "verilator">>)' = ResultCell(t, <<f, "verilator">>)
    BY <1>2 DEF vars, Confirmed, ResultCell, DeclaredAs, result, Status, Ends, Ran, Outcome, Trace, Keys
  <2>2. QED
    BY <1>2, <2>1 DEF vars, VerilatorIsConfirmed, Recording
<1>3. CASE Record
  <2>1. ASSUME NEW f \in Flows, NEW t \in Tests, <<f, "verilator">> \in RecordedKeys,
               status'.results[<<f, "verilator">>] = "pass",
               ResultCell(t, <<f, "verilator">>) = "pass"
        PROVE  Confirmed(t, f)
    <3> DEFINE k == <<f, "verilator">>
    <3>1. worst_result({Cell(u, k) : u \in Tests}) = "pass"
      BY <1>3, <2>1, RecordStep
    <3>2. Cell(t, k) # "error"
      BY <3>1, PassHidesNothing
    <3>3. verilator_unconfirmed(t, f) = "none"
      BY <2>1, <3>2 DEF Cell
    <3>4. QED
      BY <3>3 DEF verilator_unconfirmed, Stale, companion_gap, Differ, Confirmed
  <2>2. \A f \in Flows, t \in Tests : /\ Confirmed(t, f)' <=> Confirmed(t, f)
                                     /\ ResultCell(t, <<f, "verilator">>)' = ResultCell(t, <<f, "verilator">>)
    BY <1>3 DEF Record, Confirmed, ResultCell, DeclaredAs, result, Status, Ends, Ran, Outcome, Trace, Keys
  <2>3. QED
    BY <2>1, <2>2 DEF VerilatorIsConfirmed, Recording, Confirmed
<1>4. QED
  BY <1>1, <1>2, <1>3, OnlyRecord

(* A Verilator pass is recorded only when its iverilog-vz companion of the *)
(* same commit confirms it (_unless_transform_bug).                        *)
THEOREM VerilatorIsGuarded == Spec => []VerilatorIsConfirmed
<1>1. Init => VerilatorIsConfirmed
  BY DEF Init, VerilatorIsConfirmed, Recording
<1>2. QED
  BY <1>1, VerilatorIsConfirmedStep, InvAlways, PTL DEF Spec

LEMMA TickIsWholeStep ==
    ASSUME TickIsWhole, [Next]_vars
    PROVE  TickIsWhole'
<1>1. CASE status' = None
  BY <1>1 DEF TickIsWhole, Recording
<1>2. CASE UNCHANGED vars
  <2>1. \A r \in Recorded : runner_mark(r)' = runner_mark(r)
    BY <1>2 DEF vars, runner_mark, RecordedKeys, Keys, PRECEDENCE
  <2>2. RecordedKeys' = RecordedKeys
    BY DEF RecordedKeys, Keys
  <2>3. QED
    BY <1>2, <2>1, <2>2 DEF vars, TickIsWhole, Recording
<1>3. CASE Record
  <2>1. ASSUME NEW r \in Recorded, NEW k \in RecordedKeys, runner_mark(r)' = "pass", k[2] = r
        PROVE  status'.results[k] \in {"pass", "unsupported", "n/a"}
    <3>1. \A j \in RecordedKeys : status'.results[j] \in RESULT_VALUES
      BY <1>3, RecordStep, WorstOfTests
    <3>2. RecordedKeys' = RecordedKeys
      BY DEF RecordedKeys, Keys
    <3> DEFINE S == {status'.results[j] : j \in {j \in RecordedKeys : j[2] = r}}
    <3>3. S \subseteq RESULT_VALUES
      BY <3>1
    <3>4. status'.results[k] \in S
      BY <2>1
    <3>5. IF S = {} THEN "not-run" = "pass"
          ELSE IF S \cap {"fail", "error"} = {} /\ "pass" \in S /\ S \cap {"not-run", "skip"} # {}
                 THEN "partial" = "pass"
          ELSE (CHOOSE v \in S : \A w \in S : PRECEDENCE[v] <= PRECEDENCE[w]) = "pass"
      BY <2>1, <3>2, Zenon DEF runner_mark, PRECEDENCE
    <3> HIDE DEF S
    <3>6. /\ ~ (S \cap {"fail", "error"} = {} /\ "pass" \in S /\ S \cap {"not-run", "skip"} # {})
          /\ (CHOOSE v \in S : \A w \in S : PRECEDENCE[v] <= PRECEDENCE[w]) = "pass"
      BY <3>4, <3>5
    <3>7. QED
      BY <3>3, <3>4, <3>6, Tick
  <2>2. QED
    BY <1>3, <2>1 DEF TickIsWhole, RecordedKeys, Keys
<1>4. QED
  BY <1>1, <1>2, <1>3, OnlyRecord

(* A tick in PROGRESS.md hides no flow (_runner_mark's partial rule).      *)
THEOREM TicksAreWhole == Spec => []TickIsWhole
<1>1. Init => TickIsWhole
  BY DEF Init, TickIsWhole, Recording
<1>2. QED
  BY <1>1, TickIsWholeStep, InvAlways, PTL DEF Spec

LEMMA CoverageIsEarnedStep ==
    ASSUME CoverageIsEarned, [Next]_vars
    PROVE  CoverageIsEarned'
<1>1. CASE status' = None
  BY <1>1 DEF CoverageIsEarned, Recording
<1>2. CASE UNCHANGED vars
  BY <1>2 DEF vars, CoverageIsEarned, Recording, result, PassedCfgs, Ran, Outcome, Fresh, SimKeys, Keys
<1>3. CASE Record
  <2>1. ASSUME NEW t \in Tests, NEW k \in RecordedKeys, NEW c \in PassedCfgs(disk[t][k])
        PROVE  Fresh(disk[t][k])
    <3>1. disk[t][k].kind = "ran"
      BY <2>1 DEF PassedCfgs, Ran
    <3>2. QED
      BY <1>3, <3>1 DEF Record, Recordable
  <2>2. SimKeys \subseteq RecordedKeys
    BY DEF SimKeys, SIMULATORS, RecordedKeys, Keys, runners
  <2>3. ASSUME NEW t \in VectorTests, NEW c \in Credited(t)
        PROVE  /\ c \in PassedCfgs(result(t, "rtl", "python")) /\ Fresh(result(t, "rtl", "python"))
               /\ \E k \in SimKeys : c \in PassedCfgs(disk[t][k]) /\ Fresh(disk[t][k])
    <3>1. t \in Tests
      BY StatusAssumption
    <3>2. c \in PassedCfgs(result(t, "rtl", "python")) /\ c \in SimPassedCfgs(t)
      BY <2>3 DEF Credited
    <3>3. PICK k \in SimKeys : c \in PassedCfgs(disk[t][k])
      BY <3>2 DEF SimPassedCfgs
    <3>4. Fresh(disk[t][k])
      BY <2>1, <2>2, <3>1, <3>3
    <3>5. result(t, "rtl", "python") # None
      BY <3>2 DEF None, PassedCfgs, Ran
    <3>6. <<"rtl", "python">> \in RecordedKeys /\ result(t, "rtl", "python") = disk[t][<<"rtl", "python">>]
      BY <3>5 DEF result, RecordedKeys, Keys, runners
    <3>7. QED
      BY <2>1, <3>1, <3>2, <3>3, <3>4, <3>6
  <2>4. QED
    BY <1>3, <2>3, RecordStep, StatusAssumption
    DEF Record, CoverageIsEarned, Recording, result, PassedCfgs, Ran, Outcome, Fresh, SimKeys, Keys
<1>4. QED
  BY <1>1, <1>2, <1>3, OnlyRecord

(* A covered configuration of a vector test was passed by the golden model *)
(* and by a simulator, on these inputs (_vector_reached).                  *)
THEOREM CoverageWasEarned == Spec => []CoverageIsEarned
<1>1. Init => CoverageIsEarned
  BY DEF Init, CoverageIsEarned, Recording
<1>2. QED
  BY <1>1, CoverageIsEarnedStep, InvAlways, PTL DEF Spec

-----------------------------------------------------------------------------
(* The life of the file: runs, commits and records as above, beside stubs, *)
(* records of the other source, and work that goes on after a record.      *)
allVars == <<vars, fileVars>>

LEMMA FileSteps ==
    ASSUME [FileNext]_allVars
    PROVE  [Next]_vars \/ (status' = None /\ UNCHANGED <<scenario, declares, disk, head, changed>>)
  BY DEF FileNext, FileRun, FileCommit, RunOther, StatusInit, FileRecord, RecordOther, Reopen, Next,
         allVars, vars

Safe == NothingIsHidden /\ VerilatorIsConfirmed /\ TickIsWhole /\ CoverageIsEarned

LEMMA SafeStep ==
    ASSUME Inv, Safe, [FileNext]_allVars
    PROVE  Inv' /\ Safe'
<1>1. CASE [Next]_vars
  BY <1>1, InvNext, NothingIsHiddenStep, VerilatorIsConfirmedStep, TickIsWholeStep, CoverageIsEarnedStep
     DEF Safe
<1>2. CASE status' = None /\ UNCHANGED <<scenario, declares, disk, head, changed>>
  BY <1>2 DEF Inv, Safe, NothingIsHidden, VerilatorIsConfirmed, TickIsWhole, CoverageIsEarned, Recording
<1>3. QED
  BY <1>1, <1>2, FileSteps

(* The commit that a hash names made the inputs that a result of this age  *)
(* measured.                                                               *)
MadeAt(age, hash) ==
    /\ age \in Nat /\ hash \in touched /\ hash <= age /\ age <= head
    /\ \A m \in touched : m <= age => m <= hash

Touches ==
    touched \subseteq 1 .. head /\ changed \in touched /\ \A m \in touched : m <= changed

SomeCell(cells) == \E k \in RecordedKeys : cells[k] # "not-run"

OtherMade == other # None => other.at \in 0 .. head /\ SomeCell(other.cells)

(* The hashes of a file, and the ages of what it records.                  *)
FileMade(f) ==
    /\ f = [hash |-> f.hash, results |-> f.results, otherHash |-> f.otherHash, others |-> f.others,
            covered |-> f.covered, bins |-> f.bins, ages |-> f.ages, otherAge |-> f.otherAge]
    /\ \A age \in f.ages : MadeAt(age, f.hash)
    /\ f.otherAge # 0 => MadeAt(f.otherAge, f.otherHash) /\ SomeCell(f.others)

SourcesMade == Touches /\ OtherMade /\ (OnDisk => FileMade(file))

LEMMA TreeOfHash ==
    ASSUME Touches, head \in Nat, NEW age, NEW hash, MadeAt(age, hash)
    PROVE  TreeOf(age) = hash
<1>1. \A n \in touched : n \in Nat
  BY DEF Touches
<1>2. \A n \in touched :
         n <= age /\ (\A m \in touched : m <= age => m <= n) <=> n = hash
  BY <1>1 DEF MadeAt
<1>3. hash \in touched
  BY DEF MadeAt
<1>4. QED
  BY <1>2, <1>3 DEF TreeOf

LEMMA MarksFromInv == Inv /\ SourcesMade => MarksCompareLikeForLike
<1> SUFFICES ASSUME Inv, SourcesMade, OnDisk, file.otherAge # 0, file.ages # {}
             PROVE  LET same == \A a \in file.ages : TreeOf(a) = TreeOf(file.otherAge)
                        differ == \E k \in RecordedKeys : _disagrees(file.results[k], file.others[k])
                    IN  /\ _source_suffix = "~gh" <=> ~same
                        /\ _source_suffix = "+gh" <=> same /\ differ
  BY DEF MarksCompareLikeForLike
<1>1. /\ \A a \in file.ages : TreeOf(a) = file.hash
      /\ TreeOf(file.otherAge) = file.otherHash
  BY TreeOfHash DEF SourcesMade, FileMade, Inv
<1>2. ~ \A k \in RecordedKeys : file.others[k] = "not-run"
  BY DEF SourcesMade, FileMade, SomeCell
<1>3. QED
  BY <1>1, <1>2 DEF _source_suffix

LEMMA MadeInit == FileInit => SourcesMade
<1> SUFFICES ASSUME FileInit PROVE SourcesMade
  OBVIOUS
<1>1. Touches /\ OtherMade
  BY DEF FileInit, Init, Touches, OtherMade
<1>2. ~ OnDisk
  BY DEF FileInit, OnDisk
<1>3. QED
  BY <1>1, <1>2 DEF SourcesMade

LEMMA StubIsMade == FileMade(new_stub)
  BY DEF FileMade, new_stub

LEMMA BeforeIsMade == SourcesMade => FileMade(Before)
  BY StubIsMade DEF SourcesMade, Before

(* Later commits leave the inputs of earlier results alone.                *)
LEMMA MadeStays ==
    ASSUME NEW age, NEW hash, MadeAt(age, hash), head \in Nat,
           \/ UNCHANGED <<head, touched>>
           \/ head' = head + 1 /\ touched' \in {touched, touched \cup {head'}}
    PROVE  MadeAt(age, hash)'
  BY DEF MadeAt

LEMMA MadeStep ==
    ASSUME Inv, SourcesMade, [FileNext]_allVars
    PROVE  SourcesMade'
<1> USE DEF SourcesMade
<1>0. head \in Nat /\ changed \in Nat /\ changed <= head /\ RecordedKeys' = RecordedKeys /\ new_stub.ages = {}
  BY DEF Inv, RecordedKeys, Keys, new_stub
<1>1. ASSUME UNCHANGED <<head, changed, touched>> PROVE Touches'
  BY <1>1 DEF Touches
<1>2. ASSUME UNCHANGED <<head, touched>>, NEW f, FileMade(f) PROVE FileMade(f)'
  BY <1>2 DEF FileMade, MadeAt, SomeCell
<1>3. CASE \E t \in Tests, k \in Keys : FileRun(t, k)
  <2>1. UNCHANGED <<head, changed, touched, other, file>>
    BY <1>3 DEF FileRun, Run
  <2>2. OtherMade'
    BY <1>0, <2>1 DEF OtherMade, SomeCell
  <2>3. QED
    BY <1>1, <1>2, <2>1, <2>2 DEF OnDisk
<1>4. CASE FileCommit
  <2>1. /\ head' = head + 1 /\ UNCHANGED <<other, file>>
        /\ \/ changed' = changed /\ touched' = touched
           \/ changed' = head' /\ touched' = touched \cup {head'}
    BY <1>0, <1>4 DEF FileCommit, Commit
  <2>2. Touches'
    <3>1. head \in Nat /\ changed \in Nat /\ \A m \in touched : m \in Nat /\ 1 <= m /\ m <= head
      <4>1. head \in Nat /\ changed \in Nat /\ touched \subseteq 1 .. head
        BY <1>0 DEF Touches
      <4>2. \A m \in touched : m \in 1 .. head
        BY <4>1
      <4> HIDE DEF SourcesMade
      <4>3. QED
        BY <4>1, <4>2
    <3>2. CASE changed' = changed /\ touched' = touched
      BY <2>1, <3>1, <3>2 DEF Touches
    <3>3. CASE changed' = head' /\ touched' = touched \cup {head'}
      <4>1. \A m \in touched' : m \in 1 .. head' /\ m <= changed'
        BY <2>1, <3>1, <3>3
      <4>2. QED
        BY <3>3, <4>1 DEF Touches
    <3>4. QED
      BY <2>1, <3>2, <3>3
  <2>3. OtherMade'
    BY <1>0, <2>1 DEF OtherMade, SomeCell
  <2>4. OnDisk => FileMade(file)'
    BY <1>0, <2>1, MadeStays DEF FileMade, SomeCell
  <2>5. QED
    BY <2>1, <2>2, <2>3, <2>4 DEF OnDisk
<1>5. CASE RunOther
  <2>1. UNCHANGED <<head, changed, touched, file>>
    BY <1>5 DEF RunOther, vars
  <2>2. OtherMade'
    <3>1. PICK k \in scenario.others, v \in {"pass", "fail"}, at \in {0, head} :
             other' = [kind |-> "ran", at |-> at, cells |-> [NoCells EXCEPT ![k] = v]]
      BY <1>5 DEF RunOther
    <3>2. k \in RecordedKeys
      BY FileAssumption DEF Inv
    <3>3. other'.at \in 0 .. head' /\ other'.cells[k] # "not-run"
      BY <1>0, <2>1, <3>1, <3>2 DEF NoCells
    <3>4. QED
      BY <1>0, <3>2, <3>3 DEF OtherMade, SomeCell
  <2>3. QED
    BY <1>1, <1>2, <2>1, <2>2 DEF OnDisk
<1>6. CASE StatusInit
  <2>1. UNCHANGED <<head, changed, touched, other>> /\ file' \in {file, new_stub,
             [file EXCEPT !.covered = {}, !.bins = coverage_bins(Entry)]}
    BY <1>6 DEF StatusInit, refresh_bins, vars
  <2>2. OtherMade'
    BY <1>0, <2>1 DEF OtherMade, SomeCell
  <2>3. (OnDisk => file' \in {file, [file EXCEPT !.covered = {}, !.bins = coverage_bins(Entry)]})
        /\ (~ OnDisk => file' = new_stub)
    BY <1>6 DEF StatusInit, refresh_bins
  <2>4. FileMade(file')
    <3>1. CASE ~ OnDisk
      BY <2>3, <3>1, StubIsMade
    <3>2. CASE OnDisk
      BY <2>3, <3>2 DEF FileMade
    <3>3. QED
      BY <3>1, <3>2
  <2>5. QED
    BY <1>1, <2>1, <2>2, <2>4 DEF OnDisk, FileMade, MadeAt, SomeCell
<1>7. CASE FileRecord
  <2>1. UNCHANGED <<head, changed, touched, other>>
    BY <1>7 DEF FileRecord, Record
  <2>2. OtherMade'
    BY <1>0, <2>1 DEF OtherMade, SomeCell
  <2>3. file' = [Before EXCEPT !.hash = changed, !.results = status'.results,
                    !.covered = _coverage, !.bins = coverage_bins(Entry),
                    !.ages = {disk[p[1]][p[2]].at : p \in Measured}]
    BY <1>7 DEF FileRecord
  <2>4. ASSUME NEW p \in Measured PROVE MadeAt(disk[p[1]][p[2]].at, changed)
    <3>1. /\ p[1] \in Tests /\ p[2] \in RecordedKeys /\ p[2] \in Keys
          /\ disk[p[1]][p[2]].kind \notin {"none", "unusable"}
      BY <2>4 DEF Measured, RecordedKeys
    <3>2. Fresh(disk[p[1]][p[2]])
      BY <1>7, <3>1 DEF FileRecord, Record, Recordable
    <3>3. disk[p[1]][p[2]].at \in 0 .. head
      BY <3>1 DEF Inv, None
    <3>4. disk[p[1]][p[2]].at \in Nat /\ changed <= disk[p[1]][p[2]].at /\ disk[p[1]][p[2]].at <= head
      BY <1>0, <3>2, <3>3 DEF Fresh
    <3>5. changed \in touched /\ \A m \in touched : m <= changed
      BY DEF Touches
    <3>6. QED
      BY <3>4, <3>5 DEF MadeAt
  <2>5. FileMade(file')
    <3> DEFINE ages == {disk[p[1]][p[2]].at : p \in Measured}
    <3>1. FileMade(Before)
      BY BeforeIsMade
    <3>2. \A age \in ages : MadeAt(age, changed)
      BY <2>4
    <3>3. file' = [Before EXCEPT !.hash = changed, !.results = status'.results,
                      !.covered = _coverage, !.bins = coverage_bins(Entry), !.ages = ages]
      BY <2>3
    <3> HIDE DEF ages
    <3>4. QED
      BY <3>1, <3>2, <3>3 DEF FileMade
  <2>6. QED
    BY <1>1, <2>1, <2>2, <2>5 DEF OnDisk, FileMade, MadeAt, SomeCell
<1>8. CASE RecordOther
  <2>1. UNCHANGED <<head, changed, touched, other>>
    BY <1>8 DEF RecordOther, vars
  <2>2. OtherMade'
    BY <1>0, <2>1 DEF OtherMade, SomeCell
  <2>3. /\ other # None /\ Fresh(other)
        /\ file' = [Before EXCEPT !.otherHash = changed, !.others = other.cells, !.otherAge = other.at]
    BY <1>8 DEF RecordOther
  <2>4. MadeAt(other.at, changed) /\ SomeCell(other.cells)
    BY <1>0, <2>3 DEF OtherMade, MadeAt, Touches, Fresh
  <2>5. FileMade(file')
    BY <2>3, <2>4, BeforeIsMade DEF FileMade
  <2>6. QED
    BY <1>1, <2>1, <2>2, <2>5 DEF OnDisk, FileMade, MadeAt, SomeCell
<1>9. CASE Reopen \/ UNCHANGED allVars
  <2>1. UNCHANGED <<head, changed, touched, other, file>>
    BY <1>9 DEF Reopen, allVars, vars, fileVars
  <2>2. OtherMade'
    BY <1>0, <2>1 DEF OtherMade, SomeCell
  <2>3. QED
    BY <1>1, <1>2, <2>1, <2>2 DEF OnDisk
<1>10. QED
  BY <1>3, <1>4, <1>5, <1>6, <1>7, <1>8, <1>9 DEF FileNext

LEMMA FileInductive == FileSpec => [](Inv /\ Safe /\ SourcesMade)
<1>1. FileInit => Inv /\ Safe /\ SourcesMade
  BY InvInit, MadeInit
     DEF FileInit, Init, Safe, NothingIsHidden, VerilatorIsConfirmed, TickIsWhole, CoverageIsEarned, Recording
<1>2. Inv /\ Safe /\ SourcesMade /\ [FileNext]_<<vars, fileVars>> => (Inv /\ Safe /\ SourcesMade)'
  BY SafeStep, MadeStep DEF allVars
<1>3. QED
  BY <1>1, <1>2, PTL DEF FileSpec

(* "`+gh` flags a level where one source passes what the other fails;      *)
(* `~gh` means the results were recorded at another tree hash": for any    *)
(* tests, runs, commits, stubs and records of both sources, the results    *)
(* are compared exactly when the same commit made their inputs.            *)
THEOREM MarksAreFair == FileSpec => []MarksCompareLikeForLike
  BY FileInductive, MarksFromInv, PTL

(* What a record says holds of the file that goes on living: beside stubs, *)
(* records of the other source and work after a record, a recorded pass    *)
(* hides nothing, a Verilator pass was confirmed, a tick is whole and      *)
(* coverage was earned.                                                    *)
THEOREM RecordsStayTrue ==
    FileSpec => [](NothingIsHidden /\ VerilatorIsConfirmed /\ TickIsWhole /\ CoverageIsEarned)
<1>1. Safe => NothingIsHidden /\ VerilatorIsConfirmed /\ TickIsWhole /\ CoverageIsEarned
  BY DEF Safe
<1>2. QED
  BY <1>1, FileInductive, PTL

-----------------------------------------------------------------------------
(* What a stimulus reaches, it shows                                       *)

(* The ports of an entry are the generated ones, with another level.       *)
LEMMA EntryPorts ==
    /\ Entry.attributes = Generated.attributes
    /\ \A p \in Entry.ports : p.direction \in {"input", "output", "inout"} /\ p.cls \in Classes
    /\ \A p, q \in Entry.ports : p.name = q.name => p = q
    /\ \A p \in Entry.ports : p.cls \in {"async", "gate"} => p.direction = "input"
<1> DEFINE of(p) == [p EXCEPT !.active = Over(inputs.overrides, "active", p.name, @)]
<1>1. Entry.ports = {of(p) : p \in Generated.ports} /\ Entry.attributes = Generated.attributes
  BY DEF Entry, merge
<1>2. ASSUME NEW p \in Generated.ports
      PROVE  /\ of(p).name = p.name /\ of(p).direction = p.direction /\ of(p).cls = p.cls
             /\ p.direction \in {"input", "output", "inout"} /\ p.cls \in Classes
  BY FileAssumption
<1>3. QED
  BY <1>1, <1>2, FileAssumption

StimulusOK(s) ==
    /\ Len(s.steps) \in Nat
    /\ \A i \in 1 .. Len(s.steps) :
          s.steps[i].op = "set" => \A n \in DOMAIN s.steps[i].pins : s.steps[i].pins[n] \in {"0", "1"}

(* A pin is at 0 or 1, and after a write at what was written.              *)
LEMMA LevelsAre ==
    ASSUME NEW s, StimulusOK(s), NEW n \in Pins(Entry)
    PROVE  /\ \A i \in 0 .. Len(s.steps) : Levels(Entry, s)[i][n] \in {"0", "1"}
           /\ \A i \in 1 .. Len(s.steps) :
                 Writes(s.steps[i], n) => Levels(Entry, s)[i][n] = s.steps[i].pins[n]
<1> DEFINE one(i) == \E j \in 1 .. i : /\ Writes(s.steps[j], n) /\ s.steps[j].pins[n] = "1"
                                       /\ \A k \in j + 1 .. i : ~ Writes(s.steps[k], n)
<1>1. ASSUME NEW i \in 0 .. Len(s.steps)
      PROVE  Levels(Entry, s)[i][n] = IF one(i) THEN "1" ELSE "0"
  BY DEF Levels
<1>2. ASSUME NEW i \in 1 .. Len(s.steps), Writes(s.steps[i], n)
      PROVE  Levels(Entry, s)[i][n] = s.steps[i].pins[n]
  <2>1. i \in Nat /\ i \in 1 .. i /\ i \in 0 .. Len(s.steps)
    BY DEF StimulusOK
  <2>2. s.steps[i].pins[n] \in {"0", "1"}
    BY <1>2 DEF StimulusOK, Writes
  <2>3. \A j \in 1 .. i : j # i => i \in j + 1 .. i
    BY <2>1
  <2>4. \A k \in i + 1 .. i : FALSE
    BY <2>1
  <2>5. one(i) <=> s.steps[i].pins[n] = "1"
    BY <1>2, <2>1, <2>3, <2>4
  <2>6. QED
    BY <1>1, <2>1, <2>2, <2>5
<1>3. QED
  BY <1>1, <1>2

(* Every pin starts at 0.                                                  *)
LEMMA StartsAtZero ==
    ASSUME NEW s, StimulusOK(s), NEW n \in Pins(Entry)
    PROVE  Levels(Entry, s)[0][n] = "0"
<1>1. 0 \in 0 .. Len(s.steps)
  BY DEF StimulusOK
<1>2. 1 .. 0 = {}
  OBVIOUS
<1>3. QED
  BY <1>1, <1>2 DEF Levels

LEMMA NamesAre ==
    ASSUME NEW p, NEW n \in Names(p)
    PROVE  n[1] = p.name
  BY DEF Names

(* The ways in which a stimulus reaches a bin, before the polarity.        *)
Touched(s, b) ==
    LET at == Levels(Entry, s) IN
    \E i \in 1 .. Len(s.steps), p \in Entry.ports :
        /\ b = <<"port", <<p.name>>>>
        /\ \/ p.cls = "clock" /\ EdgeOf(s.steps[i], p)
           \/ p.direction # "input" /\ s.steps[i].op = "sample"
           \/ p.direction = "input" /\ p.cls # "clock" /\ \E n \in Names(p) : at[i][n] # at[i - 1][n]

Written(s, b) ==
    \E i \in 1 .. Len(s.steps) : \E n \in DOMAIN s.steps[i].pins :
        s.steps[i].op = "set" /\ b = <<"port", n, s.steps[i].pins[n]>>

Moved(s, b) ==
    LET at == Levels(Entry, s) IN
    \E i \in 1 .. Len(s.steps), p \in Entry.ports : \E n \in Names(p) :
        /\ p.cls \in {"async", "gate"} /\ at[i - 1][n] # at[i][n]
        /\ b = <<"port", n, IF at[i][n] = "1" THEN "rise" ELSE "fall">>

Driven(s, b) ==
    LET at == Levels(Entry, s) IN
    \E i \in 1 .. Len(s.steps), p \in Entry.ports, event \in {"drive0", "drive1", "release"} :
        /\ p.cls = "inout" /\ b = <<"port", <<p.name>>, event>>
        /\ event \in {"drive0", "drive1"} =>
              /\ at[i][<<p.name, "en">>] = "1"
              /\ event = "drive1" <=> at[i][<<p.name, "val">>] = "1"
        /\ event = "release" => at[i - 1][<<p.name, "en">>] = "1" /\ at[i][<<p.name, "en">>] = "0"

Clocked(s, b) ==
    \E i \in 1 .. Len(s.steps) :
        s.steps[i].op = "edge" /\ b = <<"port", <<s.steps[i].port>>, "edge">>

Explicit(s, b) == \E a \in DOMAIN s.attrs : b = <<"attr", a, s.attrs[a]>>

Claimed(s, b) == \E c \in s.claims : b = <<"claim", c>>

LEMMA ReachIs ==
    ASSUME NEW s, StimulusOK(s), NEW b \in Reach(Entry, s)
    PROVE  \/ Touched(s, b) \/ Written(s, b) \/ Moved(s, b) \/ Driven(s, b)
           \/ Clocked(s, b) \/ Explicit(s, b) \/ Claimed(s, b)
<1> DEFINE N == 1 .. Len(s.steps)
           at == Levels(Entry, s)
<1>1. CASE b \in {<<"port", <<p>>>> : p \in PortsReached(Entry, s)}
  <2>1. PICK n \in PortsReached(Entry, s) : b = <<"port", <<n>>>>
    BY <1>1
  <2>2. PICK p \in Entry.ports :
           /\ p.name = n
           /\ \/ p.cls = "clock" /\ \E i \in N : s.steps[i].op = "edge" /\ s.steps[i].port = p.name
              \/ p.direction # "input" /\ "sample" \in {s.steps[i].op : i \in N}
              \/ p.direction = "input" /\ p.cls # "clock"
                    /\ \E i \in N : \E m \in Names(p) : at[i][m] # at[i - 1][m]
    BY <2>1 DEF PortsReached
  <2>3. PICK i \in N :
           \/ p.cls = "clock" /\ EdgeOf(s.steps[i], p)
           \/ p.direction # "input" /\ s.steps[i].op = "sample"
           \/ p.direction = "input" /\ p.cls # "clock" /\ \E m \in Names(p) : at[i][m] # at[i - 1][m]
    BY <2>2 DEF EdgeOf
  <2>4. QED
    BY <2>1, <2>2, <2>3 DEF Touched
<1>2. ASSUME NEW i \in N, b \in StepReach(Entry, s, i)
      PROVE  Written(s, b) \/ Moved(s, b) \/ Driven(s, b) \/ Clocked(s, b)
  <2>1. CASE s.steps[i].op = "set"
    <3>1. \/ b \in _data_events(Entry, s.steps[i])
          \/ b \in _polarity_events(Entry, at[i - 1], at[i])
          \/ \E p \in Entry.ports : p.cls = "inout" /\ b \in _inout_events(p, at[i - 1], at[i])
      BY <1>2, <2>1 DEF StepReach, _stimulus_events
    <3>2. CASE b \in _data_events(Entry, s.steps[i])
      BY <2>1, <3>2 DEF _data_events, Written
    <3>3. CASE b \in _polarity_events(Entry, at[i - 1], at[i])
      <4>1. PICK n \in UNION {Names(p) : p \in {p \in Entry.ports : p.cls \in {"async", "gate"}}} :
               /\ at[i - 1][n] # at[i][n]
               /\ b = <<"port", n, IF at[i][n] = "1" THEN "rise" ELSE "fall">>
        BY <3>3 DEF _polarity_events
      <4>2. PICK p \in Entry.ports : p.cls \in {"async", "gate"} /\ n \in Names(p)
        BY <4>1
      <4>3. QED
        BY <4>1, <4>2 DEF Moved
    <3>4. ASSUME NEW p \in Entry.ports, p.cls = "inout", b \in _inout_events(p, at[i - 1], at[i])
          PROVE  Driven(s, b)
      <4>1. PICK event \in {"drive0", "drive1", "release"} :
               /\ b = <<"port", <<p.name>>, event>>
               /\ event \in {"drive0", "drive1"} =>
                     /\ at[i][<<p.name, "en">>] = "1"
                     /\ event = "drive1" <=> at[i][<<p.name, "val">>] = "1"
               /\ event = "release" =>
                     at[i - 1][<<p.name, "en">>] = "1" /\ at[i][<<p.name, "en">>] = "0"
        BY <3>4 DEF _inout_events
      <4>2. QED
        BY <3>4, <4>1 DEF Driven
    <3>5. QED
      BY <3>1, <3>2, <3>3, <3>4
  <2>2. CASE s.steps[i].op = "edge"
    BY <1>2, <2>2 DEF StepReach, Clocked
  <2>3. QED
    BY <1>2, <2>1, <2>2 DEF StepReach
<1>3. QED
  BY <1>1, <1>2 DEF Reach, Explicit, Claimed

(* The bins of a port, as the catalog names them.                          *)
LEMMA PortBinIs ==
    ASSUME NEW n, NEW event, <<"port", n, event>> \in coverage_bins(Entry)
    PROVE  \E p \in Entry.ports :
              /\ n[1] = p.name
              /\ event \in {"0", "1"} =>
                    p.direction = "input" /\ p.cls = "data" /\ n \in Names(p)
<1> DEFINE b == <<"port", n, event>>
<1>1. b[1] = "port" /\ b[2] = n /\ b[3] = event /\ Len(b) = 3
  OBVIOUS
<1>2. b \notin {<<"port", <<p.name>>>> : p \in Entry.ports}
  <2>1. \A m : Len(<<"port", m>>) = 2
    OBVIOUS
  <2>2. QED
    BY <1>1, <2>1
<1>3. b \notin {<<"claim", c>> : c \in Entry.claims}
  BY <1>1
<1>4. ASSUME b \in cross_bins(Entry) PROVE FALSE
  <2> DEFINE values(c) == {v \in [c -> UNION {Attribute(Entry, a).allowed : a \in c}] :
                              \A a \in c : v[a] \in Attribute(Entry, a).allowed}
             bins(c) == {<<"cross", {<<a, v[a]>> : a \in c}>> : v \in values(c)}
  <2>1. PICK c \in CrossedPairs(Entry) :
           b \in (IF \E a \in c : ~is_enumerated(Attribute(Entry, a)) THEN {} ELSE bins(c))
    BY <1>4 DEF cross_bins
  <2> HIDE DEF values
  <2>2. PICK v \in values(c) : b = <<"cross", {<<a, v[a]>> : a \in c}>>
    BY <2>1
  <2>3. QED
    BY <1>1, <2>2
<1>5. \A a \in Entry.attributes :
         b \notin (IF is_enumerated(a) THEN {<<"attr", a.name, v>> : v \in a.allowed} ELSE {<<"attr", a.name>>})
  BY <1>1
<1> HIDE DEF b
<1>6. PICK p \in Entry.ports : b \in port_class_bins(p)
  BY <1>2, <1>3, <1>4, <1>5 DEF coverage_bins, b
<1>7. b[2] \in Names(p) \/ b[2] = <<p.name>>
  BY <1>6 DEF port_class_bins
<1>8. b[3] \in {"0", "1"} => p.direction = "input" /\ p.cls = "data" /\ b[2] \in Names(p)
  BY <1>6 DEF port_class_bins
<1>9. b[2][1] = p.name
  BY <1>7, NamesAre
<1>10. QED
  BY <1>1, <1>8, <1>9

(* Of a port whose active level is declared, a rise or a fall is an        *)
(* assertion or a release at the primitive, whose inversion is the same    *)
(* all through a stimulus.                                                 *)
LEMMA MovedIsShown ==
    ASSUME NEW s, StimulusOK(s), NEW r, Moved(s, r), NEW b \in polarity_bins(Entry, s, {r})
    PROVE  Shows(s, b)
<1> DEFINE N == 1 .. Len(s.steps)
           at == Levels(Entry, s)
           inv(p) == PinInverted(Entry, s, p.name)
<1>1. PICK i \in N, p \in Entry.ports : \E n \in Names(p) :
         /\ p.cls \in {"async", "gate"} /\ at[i - 1][n] # at[i][n]
         /\ r = <<"port", n, IF at[i][n] = "1" THEN "rise" ELSE "fall">>
  BY DEF Moved
<1>2. PICK n \in Names(p) :
         /\ p.cls \in {"async", "gate"} /\ at[i - 1][n] # at[i][n]
         /\ r = <<"port", n, IF at[i][n] = "1" THEN "rise" ELSE "fall">>
  BY <1>1
<1>3. n[1] = p.name
  BY NamesAre
<1>4. n \in Pins(Entry)
  BY <1>2, EntryPorts DEF Pins
<1>5. i - 1 \in 0 .. Len(s.steps) /\ i \in 0 .. Len(s.steps)
  BY DEF StimulusOK
<1>6. at[i - 1][n] \in {"0", "1"} /\ at[i][n] \in {"0", "1"}
  BY <1>4, <1>5, LevelsAre
<1>7. PortOf(Entry, p.name) = p
  BY EntryPorts DEF PortOf
<1>8. inv(p) \in BOOLEAN
  BY DEF PinInverted
<1> DEFINE high == (p.active = "high") # inv(p)
           rise == at[i][n] = "1"
<1>9. \A j \in {i - 1, i} : Asserted(s, p, at[j][n]) <=> ((at[j][n] = "1") <=> high)
  BY <1>8 DEF Asserted
<1>10. CASE p.active # "none"
  <2>1. b = <<"port", n, IF rise = high THEN "assert" ELSE "release">>
    BY <1>2, <1>3, <1>7, <1>10 DEF polarity_bins, Polarised
  <2>2. /\ b[1] = "port" /\ Len(b) = 3 /\ b[2] = n /\ b[2][1] = p.name
        /\ b[3] = IF rise = high THEN "assert" ELSE "release"
    BY <1>3, <2>1
  <2>3. p.cls # "inout" /\ PortOf(Entry, b[2][1]) = p
    BY <1>2, <1>7, <2>2
  <2>4. b[3] = "assert" => ~ Asserted(s, p, at[i - 1][n]) /\ Asserted(s, p, at[i][n])
    BY <1>2, <1>6, <1>9, <2>2
  <2>5. b[3] = "release" => Asserted(s, p, at[i - 1][n]) /\ ~ Asserted(s, p, at[i][n])
    BY <1>2, <1>6, <1>9, <2>2
  <2>6. b[3] \in {"assert", "release"}
    BY <2>2
  <2> HIDE DEF high, rise
  <2>7. QED
    BY <2>2, <2>3, <2>4, <2>5, <2>6 DEF Shows
<1>11. CASE p.active = "none"
  <2>1. b = r
    BY <1>2, <1>3, <1>7, <1>11 DEF polarity_bins, Polarised
  <2>2. /\ b[1] = "port" /\ Len(b) = 3 /\ b[2] = n
        /\ b[3] = IF at[i][n] = "1" THEN "rise" ELSE "fall"
    BY <1>2, <2>1
  <2>3. b[3] = "rise" => at[i - 1][n] = "0" /\ at[i][n] = "1"
    BY <1>2, <1>6, <2>2
  <2>4. b[3] = "fall" => at[i - 1][n] = "1" /\ at[i][n] = "0"
    BY <1>2, <1>6, <2>2
  <2>5. b[3] \in {"rise", "fall"}
    BY <2>2
  <2>6. QED
    BY <2>2, <2>3, <2>4, <2>5 DEF Shows
<1>12. QED
  BY <1>10, <1>11

LEMMA ReachIsShown ==
    ASSUME NEW s, StimulusOK(s), NEW b \in coverage_bins(Entry), b \in coverage_reach(Entry, s)
    PROVE  Shows(s, b)
<1> DEFINE N == 1 .. Len(s.steps)
           at == Levels(Entry, s)
<1>1. CASE b \in attr_bins(Entry, s)
  <2>1. PICK a \in DOMAIN s.attrs : b = <<"attr", a>>
    BY <1>1 DEF attr_bins
  <2>2. QED
    BY <2>1 DEF Shows
<1>2. CASE b \in polarity_bins(Entry, s, Reach(Entry, s))
  <2>1. PICK r \in Reach(Entry, s) : b \in polarity_bins(Entry, s, {r})
    BY <1>2 DEF polarity_bins
  <2>2. CASE Moved(s, r)
    BY <2>1, <2>2, MovedIsShown
  <2>3. ASSUME ~ (Len(r) = 3 /\ r[1] = "port" /\ r[3] \in {"rise", "fall"})
        PROVE  b = r
    BY <2>1, <2>3 DEF polarity_bins, Polarised
  <2>4. CASE Touched(s, r)
    <3>1. PICK i \in N, p \in Entry.ports :
             /\ r = <<"port", <<p.name>>>>
             /\ \/ p.cls = "clock" /\ EdgeOf(s.steps[i], p)
                \/ p.direction # "input" /\ s.steps[i].op = "sample"
                \/ p.direction = "input" /\ p.cls # "clock" /\ \E n \in Names(p) : at[i][n] # at[i - 1][n]
      BY <2>4 DEF Touched
    <3>2. b = r /\ b[1] = "port" /\ Len(b) = 2 /\ b[2][1] = p.name
      BY <2>3, <3>1
    <3>3. PortOf(Entry, p.name) = p
      BY EntryPorts DEF PortOf
    <3>4. ASSUME p.direction = "input", p.cls # "clock", NEW n \in Names(p), at[i][n] # at[i - 1][n]
          PROVE  \E j \in N : at[j][n] = "1"
      <4>1. n \in Pins(Entry)
        BY <3>4 DEF Pins
      <4>2. i - 1 \in 0 .. Len(s.steps) /\ i \in 0 .. Len(s.steps)
        BY DEF StimulusOK
      <4>3. at[i - 1][n] \in {"0", "1"} /\ at[i][n] \in {"0", "1"}
        BY <4>1, <4>2, LevelsAre
      <4>4. CASE at[i][n] = "1"
        BY <4>4
      <4>5. CASE at[i - 1][n] = "1"
        <5>1. i - 1 # 0
          BY <4>1, <4>2, <4>5, StartsAtZero
        <5>2. i - 1 \in N
          BY <4>2, <5>1 DEF StimulusOK
        <5>3. QED
          BY <4>5, <5>2
      <4>6. QED
        BY <3>4, <4>3, <4>4, <4>5
    <3>5. \E j \in N :
             \/ p.cls = "clock" /\ EdgeOf(s.steps[j], p)
             \/ p.direction # "input" /\ s.steps[j].op = "sample"
             \/ p.direction = "input" /\ p.cls # "clock" /\ \E n \in Names(p) : at[j][n] = "1"
      BY <3>1, <3>4
    <3>6. QED
      BY <3>2, <3>3, <3>5 DEF Shows
  <2>5. CASE Written(s, r)
    <3>1. PICK i \in N : \E n \in DOMAIN s.steps[i].pins :
             s.steps[i].op = "set" /\ r = <<"port", n, s.steps[i].pins[n]>>
      BY <2>5 DEF Written
    <3>2. PICK n \in DOMAIN s.steps[i].pins :
             s.steps[i].op = "set" /\ r = <<"port", n, s.steps[i].pins[n]>>
      BY <3>1
    <3>3. s.steps[i].pins[n] \in {"0", "1"}
      BY <3>2 DEF StimulusOK
    <3>4. b = <<"port", n, s.steps[i].pins[n]>>
      BY <2>3, <3>2, <3>3
    <3>5. PICK p \in Entry.ports : p.direction = "input" /\ p.cls = "data" /\ n \in Names(p)
      BY <3>3, <3>4, PortBinIs
    <3>6. n \in Pins(Entry)
      BY <3>5 DEF Pins
    <3>7. at[i][n] = s.steps[i].pins[n]
      BY <3>2, <3>6, LevelsAre DEF Writes
    <3>8. Writes(s.steps[i], n) /\ b[2] = n /\ b[3] = s.steps[i].pins[n] /\ b[1] = "port" /\ Len(b) = 3
      BY <3>2, <3>4 DEF Writes
    <3>9. QED
      BY <3>3, <3>7, <3>8 DEF Shows
  <2>6. CASE Driven(s, r)
    <3>1. PICK i \in N, p \in Entry.ports, event \in {"drive0", "drive1", "release"} :
             /\ p.cls = "inout" /\ r = <<"port", <<p.name>>, event>>
             /\ event \in {"drive0", "drive1"} =>
                   /\ at[i][<<p.name, "en">>] = "1"
                   /\ event = "drive1" <=> at[i][<<p.name, "val">>] = "1"
             /\ event = "release" =>
                   at[i - 1][<<p.name, "en">>] = "1" /\ at[i][<<p.name, "en">>] = "0"
      BY <2>6 DEF Driven
    <3>2. b = r
      BY <2>3, <3>1
    <3>3. PortOf(Entry, p.name) = p
      BY EntryPorts DEF PortOf
    <3>4. b[1] = "port" /\ Len(b) = 3 /\ b[2][1] = p.name /\ b[3] = event
      BY <3>1, <3>2
    <3>5. <<p.name, "val">> \in Pins(Entry) /\ i \in 0 .. Len(s.steps)
      BY <3>1 DEF Pins, StimulusOK
    <3>6. at[i][<<p.name, "val">>] \in {"0", "1"}
      BY <3>5, LevelsAre
    <3>7. QED
      BY <3>1, <3>3, <3>4, <3>6 DEF Shows
  <2>7. CASE Clocked(s, r)
    <3>1. PICK i \in N : s.steps[i].op = "edge" /\ r = <<"port", <<s.steps[i].port>>, "edge">>
      BY <2>7 DEF Clocked
    <3>2. r[1] = "port" /\ r[3] = "edge" /\ Len(r) = 3
      BY <3>1
    <3>3. b = r
      BY <2>3, <3>2
    <3>4. PICK p \in Entry.ports : p.name = s.steps[i].port
      BY <3>1, <3>3, PortBinIs
    <3>5. PortOf(Entry, p.name) = p /\ b[1] = "port" /\ b[2][1] = p.name
      BY <3>1, <3>3, <3>4, EntryPorts DEF PortOf
    <3>6. QED
      BY <3>1, <3>2, <3>3, <3>4, <3>5 DEF Shows, EdgeOf
  <2>8. CASE Explicit(s, r)
    <3>1. PICK a \in DOMAIN s.attrs : r = <<"attr", a, s.attrs[a]>>
      BY <2>8 DEF Explicit
    <3>2. QED
      BY <2>3, <3>1 DEF Shows, Same
  <2>9. CASE Claimed(s, r)
    BY <2>3, <2>9 DEF Claimed, Shows
  <2>10. QED
    BY <2>1, <2>2, <2>4, <2>5, <2>6, <2>7, <2>8, <2>9, ReachIs
<1>3. QED
  BY <1>1, <1>2 DEF coverage_reach

(* A cross is realised by attributes that denote its literals.             *)
LEMMA CrossIsShown ==
    ASSUME NEW t, NEW cfgs, NEW b \in _crosses_reached(t, cfgs)
    PROVE  \E c \in cfgs : Shows(_config_attrs(t, c), b)
<1> DEFINE value(c, a) == Values(Entry, _config_attrs(t, c))[a]
           literals(c, a) == enum_value(value(c, a), Attribute(Entry, a).allowed)
           literal(c, a) == CHOOSE v \in literals(c, a) : TRUE
           realised(s) == {c \in cfgs : \A a \in s : literals(c, a) # {}}
<1>1. \A c, a : literals(c, a) # {} => Same(value(c, a), literal(c, a))
  BY DEF enum_value, Same
<1> HIDE DEF literal
<1>2. PICK s \in CrossedPairs(Entry) :
         b \in {<<"cross", {<<a, literal(c, a)>> : a \in s}>> : c \in realised(s)}
  BY DEF _crosses_reached, literal
<1> HIDE DEF literals
<1>3. PICK c \in realised(s) : b = <<"cross", {<<a, literal(c, a)>> : a \in s}>>
  BY <1>2
<1>4. \A a \in s : Same(value(c, a), literal(c, a))
  BY <1>1
<1>5. \A pair \in b[2] : Same(value(c, pair[1]), pair[2])
  BY <1>3, <1>4
<1>6. b[1] = "cross" /\ c \in cfgs
  BY <1>3
<1>7. QED
  BY <1>5, <1>6 DEF Shows

-----------------------------------------------------------------------------
(* Whose stimuli the golden results on disk are of: a golden run of the    *)
(* current inputs replayed the stimuli of one of their seeds.              *)
Golden == <<"rtl", "python">>

Current(t, k) == disk[t][k] # None /\ Fresh(disk[t][k])

ReplayOf(t) ==
    \E m \in inputs.stim[t] :
        /\ replay[t].stim = m
        /\ \A c \in Cfgs : replay[t].bins[c] = IF c \in RejectCfgs THEN {}
                                               ELSE coverage_reach(Entry, Stimulus[m[c]])

StimuliOf(t) == Golden \in Keys /\ Current(t, Golden) => ReplayOf(t)

StimuliMade ==
    /\ inputs \in scenario.inputs
    /\ replay = [t \in Tests |-> replay[t]]
    /\ \A t \in Tests : StimuliOf(t)

(* What a record then covers was shown.                                    *)
LEMMA CoveredIsShown ==
    ASSUME Inv, StimuliMade, Recordable, NEW b \in _coverage
    PROVE  IsShown(b)
<1>1. PICK t \in Tests : b \in CoveredBy(t)
  BY DEF _coverage
<1>2. b \in Exercises[t] /\ b \in coverage_bins(Entry)
  BY <1>1 DEF CoveredBy, _coverage
<1>3. ASSUME NEW k \in SimKeys, NEW c \in PassedCfgs(disk[t][k])
      PROVE  c \in Cfgs /\ Current(t, k) /\ k \in Keys
  <2>1. k \in RecordedKeys /\ k \in Keys
    BY DEF SimKeys, SIMULATORS, RecordedKeys, Keys, runners
  <2>2. disk[t][k].kind = "ran" /\ c \in Cfgs
    BY <1>3 DEF PassedCfgs, Ran
  <2>3. QED
    BY <2>1, <2>2 DEF Recordable, Current, None
<1>4. \A m \in inputs.stim[t], c \in Cfgs : m[c] \in DOMAIN Stimulus
  BY FileAssumption DEF StimuliMade, Inv
<1>5. CASE t \in VectorTests
  <2>0. ASSUME NEW c \in Credited(t)
        PROVE  /\ c \in PassedCfgs(result(t, "rtl", "python")) /\ c \in SimPassedCfgs(t) /\ c \in Cfgs
               /\ Golden \in Keys /\ result(t, "rtl", "python") = disk[t][Golden]
               /\ Current(t, Golden)
    <3>1. c \in PassedCfgs(result(t, "rtl", "python")) /\ c \in SimPassedCfgs(t)
      BY <1>5, <2>0 DEF Credited
    <3>2. result(t, "rtl", "python").kind = "ran" /\ c \in Cfgs
      BY <3>1 DEF PassedCfgs, Ran
    <3>3. Golden \in Keys /\ result(t, "rtl", "python") = disk[t][Golden]
      BY <3>2 DEF result, Golden, None
    <3>4. Golden \in RecordedKeys
      BY <3>3 DEF Golden, RecordedKeys, Keys, runners
    <3>5. Current(t, Golden)
      BY <3>2, <3>3, <3>4 DEF Recordable, Current, None
    <3>6. QED
      BY <3>1, <3>2, <3>3, <3>5
  <2>1. ASSUME NEW c \in Credited(t), Shows(Stimulus[replay[t].stim[c]], b)
        PROVE  IsShown(b)
    <3>1. PICK k \in SimKeys : c \in PassedCfgs(disk[t][k])
      BY <2>0 DEF SimPassedCfgs
    <3>2. QED
      BY <1>2, <1>3, <1>5, <2>0, <2>1, <3>1 DEF IsShown, Current
  <2>2. CASE IsCross(b)
    <3>1. b \in _crosses_reached(t, Credited(t))
      BY <1>1, <1>5, <2>2 DEF CoveredBy
    <3>2. PICK c \in Credited(t) : Shows(_config_attrs(t, c), b)
      BY <3>1, CrossIsShown
    <3>3. Shows(Stimulus[replay[t].stim[c]], b)
      BY <1>5, <3>2 DEF _config_attrs
    <3>4. QED
      BY <2>1, <3>3
  <2>3. CASE ~ IsCross(b)
    <3>1. PICK c \in Credited(t) : b \in replay[t].bins[c]
      BY <1>1, <1>5, <2>3 DEF CoveredBy
    <3>2. PICK m \in inputs.stim[t] :
             /\ replay[t].stim = m
             /\ \A d \in Cfgs : replay[t].bins[d] = IF d \in RejectCfgs THEN {}
                                                    ELSE coverage_reach(Entry, Stimulus[m[d]])
      BY <2>0 DEF StimuliMade, StimuliOf, ReplayOf
    <3>3. c \in Cfgs /\ b \in coverage_reach(Entry, Stimulus[m[c]])
      BY <2>0, <3>1, <3>2
    <3>4. StimulusOK(Stimulus[m[c]])
      BY <1>4, <3>3, FileAssumption DEF StimulusOK
    <3>5. Shows(Stimulus[replay[t].stim[c]], b)
      BY <1>2, <3>2, <3>3, <3>4, ReachIsShown
    <3>6. QED
      BY <2>1, <3>5
  <2>4. QED
    BY <2>2, <2>3
<1>6. CASE t \notin VectorTests
  <2>1. CASE IsCross(b)
    <3>1. b \in _crosses_reached(t, SimPassedCfgs(t))
      BY <1>1, <1>6, <2>1 DEF CoveredBy
    <3>2. PICK c \in SimPassedCfgs(t) : Shows(_config_attrs(t, c), b)
      BY <3>1, CrossIsShown
    <3>3. PICK k \in SimKeys : c \in PassedCfgs(disk[t][k])
      BY DEF SimPassedCfgs
    <3>4. Shows(Stimulus[InTestYaml(t)[c]], b)
      BY <1>6, <3>2 DEF _config_attrs
    <3>5. QED
      BY <1>2, <1>3, <1>6, <2>1, <3>3, <3>4 DEF IsShown, Current
  <2>2. CASE ~ IsCross(b)
    <3>1. PICK k \in SimKeys : disk[t][k] # None /\ Status(disk[t][k]) = "pass"
      BY <1>1, <1>6, <2>2 DEF CoveredBy, Credited
    <3>2. PICK c \in Cfgs : disk[t][k].kind = "ran" /\ Outcome(disk[t][k], c) = "pass"
      BY <3>1 DEF Status, Ends
    <3>3. c \in PassedCfgs(disk[t][k])
      BY <3>2 DEF PassedCfgs, Ran
    <3>4. QED
      BY <1>2, <1>3, <1>6, <2>2, <3>1, <3>3 DEF IsShown, Current
  <2>3. QED
    BY <2>1, <2>2
<1>7. QED
  BY <1>5, <1>6

LEMMA StimuliInit == FileInit => StimuliMade
<1> SUFFICES ASSUME FileInit PROVE StimuliMade
  OBVIOUS
<1>1. disk = [t \in Tests |-> [k \in Keys |-> None]]
  BY DEF FileInit, Init
<1>2. \A t \in Tests, k \in Keys : ~ Current(t, k)
  BY <1>1 DEF Current
<1>3. replay = [t \in Tests |-> None] /\ inputs \in scenario.inputs
  BY DEF FileInit
<1>4. QED
  BY <1>2, <1>3 DEF StimuliMade, StimuliOf

LEMMA StimuliStay ==
    ASSUME StimuliMade, UNCHANGED <<scenario, disk, head, changed, inputs, replay>>
    PROVE  StimuliMade'
<1>1. Entry' = Entry /\ Keys' = Keys
  BY DEF Entry, Keys
<1>2. \A t \in Tests : ReplayOf(t)' <=> ReplayOf(t)
  BY <1>1 DEF ReplayOf
<1>3. \A t \in Tests, k \in Keys : Current(t, k)' <=> Current(t, k)
  BY DEF Current, Fresh
<1>4. \A t \in Tests : StimuliOf(t)'
  BY <1>1, <1>2, <1>3 DEF StimuliMade, StimuliOf
<1>5. QED
  BY <1>4 DEF StimuliMade

LEMMA FileRunStimuli ==
    ASSUME Inv, StimuliMade, NEW t \in Tests, NEW k \in Keys, FileRun(t, k)
    PROVE  StimuliMade'
<1>1. PICK res \in Results(t, k[2]) : disk' = [disk EXCEPT ![t][k] = res]
  BY DEF FileRun, Run
<1>2. UNCHANGED <<scenario, head, changed, inputs>>
  BY DEF FileRun, Run
<1>3. \A u \in Tests, j \in Keys :
         disk'[u][j] = IF u = t /\ j = k THEN res ELSE disk[u][j]
  BY <1>1 DEF Inv
<1>4. Entry' = Entry /\ Keys' = Keys
  BY <1>2 DEF Entry, Keys
<1>5. \A u \in Tests, j \in Keys : ~ (u = t /\ j = k) => (Current(u, j)' <=> Current(u, j))
  BY <1>2, <1>3 DEF Current, Fresh
<1>6. k = Golden <=> k[2] = "python"
  BY DEF Golden, Keys, runner_flows
<1>7. CASE k[2] = "python"
  <2> DEFINE new(m) ==
                [stim |-> m, bins |-> [c \in Cfgs |-> IF c \in RejectCfgs THEN {}
                                                     ELSE coverage_reach(Entry, Stimulus[m[c]])]]
  <2>1. PICK m \in inputs.stim[t] : replay' = [replay EXCEPT ![t] = new(m)]
    BY <1>7 DEF FileRun
  <2>2. \A u \in Tests : replay'[u] = IF u = t THEN new(m) ELSE replay[u]
    BY <2>1 DEF StimuliMade
  <2>3. replay' = [u \in Tests |-> replay'[u]]
    BY <2>1 DEF StimuliMade
  <2>made. /\ new(m).stim = m
        /\ \A c \in Cfgs : new(m).bins[c] = IF c \in RejectCfgs THEN {}
                                            ELSE coverage_reach(Entry, Stimulus[m[c]])
    OBVIOUS
  <2> HIDE DEF new
  <2>4. ASSUME NEW u \in Tests PROVE StimuliOf(u)'
    <3>1. CASE u = t
      <4>0. replay'[u] = new(m)
        BY <2>2, <3>1
      <4>1. m \in inputs'.stim[u] /\ replay'[u].stim = m
        BY <1>2, <2>made, <3>1, <4>0
      <4>2. \A c \in Cfgs : replay'[u].bins[c] = IF c \in RejectCfgs THEN {}
                                                ELSE coverage_reach(Entry', Stimulus[m[c]])
        BY <1>4, <2>made, <4>0
      <4>3. ReplayOf(u)'
        BY <4>1, <4>2 DEF ReplayOf
      <4>4. QED
        BY <4>3 DEF StimuliOf
    <3>2. CASE u # t
      <4>1. replay'[u] = replay[u] /\ inputs' = inputs /\ Entry' = Entry
        BY <1>2, <1>4, <2>2, <3>2
      <4>2. ReplayOf(u)' <=> ReplayOf(u)
        BY <4>1 DEF ReplayOf
      <4>3. Golden \in Keys => (Current(u, Golden)' <=> Current(u, Golden))
        BY <1>5, <3>2
      <4>4. QED
        BY <1>4, <4>2, <4>3 DEF StimuliMade, StimuliOf
    <3>3. QED
      BY <3>1, <3>2
  <2>5. QED
    BY <1>2, <2>3, <2>4 DEF StimuliMade
<1>8. CASE k[2] # "python"
  <2>1. replay' = replay
    BY <1>8 DEF FileRun
  <2>2. ASSUME NEW u \in Tests PROVE StimuliOf(u)'
    <3>1. ReplayOf(u)' <=> ReplayOf(u)
      BY <1>2, <1>4, <2>1 DEF ReplayOf
    <3>2. Golden \in Keys => (Current(u, Golden)' <=> Current(u, Golden))
      BY <1>5, <1>6, <1>8
    <3>3. QED
      BY <1>4, <3>1, <3>2 DEF StimuliMade, StimuliOf
  <2>3. QED
    BY <1>2, <2>1, <2>2 DEF StimuliMade
<1>9. QED
  BY <1>7, <1>8

(* A commit of the inputs leaves no result current.                        *)
LEMMA FileCommitStimuli ==
    ASSUME Inv, StimuliMade, FileCommit
    PROVE  StimuliMade'
<1>1. UNCHANGED <<scenario, disk, replay>> /\ head' = head + 1
  BY DEF FileCommit, Commit
<1>2. changed \in Nat /\ changed # 0 /\ changed <= head /\ head \in Nat
  BY DEF Inv
<1>3. Keys' = Keys
  BY DEF Keys
<1>4. inputs' \in scenario.inputs
  BY DEF FileCommit, StimuliMade
<1>5. CASE changed' = changed
  <2>1. inputs' = inputs
    BY <1>1, <1>2, <1>5 DEF FileCommit
  <2>2. Entry' = Entry
    BY <2>1 DEF Entry
  <2>3. \A t \in Tests : ReplayOf(t)' <=> ReplayOf(t)
    BY <1>1, <2>1, <2>2 DEF ReplayOf
  <2>4. \A t \in Tests, k \in Keys : Current(t, k)' <=> Current(t, k)
    BY <1>1, <1>5 DEF Current, Fresh
  <2>5. \A t \in Tests : StimuliOf(t)'
    BY <1>3, <2>3, <2>4 DEF StimuliMade, StimuliOf
  <2>6. QED
    BY <1>1, <1>4, <2>5 DEF StimuliMade
<1>6. CASE changed' = head + 1
  <2>1. ASSUME NEW t \in Tests, NEW k \in Keys PROVE ~ Current(t, k)'
    <3>1. disk[t][k] # None => disk[t][k].at \in Nat /\ disk[t][k].at <= head
      BY <1>2 DEF Inv
    <3>2. QED
      BY <1>1, <1>2, <1>6, <3>1 DEF Current, Fresh
  <2>2. \A t \in Tests : StimuliOf(t)'
    BY <1>3, <2>1 DEF StimuliOf
  <2>3. QED
    BY <1>1, <1>4, <2>2 DEF StimuliMade
<1>7. QED
  BY <1>5, <1>6 DEF FileCommit, Commit

LEMMA StimuliStep ==
    ASSUME Inv, StimuliMade, [FileNext]_allVars
    PROVE  StimuliMade'
<1>1. CASE \E t \in Tests, k \in Keys : FileRun(t, k)
  BY <1>1, FileRunStimuli
<1>2. CASE FileCommit
  BY <1>2, FileCommitStimuli
<1>3. CASE RunOther \/ StatusInit \/ FileRecord \/ RecordOther \/ Reopen \/ UNCHANGED allVars
  BY <1>3, StimuliStay
     DEF RunOther, StatusInit, FileRecord, Record, RecordOther, Reopen, allVars, vars, fileVars
<1>4. QED
  BY <1>1, <1>2, <1>3 DEF FileNext

(* What the file says of coverage changes with a record alone.             *)
LEMMA CoverageStep ==
    ASSUME Inv, SourcesMade, StimuliMade, CoverageIsShown, [FileNext]_allVars
    PROVE  CoverageIsShown'
<1>1. CASE status' = None
  BY <1>1 DEF CoverageIsShown, Recording
<1>2. ASSUME UNCHANGED <<disk, changed, inputs, replay>>, NEW b, IsShown(b)
      PROVE  IsShown(b)'
  <2>1. Entry' = Entry /\ Keys' = Keys /\ SimKeys' = SimKeys
    BY <1>2 DEF Entry, Keys, SimKeys
  <2>2. \A s : Shows(s, b)' <=> Shows(s, b)
    BY <2>1 DEF Shows, Asserted
  <2>3. \A t, f, r : result(t, f, r)' = result(t, f, r)
    BY <1>2, <2>1 DEF result
  <2>4. \A res : PassedCfgs(res)' = PassedCfgs(res) /\ (Fresh(res)' <=> Fresh(res))
    BY <1>2 DEF PassedCfgs, Ran, Outcome, Fresh
  <2>5. QED
    BY <1>2, <2>1, <2>2, <2>3, <2>4 DEF IsShown, InTestYaml
<1>3. CASE UNCHANGED allVars
  BY <1>2, <1>3 DEF allVars, vars, fileVars, CoverageIsShown, Recording
<1>4. CASE FileRecord
  <2>1. file'.covered = _coverage
    BY <1>4, BeforeIsMade DEF FileRecord, FileMade
  <2>2. Recordable /\ UNCHANGED <<disk, changed, inputs, replay>>
    BY <1>4 DEF FileRecord, Record
  <2>3. QED
    BY <1>2, <2>1, <2>2, CoveredIsShown DEF CoverageIsShown
<1>5. FileRecord \/ UNCHANGED allVars \/ status' = None
  BY DEF FileNext, FileRun, Run, FileCommit, Commit, RunOther, StatusInit, RecordOther, Reopen, vars
<1>6. QED
  BY <1>1, <1>3, <1>4, <1>5

(* "Only the bins that this configuration reached count": for any tests,   *)
(* bins, overrides, stimuli, seeds and commits, whatever the file counts   *)
(* as covered of a vector test, the stimulus of a golden run that passed   *)
(* on these inputs shows, under the catalog's present levels and           *)
(* inversions, and a simulator passed the configuration of that name.      *)
THEOREM CoverageWasShown == FileSpec => []CoverageIsShown
<1>1. FileInit => StimuliMade /\ CoverageIsShown
  BY StimuliInit DEF FileInit, Init, CoverageIsShown, Recording
<1>2. Inv /\ SourcesMade /\ StimuliMade /\ CoverageIsShown /\ [FileNext]_<<vars, fileVars>>
         => (StimuliMade /\ CoverageIsShown)'
  BY StimuliStep, CoverageStep DEF allVars
<1>3. QED
  BY <1>1, <1>2, FileInductive, PTL DEF FileSpec

=============================================================================
