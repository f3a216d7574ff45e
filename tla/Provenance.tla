----------------------------- MODULE Provenance -----------------------------
(***************************************************************************)
(* What ties a recorded result to the sources it was measured on: the      *)
(* stamp `xut run` puts on every result (tools/xut/provenance.py and       *)
(* RunResult.stamp), and the checks of it by `xut status record`           *)
(* (status.py) and `xut crosscheck` (crosscheck.py), beside a developer    *)
(* who edits, commits and checks out.                                      *)
(*                                                                         *)
(* One vector test of one primitive against one model source.  A version   *)
(* stands for the contents of the primitive's tree_paths, and for the hash *)
(* of them.  The python runner generates the stimuli; the simulators'      *)
(* runners take them from its run directory.                               *)
(*                                                                         *)
(* Two fields are not the code's: `still`, that the tree has stood still   *)
(* since HEAD was read for a stamp, and `sure`, that it did so until the   *)
(* measurement and that the stimuli were of the stamped tree, too.         *)
(***************************************************************************)
EXTENDS Naturals, FiniteSets

CONSTANTS
    Versions,        \* contents of the primitive's inputs
    Runners,         \* the runners of the test
    Python,          \* the one that generates the stimuli
    Nothing          \* no stamp, no result, no record

Stamps == [tree : Versions, dirty : BOOLEAN, still : BOOLEAN]

ASSUME ProvenanceAssumption ==
    /\ Nothing \notin Versions \cup Stamps
    /\ Python \in Runners

VARIABLES
    work,      \* the version in the working tree
    head,      \* the version HEAD has
    job,       \* where each runner's job is, in the invocation of `xut run`
    cache,     \* RunContext.provenance
    stamp,     \* the tree hash and cleanness each job is to write down
    stim,      \* the stimuli in the python run: the version they are of
    measured,  \* the versions each job's runner read
    result,    \* each runner's result.json
    recorder,  \* where `xut status record` is
    sha,       \* the HEAD it read
    status,    \* the status file: the hash in it and the versions behind it
    compared   \* the versions behind the last cross-check

provenanceVars == <<work, head, job, cache, stamp, stim, measured, result, recorder, sha, status, compared>>

repo == <<work, head>>
run == <<job, cache, stamp, stim, measured, result>>
record == <<recorder, sha, status>>

(* Bound: nothing else happens while a file or a comparison is looked at:  *)
(* no step depends on what is in them.                                     *)
Unread == status = Nothing /\ compared = Nothing

Running == \E p \in Runners : job[p] # "idle"

ProvenanceInit ==
    /\ work \in Versions /\ head = work
    /\ job = [p \in Runners |-> "idle"]
    /\ cache = Nothing
    /\ stamp = [p \in Runners |-> Nothing]
    /\ stim = Nothing
    /\ measured = [p \in Runners |-> Nothing]
    /\ result = [p \in Runners |-> Nothing]
    /\ recorder = "idle" /\ sha = Nothing
    /\ status = Nothing
    /\ compared = Nothing

-----------------------------------------------------------------------------
(* The developer, also while xut runs                                      *)

Shaken(st) == IF st = Nothing THEN Nothing ELSE [st EXCEPT !.still = FALSE]

MoveTree(w, h) ==
    /\ Unread
    /\ work' = w /\ head' = h
    /\ stamp' = [p \in Runners |-> Shaken(stamp[p])] /\ cache' = Shaken(cache)
    /\ UNCHANGED <<job, stim, measured, result, record, compared>>

Edit(v) == work # v /\ MoveTree(v, head)

Commit == head # work /\ MoveTree(work, work)

Checkout(v) == work = head /\ head # v /\ MoveTree(v, v)

-----------------------------------------------------------------------------
(* xut run, its jobs in parallel                                           *)

(* An invocation on some of the runners, with a fresh RunContext.          *)
StartRun ==
    /\ Unread
    /\ ~ Running
    /\ \E S \in (SUBSET Runners) \ {{}} :
          job' = [p \in Runners |-> IF p \in S THEN "queued" ELSE "idle"]
    /\ cache' = Nothing
    /\ UNCHANGED <<repo, stamp, stim, measured, result, record, compared>>

Move(p, from, to) ==
    /\ Unread
    /\ job[p] = from
    /\ job' = [job EXCEPT ![p] = to]

(* The runner's directory is removed, its result.json and, for python, the *)
(* stimuli with it.  python runs before the others start.                  *)
Reset(p) ==
    /\ p # Python => job[Python] = "idle"
    /\ Move(p, "queued", "reset")
    /\ result' = [result EXCEPT ![p] = Nothing]
    /\ stim' = IF p = Python THEN Nothing ELSE stim
    /\ UNCHANGED <<repo, cache, stamp, measured, record, compared>>

(* case_state finds the primitive's state in the cache ...                 *)
StampCached(p) ==
    /\ cache # Nothing
    /\ Move(p, "reset", "stamped")
    /\ stamp' = [stamp EXCEPT ![p] = cache]
    /\ UNCHANGED <<repo, cache, stim, measured, result, record, compared>>

(* ... or asks git: HEAD first,                                            *)
ReadHead(p) ==
    /\ cache = Nothing
    /\ Move(p, "reset", "head read")
    /\ stamp' = [stamp EXCEPT ![p] = [tree |-> head, dirty |-> FALSE, still |-> TRUE]]
    /\ UNCHANGED <<repo, cache, stim, measured, result, record, compared>>

(* then its status; two jobs may do this at once, and the last one's       *)
(* answer stays in the cache.                                              *)
ReadStatus(p) ==
    /\ Move(p, "head read", "stamped")
    /\ stamp' = [stamp EXCEPT ![p].dirty = (work # head)]
    /\ cache' = stamp'[p]
    /\ UNCHANGED <<repo, stim, measured, result, record, compared>>

(* python reads the test and the model, and writes stimuli unless it fails. *)
GenerateStimuli ==
    /\ Move(Python, "stamped", "measured")
    /\ LET st == stamp[Python] IN
          /\ measured' = [measured EXCEPT ![Python] = [of |-> {work}, sure |-> st.still]]
          /\ stim' \in {[of |-> work, tree |-> st.tree, sure |-> st.still /\ ~ st.dirty], Nothing}
    /\ UNCHANGED <<repo, cache, stamp, result, record, compared>>

(* A simulator is given the stimuli that are there, or reports an error.   *)
Simulate(p) ==
    /\ p # Python
    /\ Move(p, "stamped", "measured")
    /\ measured' = [measured EXCEPT ![p] =
          IF stim = Nothing THEN [of |-> {work}, sure |-> stamp[p].still]
          ELSE [of |-> {work, stim.of},
                sure |-> stamp[p].still /\ stim.sure /\ stim.tree = stamp[p].tree]]
    /\ UNCHANGED <<repo, cache, stamp, stim, result, record, compared>>

WriteResult(p) ==
    /\ Move(p, "measured", "idle")
    /\ result' = [result EXCEPT ![p] =
                    [tree |-> stamp[p].tree, dirty |-> stamp[p].dirty,
                     of |-> measured[p].of, sure |-> measured[p].sure]]
    /\ stamp' = [stamp EXCEPT ![p] = Nothing] /\ measured' = [measured EXCEPT ![p] = Nothing]
    /\ UNCHANGED <<repo, cache, stim, record, compared>>

(* The invocation is interrupted or killed.                                *)
Abort ==
    /\ Unread
    /\ Running
    /\ job' = [p \in Runners |-> "idle"]
    /\ stamp' = [p \in Runners |-> Nothing] /\ measured' = [p \in Runners |-> Nothing]
    /\ cache' = Nothing
    /\ UNCHANGED <<repo, stim, result, record, compared>>

-----------------------------------------------------------------------------
(* xut status record and xut crosscheck                                    *)

Found == {p \in Runners : result[p] # Nothing}

Measured == UNION {result[p].of : p \in Found}
Sure == \A p \in Found : result[p].sure

RecordHead ==
    /\ Unread
    /\ recorder = "idle"
    /\ recorder' = "head read"
    /\ sha' = head
    /\ UNCHANGED <<repo, run, status, compared>>

(* DirtyTreeError, or on.                                                  *)
RecordStatus ==
    /\ Unread
    /\ recorder = "head read"
    /\ IF work = head THEN recorder' = "hashed" /\ UNCHANGED sha
       ELSE recorder' = "idle" /\ sha' = Nothing
    /\ UNCHANGED <<repo, run, status, compared>>

(* Mutant: only the hash is compared.                                      *)
Fresh_HashOnly(p) == result[p].tree = sha

Fresh(p) == result[p].tree = sha /\ ~ result[p].dirty

(* RecordError when there is nothing, StaleResultError when one result is  *)
(* stale, else the status file.                                            *)
RecordResults ==
    /\ Unread
    /\ recorder = "hashed"
    /\ recorder' = "idle" /\ sha' = Nothing
    /\ status' = IF Found # {} /\ \A p \in Found : Fresh(p)
                   THEN [tree |-> sha, of |-> Measured, sure |-> Sure]
                   ELSE status
    /\ UNCHANGED <<repo, run, compared>>

(* Mutant: a dirty result is compared.                                     *)
OneTree_DirtyToo ==
    \E v \in Versions : \A p \in Found : result[p].tree = v

(* _provenance_issues: all at one tree, and a clean one.                   *)
OneTree ==
    /\ \A p \in Found : ~ result[p].dirty
    /\ \E v \in Versions : \A p \in Found : result[p].tree = v

Crosscheck ==
    /\ Unread
    /\ Found # {}
    /\ OneTree
    /\ compared' = [of |-> Measured, sure |-> Sure]
    /\ UNCHANGED <<repo, run, record>>

Read ==
    /\ ~ Unread
    /\ status' = Nothing /\ compared' = Nothing
    /\ UNCHANGED <<repo, run, recorder, sha>>

-----------------------------------------------------------------------------
ProvenanceNext ==
    \/ \E v \in Versions : Edit(v) \/ Checkout(v)
    \/ Commit
    \/ StartRun \/ Abort
    \/ \E p \in Runners :
          Reset(p) \/ StampCached(p) \/ ReadHead(p) \/ ReadStatus(p) \/ Simulate(p) \/ WriteResult(p)
    \/ GenerateStimuli
    \/ RecordHead \/ RecordStatus \/ RecordResults
    \/ Crosscheck \/ Read

ProvenanceSpec == ProvenanceInit /\ [][ProvenanceNext]_provenanceVars

-----------------------------------------------------------------------------
TypeOK ==
    /\ work \in Versions /\ head \in Versions
    /\ job \in [Runners -> {"idle", "queued", "reset", "head read", "stamped", "measured"}]
    /\ cache \in Stamps \cup {Nothing}
    /\ stamp \in [Runners -> Stamps \cup {Nothing}]
    /\ stim \in [of : Versions, tree : Versions, sure : BOOLEAN] \cup {Nothing}
    /\ measured \in [Runners -> [of : SUBSET Versions, sure : BOOLEAN] \cup {Nothing}]
    /\ result \in [Runners ->
          [tree : Versions, dirty : BOOLEAN, of : SUBSET Versions, sure : BOOLEAN] \cup {Nothing}]
    /\ recorder \in {"idle", "head read", "hashed"}
    /\ sha \in Versions \cup {Nothing}
    /\ status \in [tree : Versions, of : SUBSET Versions, sure : BOOLEAN] \cup {Nothing}
    /\ compared \in [of : SUBSET Versions, sure : BOOLEAN] \cup {Nothing}

(* "xut status record refuses a result whose tree_hash is not the current  *)
(* one or that was measured on a dirty tree": whatever was edited or       *)
(* committed at any time, re-run in part, interrupted or left behind, the  *)
(* results in the status file were all measured on the tree whose hash is  *)
(* in it, unless under one of them the tree moved between HEAD's reading   *)
(* and the measurement, or a simulator was given another tree's stimuli:   *)
(* that no check of the code sees.                                         *)
EvidenceIsOfTheTree == status # Nothing /\ status.sure => status.of = {status.tree}

(* "One tree per comparison": results are compared only when they were     *)
(* measured on the same sources, with the same exceptions.                 *)
OneTreePerComparison == compared # Nothing /\ compared.sure => \E v \in Versions : compared.of = {v}

(* A result that is stamped clean is a measurement of its stamp's tree,    *)
(* with the same exceptions, also while others are being redone.           *)
CleanStampIsTrue ==
    \A p \in Found : ~ result[p].dirty /\ result[p].sure => result[p].of = {result[p].tree}
=============================================================================
