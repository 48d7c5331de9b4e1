--------------------------- MODULE SessionCells ----------------------------
(***************************************************************************)
(* Session mode (core/crates/engine/src/modes/session.rs) on top of the    *)
(* sandbox: every Exec is a cell of one session.  A cell is a fresh child  *)
(* that reads the namespace from /session, runs the cell, writes the       *)
(* namespace back in place and leaves a result file, which the engine      *)
(* reads when the child is gone.  The volume is shared by all the cells,   *)
(* a child that outlived its request included.                             *)
(*                                                                         *)
(* Abstraction: a namespace is the set of cells whose effects it holds.    *)
(***************************************************************************)
EXTENDS Sandbox

CONSTANT None

VARIABLES
  cell,       \* how far the shim of a cell is
  ns,         \* the namespace a cell loaded
  stateFile,  \* /session/state.pkl or state.json: readable or torn, and its namespace
  result,     \* the result file: the cell that wrote it, and its status
  answer,     \* the CellResult the engine sent
  spoilt      \* a save was cut short or failed

cellVars == <<cell, ns, stateFile, result, answer, spoilt>>
sessionVars == <<sandboxVars, cellVars>>

NoResult == [by |-> None, status |-> "none"]

SessionInit ==
  /\ SandboxInit
  /\ cell = [j \in Execs |-> "none"]
  /\ ns = [j \in Execs |-> {}]
  /\ stateFile = [ok |-> TRUE, cells |-> {}]
  /\ result = NoResult
  /\ answer = [j \in Execs |-> NoResult]
  /\ spoilt = FALSE

(* Mutant: the last result stays. *)
BeginCellKeeps(j) ==
  /\ \A i \in Execs : pc[i] # "idle" => answer[i] # NoResult
  /\ UNCHANGED cellVars

(* run_cell up to the launch: the last result is wiped. *)
BeginCell(j) ==
  /\ \A i \in Execs : pc[i] # "idle" => answer[i] # NoResult
  /\ result' = NoResult
  /\ UNCHANGED <<cell, ns, stateFile, answer, spoilt>>

RunCell(j) == (TakePooled(j) \/ CreateCgroup(j)) /\ BeginCell(j)

(* The shim: load, exec, save, report. *)
Shim(j, from) == child[j].st = "code" /\ cell[j] = from

CellLoads(j) ==
  /\ Shim(j, "none")
  /\ ns' = [ns EXCEPT ![j] = IF stateFile.ok THEN stateFile.cells ELSE {}]
  /\ cell' = [cell EXCEPT ![j] = "loaded"]
  /\ UNCHANGED <<stateFile, result, answer, spoilt, sandboxVars>>

(* open(STATE_PATH, "wb"): the old namespace is gone before the new one is there. *)
CellOpensState(j) ==
  /\ Shim(j, "loaded")
  /\ stateFile' = [ok |-> FALSE, cells |-> {}]
  /\ cell' = [cell EXCEPT ![j] = "saving"]
  /\ UNCHANGED <<ns, result, answer, spoilt, sandboxVars>>

(* Mutant: only the names of this cell are saved. *)
SavedOwn(j) == {j}

(* to_save: the restored names and the new ones. *)
Saved(j) == ns[j] \cup {j}

(* pickle.dump; an error is printed and the cell stays "ok". *)
CellDumps(j) ==
  /\ Shim(j, "saving")
  /\ \/ /\ stateFile' = [ok |-> TRUE, cells |-> Saved(j)]
        /\ NoFault /\ UNCHANGED spoilt
     \/ spoilt' = TRUE /\ Fault("dump") /\ UNCHANGED stateFile
  /\ cell' = [cell EXCEPT ![j] = "saved"]
  /\ UNCHANGED <<ns, result, answer, cgroup_seq, cg, pool, pc, mine, child, outlived>>

(* The result file: "ok" after a save, "error" when the cell raised. *)
CellReports(j) ==
  /\ \/ Shim(j, "saved") /\ result' = [by |-> j, status |-> "ok"]
     \/ Shim(j, "loaded") /\ result' = [by |-> j, status |-> "error"]
  /\ cell' = [cell EXCEPT ![j] = "reported"]
  /\ UNCHANGED <<ns, stateFile, answer, spoilt, sandboxVars>>

(* The process is gone and takes its namespace along; a save in progress is torn. *)
Vanish(j) ==
  /\ cell' = [cell EXCEPT ![j] = "none"]
  /\ ns' = [ns EXCEPT ![j] = {}]
  /\ spoilt' = (spoilt \/ cell[j] = "saving")
  /\ UNCHANGED <<stateFile, result, answer>>

(* After its report, or by os._exit or a signal at any time; or a SIGKILL lands. *)
CellEnds(j) == CodeEnds(j) /\ Vanish(j)
CellKilled(j) == KillLands(j) /\ Vanish(j)

(* After release_cgroup: read the result file, answer, remove it. *)
ReadResult(j) ==
  /\ pc[j] = "done" /\ answer[j] = NoResult
  /\ answer' = [answer EXCEPT ![j] = IF result = NoResult THEN [by |-> j, status |-> "missing"]
                                     ELSE result]
  /\ result' = NoResult
  /\ UNCHANGED <<cell, ns, stateFile, spoilt, sandboxVars>>

(* run_exec_pipeline returned Err. *)
AnswerError(j) ==
  /\ pc[j] = "failed" /\ answer[j] = NoResult
  /\ answer' = [answer EXCEPT ![j] = [by |-> j, status |-> "pipeline"]]
  /\ UNCHANGED <<cell, ns, stateFile, result, spoilt, sandboxVars>>

-----------------------------------------------------------------------------
Engine(j) ==
  \/ PrepareFails(j) \/ CloneChild(j) \/ RestoreNetnsFails(j) \/ ReleaseChild(j) \/ AddPid(j)
  \/ DrainFails(j) \/ DrainExit(j) \/ DrainCap(j) \/ DrainTimeout(j) \/ ReleaseCgroup(j)

SessionNext ==
  \/ \E j \in Execs : (Engine(j) \/ ChildWakes(j) \/ ChildSetup(j)) /\ UNCHANGED cellVars
  \/ \E j \in Workers :
       /\ BootWorker(j) \/ DropWorker(j) \/ ReapWorker(j) \/ CodeEnds(j) \/ KillLands(j)
       /\ UNCHANGED cellVars
  \/ \E j \in Execs :
       \/ RunCell(j) \/ CellLoads(j) \/ CellOpensState(j) \/ CellDumps(j)
       \/ CellReports(j) \/ CellEnds(j) \/ CellKilled(j) \/ ReadResult(j) \/ AnswerError(j)

SessionSpec == SessionInit /\ [][SessionNext]_sessionVars

(* The engine's thread goes on, a timer that is armed fires, a SIGKILL lands. *)
(* Nothing is assumed of the child: user code and its setup may hang.         *)
SessionFairness ==
  /\ \A j \in Jobs :
       /\ WF_sessionVars((PrepareFails(j) \/ CloneChild(j) \/ RestoreNetnsFails(j)
                           \/ ReleaseChild(j) \/ AddPid(j) \/ ReleaseCgroup(j))
                          /\ UNCHANGED cellVars)
       /\ WF_sessionVars(DrainTimeout(j) /\ UNCHANGED cellVars)
       /\ WF_sessionVars(ReapWorker(j) /\ UNCHANGED cellVars)
       /\ WF_sessionVars(j \in Workers /\ KillLands(j) /\ UNCHANGED cellVars)
  /\ \A j \in Execs : WF_sessionVars(CellKilled(j)) /\ WF_sessionVars(ReadResult(j) \/ AnswerError(j))

FairSessionSpec == SessionSpec /\ SessionFairness

-----------------------------------------------------------------------------
(* Properties *)

(* Every variable of the session and of the sandbox has its type. *)
SessionTypeOK ==
  /\ SandboxTypeOK
  /\ cell \in [Execs -> {"none", "loaded", "saving", "saved", "reported"}]
  /\ ns \in [Execs -> SUBSET Execs]
  /\ stateFile \in [ok : BOOLEAN, cells : SUBSET Execs]
  /\ result.by \in Execs \cup {None}
  /\ \A j \in Execs : answer[j].status \in {"none", "ok", "error", "missing", "pipeline"}

(* A cell is answered with its own result file.  It can only get the one of     *)
(* another cell whose child outlived its own request and writes to the volume   *)
(* they share (run_cell: "so stale data can't leak between cells").             *)
CellResultIsOwn ==
  \A j \in Execs : answer[j] # NoResult => answer[j].by = j \/ answer[j].by \in outlived

(* The session accumulates: what a cell that was answered "ok" did is in the    *)
(* saved namespace, or will be when the cell that now saves is through, as long *)
(* as no save was cut short or failed and no child outlived its request.        *)
SessionAccumulates ==
  LET saving == {j \in Execs : cell[j] = "saving"}
  IN ~spoilt /\ outlived = {} =>
       \A j \in Execs : answer[j] = [by |-> j, status |-> "ok"] =>
         j \in stateFile.cells \cup UNION {Saved(i) : i \in saving}

(* Every cell with a wall clock is answered, whatever its child does: a child   *)
(* stuck before execve, a lost drain or a host that fails; and dropping a       *)
(* worker that is in its cgroup returns (Drainer::run, Worker::drop).           *)
CellAnswered ==
  /\ \A j \in Execs \ ZeroWall : pc[j] # "idle" ~> answer[j] # NoResult
  /\ \A j \in Workers : pc[j] = "drop" /\ child[j].in # NoCg ~> pc[j] = "done"
=============================================================================
