------------------------------ MODULE Sandbox ------------------------------
(***************************************************************************)
(* The kernel crate of the engine: the cgroup pool, SandboxLauncher::launch,*)
(* the child it clones and the Drainer that waits for it                    *)
(* (core/crates/kernel/src/linux/{launcher,cgroup,drain,...}.rs), as        *)
(* modes/exec.rs, modes/session.rs (Execs) and modes/rl.rs (Workers) use it. *)
(*                                                                         *)
(* A job is one launch.  The command loop of the engine runs one Exec at a *)
(* time; workers are booted by a background thread and live until they are *)
(* dropped.  A child is cloned into the job's cgroup or, on hosts that     *)
(* refuse it, moved there afterwards, waits for its id maps, confines      *)
(* itself layer by layer and runs user code.  cgroup.kill reaches only the *)
(* tasks inside the cgroup and takes effect some time later.               *)
(*                                                                         *)
(* Abstractions: the limits written to a cgroup are named by the job they  *)
(* belong to; output is only "below" or "above" the cap; the child is one  *)
(* task, since PID 1 takes its pid namespace with it.                      *)
(***************************************************************************)
EXTENDS Confinement, FiniteSets, SequencesExt

CONSTANTS
  Execs,       \* launches of exec requests or session cells, one at a time
  Workers,     \* launches of RL workers
  Language,    \* the language of each job, a field of ProfileOf
  ZeroWall,    \* the Execs whose wall_ms is 0
  MaxPooled,   \* MAX_POOLED_CGROUPS
  NestedHost,  \* the host may refuse CLONE_INTO_CGROUP
  NoCg,        \* no cgroup
  FaultKinds,  \* the failures that may happen
  MaxFaults    \* bound on failures

Jobs == Execs \cup Workers
Cgroups == 0..(Cardinality(Jobs) - 1)   \* a job creates at most one

ASSUME KindsAssumption == Execs \cap Workers = {} /\ ZeroWall \subseteq Execs
ASSUME LanguageAssumption == Language \in [Jobs -> DOMAIN ProfileOf]
ASSUME PooledAssumption == MaxPooled \in Nat \ {0} /\ NoCg \notin Cgroups
ASSUME BoundsAssumption == IsFiniteSet(Jobs) /\ MaxFaults \in Nat

VARIABLES
  cgroup_seq,  \* the number of cgroups created so far
  cg,          \* each cgroup: where it is, whether cgroup.kill was written, its limits
  pool,        \* the launcher's `cgroups`
  pc,          \* how far the job's thread is
  mine,        \* the cgroup a job took
  child,       \* the cloned process of a job
  outlived,    \* jobs that ended while their child still ran
  faults

sandboxVars == <<cgroup_seq, cg, pool, pc, mine, child, outlived, faults>>

Order(j) == LauncherLayers(FALSE)
Profile(j) == ProfileOf[Language[j]]

NoChild == [st |-> "none", in |-> NoCg, sync |-> "wait", maps |-> FALSE]
Dead(st) == [NoChild EXCEPT !.st = st]      \* "zombie", or "gone" when reaped
Unused(at) == [at |-> at, killed |-> FALSE, limits |-> NoCg]
Alive(j) == child[j].st \in {"sync", "setup", "code"}
Populated(c) == \E j \in Jobs : child[j].in = c /\ (Alive(j) \/ child[j].st = "dying")
Ended == {"done", "failed"}

SandboxInit ==
  /\ cgroup_seq = 0
  /\ cg = [c \in Cgroups |-> Unused("none")]
  /\ pool = <<>>
  /\ pc = [j \in Jobs |-> "idle"]
  /\ mine = [j \in Jobs |-> NoCg]
  /\ child = [j \in Jobs |-> NoChild]
  /\ outlived = {} /\ faults = 0

Fault(kind) == kind \in FaultKinds /\ faults < MaxFaults /\ faults' = faults + 1
NoFault == UNCHANGED faults

(* Mutant: a child still in its setup is not reached. *)
KillExecuted(c) ==
  [j \in Jobs |-> IF child[j].in = c /\ child[j].st = "code"
                    THEN [child[j] EXCEPT !.st = "dying"] ELSE child[j]]

(* SIGKILL to every task of the cgroup, by Cgroup::kill_all. *)
KillAll(c) ==
  [j \in Jobs |-> IF child[j].in = c /\ Alive(j)
                    THEN [child[j] EXCEPT !.st = "dying"] ELSE child[j]]

(* The command loop starts the next command when the last one has ended. *)
MayStart(j) == j \in Execs /\ \A i \in Execs \ {j} : pc[i] \in {"idle"} \cup Ended

-----------------------------------------------------------------------------
(* launch, parent side *)

(* take_cgroup: the pool's last cgroup with this job's limits; when configure *)
(* fails it is removed and, like an empty pool, replaced by a new one.       *)
(* Mutant: only a new cgroup gets its limits. *)
ConfiguredOnce(c, j) ==
  [cg[c] EXCEPT !.at = "used", !.limits = IF @ = NoCg THEN j ELSE @]

Configured(c, j) == [cg[c] EXCEPT !.at = "used", !.limits = j]

TakePooled(j) ==
  /\ pc[j] = "idle" /\ MayStart(j) /\ pool # <<>>
  /\ pool' = Front(pool)
  /\ cg' = [cg EXCEPT ![Last(pool)] = Configured(Last(pool), j)]
  /\ mine' = [mine EXCEPT ![j] = Last(pool)]
  /\ pc' = [pc EXCEPT ![j] = "prepare"]
  /\ NoFault /\ UNCHANGED <<cgroup_seq, child, outlived>>

CreateCgroup(j) ==
  LET reusable == pool # <<>>
      c == cgroup_seq
      dropped == IF reusable THEN [cg EXCEPT ![Last(pool)] = Unused("removed")] ELSE cg
  IN /\ pc[j] = "idle" /\ MayStart(j) /\ cgroup_seq \in Cgroups
     /\ IF reusable THEN Fault("configure") ELSE NoFault
     /\ pool' = IF reusable THEN Front(pool) ELSE pool
     /\ cg' = [dropped EXCEPT ![c] = Configured(c, j)]
     /\ cgroup_seq' = cgroup_seq + 1
     /\ mine' = [mine EXCEPT ![j] = c]
     /\ pc' = [pc EXCEPT ![j] = "prepare"]
     /\ UNCHANGED <<child, outlived>>

(* Mutant: the handle is not given up. *)
LaunchErrorHolds(j) ==
  /\ pc' = [pc EXCEPT ![j] = "failed"]
  /\ cg' = [cg EXCEPT ![mine[j]].at = "lost"]
  /\ UNCHANGED mine

(* An early return of launch: the cgroup it took is neither released nor removed. *)
LaunchError(j) ==
  /\ pc' = [pc EXCEPT ![j] = "failed"]
  /\ cg' = [cg EXCEPT ![mine[j]].at = "lost"]
  /\ mine' = [mine EXCEPT ![j] = NoCg]

(* Pipes, filter, mount plan, AppArmor command, netns, clone3: any may fail. *)
PrepareFails(j) ==
  /\ pc[j] = "prepare" /\ Fault("prepare")
  /\ LaunchError(j)
  /\ UNCHANGED <<cgroup_seq, pool, child, outlived>>

Born(j, c) ==
  IF c # NoCg /\ cg[c].killed
    THEN [NoChild EXCEPT !.st = "dying", !.in = c]
    ELSE [NoChild EXCEPT !.st = "sync", !.in = c]

(* clone_into_cgroup: CLONE_INTO_CGROUP, and without it when the host refuses. *)
CloneChild(j) ==
  /\ pc[j] = "prepare"
  /\ \/ child' = [child EXCEPT ![j] = Born(j, mine[j])]
     \/ child' = [child EXCEPT ![j] = Born(j, NoCg)] /\ NestedHost
  /\ NoFault
  /\ pc' = [pc EXCEPT ![j] = "cloned"]
  /\ UNCHANGED <<cgroup_seq, cg, pool, mine, outlived>>

(* with_template could not go back to the host's netns: launch returns Err and *)
(* closes the sync pipe although the child exists.                             *)
RestoreNetnsFails(j) ==
  /\ pc[j] = "cloned" /\ Fault("restore_netns")
  /\ LaunchError(j)
  /\ child' = [child EXCEPT ![j].sync = "eof"]
  /\ UNCHANGED <<cgroup_seq, pool, outlived>>

(* parent_write_id_maps (a failure is only logged), then the sync byte. *)
ReleaseChild(j) ==
  /\ pc[j] = "cloned"
  /\ \/ child' = [child EXCEPT ![j].sync = "go", ![j].maps = TRUE] /\ NoFault
     \/ child' = [child EXCEPT ![j].sync = "go"] /\ Fault("id_maps")
  /\ pc' = [pc EXCEPT ![j] = IF child[j].in = NoCg THEN "place" ELSE "drain"]
  /\ UNCHANGED <<cgroup_seq, cg, pool, mine, outlived>>

(* add_pid, for a child not cloned into its cgroup: best effort. *)
AddPid(j) ==
  /\ pc[j] = "place"
  /\ \/ /\ child' = [child EXCEPT ![j].in = IF Alive(j) THEN mine[j] ELSE @] /\ NoFault
     \/ UNCHANGED child /\ Fault("add_pid")
  /\ pc' = [pc EXCEPT ![j] = "drain"]
  /\ UNCHANGED <<cgroup_seq, cg, pool, mine, outlived>>

(* make_drainer, epoll or read fails: the error leaves cgroup and child behind. *)
DrainFails(j) ==
  /\ pc[j] = "drain" /\ j \in Execs /\ Fault("drain")
  /\ LaunchError(j)
  /\ outlived' = IF Alive(j) THEN outlived \cup {j} ELSE outlived
  /\ UNCHANGED <<cgroup_seq, pool, child>>

-----------------------------------------------------------------------------
(* The child *)

(* child_wait_for_maps: the byte, or the end of the pipe (exit 101). *)
ChildWakes(j) ==
  /\ child[j].st = "sync" /\ child[j].sync # "wait"
  /\ child' = [child EXCEPT ![j] = IF child[j].sync = "go" THEN [@ EXCEPT !.st = "setup"]
                                   ELSE Dead("zombie")]
  /\ NoFault /\ UNCHANGED <<cgroup_seq, cg, pool, pc, mine, outlived>>

(* A layer no child of this job can put on, since an earlier one forbids it. *)
SelfBlocked(j) ==
  \E n \in 0..(Len(Order(j)) - 1) : Blocked(Order(j), n, Profile(j), child[j].maps)

(* run_child: the layers in their order; the last one, execve, starts user code. *)
(* An error is never skipped: the child ends with status 102.  Nobody sees the   *)
(* layers one by one, and a kill may land before the first or after the last.    *)
ChildSetup(j) ==
  /\ child[j].st = "setup"
  /\ \/ /\ ~SelfBlocked(j) /\ NoFault
        /\ child' = [child EXCEPT ![j].st = "code"]
     \/ /\ IF SelfBlocked(j) THEN NoFault ELSE Fault("layer")
        /\ child' = [child EXCEPT ![j] = Dead("zombie")]
  /\ UNCHANGED <<cgroup_seq, cg, pool, pc, mine, outlived>>

(* User code exits or dies of a signal. *)
CodeEnds(j) ==
  /\ child[j].st = "code"
  /\ child' = [child EXCEPT ![j] = Dead("zombie")]
  /\ NoFault /\ UNCHANGED <<cgroup_seq, cg, pool, pc, mine, outlived>>

(* A SIGKILL takes effect. *)
KillLands(j) ==
  /\ child[j].st = "dying"
  /\ child' = [child EXCEPT ![j] = Dead("zombie")]
  /\ NoFault /\ UNCHANGED <<cgroup_seq, cg, pool, pc, mine, outlived>>

-----------------------------------------------------------------------------
(* Drainer::run, release_cgroup, Worker::drop *)

(* pidfd: drain what is left and reap. *)
DrainExit(j) ==
  /\ pc[j] = "drain" /\ j \in Execs /\ child[j].st = "zombie"
  /\ child' = [child EXCEPT ![j] = Dead("gone")]
  /\ pc' = [pc EXCEPT ![j] = "release"]
  /\ NoFault /\ UNCHANGED <<cgroup_seq, cg, pool, mine, outlived>>

Killed(j) == [cg EXCEPT ![mine[j]].killed = TRUE]

(* The chunk that goes over output_cap is dropped and the cgroup killed. *)
DrainCap(j) ==
  /\ pc[j] = "drain" /\ j \in Execs /\ child[j].st \in {"code", "zombie"}
  /\ child' = KillAll(mine[j])
  /\ cg' = Killed(j)
  /\ pc' = [pc EXCEPT ![j] = "release"]
  /\ NoFault /\ UNCHANGED <<cgroup_seq, pool, mine, outlived>>

(* Mutant: the timer covers the run of user code only. *)
TimerAfterExec(j) == j \notin ZeroWall /\ child[j].st = "code"

(* make_timerfd: a wall of 0 leaves the timer disarmed. *)
TimerArmed(j) == j \notin ZeroWall

(* The timer: WNOHANG reaps a child that is already dead; the cgroup is killed. *)
DrainTimeout(j) ==
  /\ pc[j] = "drain" /\ j \in Execs /\ TimerArmed(j)
  /\ child' = [KillAll(mine[j]) EXCEPT ![j] = IF @.st = "zombie" THEN Dead("gone") ELSE @]
  /\ cg' = Killed(j)
  /\ pc' = [pc EXCEPT ![j] = "release"]
  /\ NoFault /\ UNCHANGED <<cgroup_seq, pool, mine, outlived>>

(* Mutant: was_killed is not asked. *)
RecyclableAny(c) == Len(pool) < MaxPooled

(* was_killed, and the pool's limit. *)
Recyclable(c) == ~cg[c].killed /\ Len(pool) < MaxPooled

(* release_cgroup.  A killed cgroup is removed once it is empty, or left behind *)
(* when it does not drain in a second; a populated one is killed and drained    *)
(* first; what is drained goes back to the pool while there is room.            *)
ReleaseCgroup(j) ==
  LET c == mine[j]
      straggler == ~cg[c].killed /\ Populated(c)
      unpooled == IF cg[c].killed /\ Populated(c) THEN Unused("lost") ELSE Unused("removed")
  IN /\ pc[j] = "release"
     /\ cg' = [cg EXCEPT ![c] = IF Recyclable(c)
                                THEN [cg[c] EXCEPT !.at = "pooled", !.killed = @ \/ straggler]
                                ELSE unpooled]
     /\ pool' = IF Recyclable(c) THEN Append(pool, c) ELSE pool
     /\ mine' = [mine EXCEPT ![j] = NoCg]
     /\ pc' = [pc EXCEPT ![j] = "done"]
     /\ child' = [i \in Jobs |-> IF straggler /\ child[i].in = c THEN Dead("zombie") ELSE child[i]]
     /\ outlived' = IF Alive(j) THEN outlived \cup {j} ELSE outlived
     /\ NoFault /\ UNCHANGED cgroup_seq

(* launch for a worker, in one step: the launch of an Exec shows its steps. *)
BootWorker(j) ==
  LET reuse == pool # <<>>
      c == IF reuse THEN Last(pool) ELSE cgroup_seq
  IN /\ pc[j] = "idle" /\ j \in Workers
     /\ pool' = IF reuse THEN Front(pool) ELSE pool
     /\ cgroup_seq' = IF reuse THEN cgroup_seq ELSE cgroup_seq + 1
     /\ cg' = [cg EXCEPT ![c] = Configured(c, j)]
     /\ mine' = [mine EXCEPT ![j] = c]
     /\ \E in \in {c} \cup (IF NestedHost THEN {NoCg} ELSE {}) :
          child' = [child EXCEPT ![j] = [Born(j, in) EXCEPT !.st = IF @ = "dying" THEN @ ELSE "code"]]
     /\ pc' = [pc EXCEPT ![j] = "drain"]
     /\ NoFault /\ UNCHANGED outlived

(* Worker::drop: kill, reap (a blocking waitid), wait until empty, remove. *)
DropWorker(j) ==
  /\ pc[j] = "drain" /\ j \in Workers
  /\ child' = KillAll(mine[j])
  /\ cg' = Killed(j)
  /\ pc' = [pc EXCEPT ![j] = "drop"]
  /\ NoFault /\ UNCHANGED <<cgroup_seq, pool, mine, outlived>>

ReapWorker(j) ==
  /\ pc[j] = "drop" /\ child[j].st = "zombie"
  /\ child' = [child EXCEPT ![j] = Dead("gone")]
  /\ cg' = [cg EXCEPT ![mine[j]] = Unused("removed")]
  /\ mine' = [mine EXCEPT ![j] = NoCg]
  /\ pc' = [pc EXCEPT ![j] = "done"]
  /\ NoFault /\ UNCHANGED <<cgroup_seq, pool, outlived>>

-----------------------------------------------------------------------------
(* Properties *)

(* Every variable has its type, and a job holds a cgroup from take to release. *)
SandboxTypeOK ==
  /\ cgroup_seq \in 0..Cardinality(Jobs)
  /\ cg \in [Cgroups -> [at : {"none", "used", "pooled", "removed", "lost"},
                         killed : BOOLEAN, limits : Jobs \cup {NoCg}]]
  /\ Len(pool) <= MaxPooled /\ ToSet(pool) \subseteq Cgroups
  /\ pc \in [Jobs -> {"idle", "prepare", "cloned", "place", "drain", "release", "drop"} \cup Ended]
  /\ mine \in [Jobs -> Cgroups \cup {NoCg}]
  /\ child \in [Jobs -> [st : {"none", "sync", "setup", "code", "dying", "zombie", "gone"},
                         in : Cgroups \cup {NoCg}, sync : {"wait", "go", "eof"}, maps : BOOLEAN]]
  /\ \A j \in Jobs : mine[j] = NoCg <=> pc[j] \in {"idle"} \cup Ended
  /\ outlived \subseteq Jobs /\ faults \in 0..MaxFaults

(* A cgroup in the pool can be handed to any launch: nobody else holds it, no  *)
(* task is left in it, and cgroup.kill was never written to it, since a child  *)
(* cloned into a killed cgroup dies at birth (release_cgroup, cgroup.rs killed).*)
PooledClean ==
  \A i \in DOMAIN pool :
    /\ cg[pool[i]].at = "pooled" /\ ~cg[pool[i]].killed /\ ~Populated(pool[i])
    /\ \A k \in DOMAIN pool : pool[k] = pool[i] => k = i
    /\ \A j \in Jobs : mine[j] # pool[i]

(* A task in a cgroup runs under the limits of its own job, however often the *)
(* cgroup was recycled and whichever other jobs ran meanwhile (configure).    *)
LimitsInForce ==
  \A j \in Jobs : Alive(j) /\ child[j].in # NoCg => cg[child[j].in].limits = j

(* The layers do not get in each other's way, under any seccomp profile: a child *)
(* whose id maps are written fails its setup only when the host fails a call.    *)
(* And user code starts behind every layer (run_child).                          *)
SetupSound ==
  \A j \in Jobs :
    /\ child[j].st = "setup" /\ child[j].maps =>
         \A profile \in Profiles, n \in 0..(Len(Order(j)) - 1) :
           ~Blocked(Order(j), n, profile, child[j].maps)
    /\ child[j].st = "code" => Required \subseteq Done(Order(j), Len(Order(j)))

(* A child is still running when its request ends only if it never entered the *)
(* cgroup, where cgroup.kill cannot reach it, or if the drain itself failed.    *)
OutlivesOnlyUnplaced ==
  \A j \in outlived : child[j].in = NoCg \/ pc[j] = "failed"
=============================================================================
