------------------------------ MODULE RLWorker ------------------------------
(***************************************************************************)
(* RL episodes inside the engines of one host (core/crates/engine/src/     *)
(* modes/rl.rs, shim included): persistent workers stepped over a pipe,    *)
(* warm workers booted ahead of demand in the background, and the episode  *)
(* volumes under /var/lib/sandbox/episodes that outlive an engine.         *)
(*                                                                         *)
(* An engine runs one command at a time; the boot of a warm worker runs    *)
(* beside it.  A warm worker has a provisional volume, which a claim       *)
(* renames onto the episode's directory: a bind mount follows the rename.  *)
(* A worker whose engine died reads EOF only when it reads again: what it  *)
(* is doing it finishes, its checkpoint included.                          *)
(*                                                                         *)
(* Abstractions: an environment's state is the number of steps since its   *)
(* reset; a tick is the exchange it answers (a bit that alternates); a     *)
(* directory is its manifest and its checkpoint; a worker that is killed   *)
(* is gone at once (module Sandbox shows cgroups and kills).  Answers that *)
(* change nothing (wrong language, unknown episode, an empty batch) are    *)
(* left out.                                                               *)
(***************************************************************************)
EXTENDS Naturals, FiniteSets

CONSTANTS
  Engines,        \* engine processes that may run on the host, numbered in the order they boot
  Episodes,       \* episode ids
  Workers,        \* numbers of worker processes and of their .warm-<pid>-<n> volumes
  WarmDepth,      \* WARM_DEPTH
  Shapes,         \* what shape_fingerprint tells apart of the settings
  Shape,          \* the shape of each episode's settings
  SnapshotEvery,  \* ROCKBOX_EPISODE_SNAPSHOT_EVERY
  Batch,          \* actions of a steps_batch
  MaxSteps,       \* bound on the steps of an episode
  None,
  Lost,           \* an episode without a worker
  Gone,           \* an unlinked directory
  Torn,           \* a checkpoint file cut short
  Hello,          \* the empty frame of a warm worker that listens
  FaultKinds,     \* "crash", "die", "rename", "save", "launch", "manifest", "frame"
  MaxFaults,      \* bound on faults
  MaxCmds         \* bound on commands

ASSUME NumbersAssumption ==
  WarmDepth \in Nat /\ SnapshotEvery \in Nat \ {0} /\ Engines \subseteq Nat /\ Workers \subseteq Nat

ASSUME BoundsAssumption == {Batch, MaxSteps, MaxFaults, MaxCmds} \subseteq Nat

ASSUME ShapeAssumption == Shape \in [Episodes -> Shapes]

(* The names are told apart. *)
ASSUME NamesAssumption ==
  /\ Episodes \cap Workers = {} /\ None \notin Engines /\ None # Torn
  /\ {None, Lost, Gone} \cap (Episodes \cup Workers) = {} /\ Lost # None /\ Gone # None
  /\ {None, Torn} \cap 0..MaxSteps = {} /\ {None, Hello} \cap 0..1 = {} /\ Hello # None
  /\ None \notin [manifest : BOOLEAN, ckpt : {None, Torn} \cup 0..MaxSteps]

VARIABLES
  up,     \* engines that run
  done,   \* engines that died
  swept,  \* engines whose sweep_stale_warm_dirs has run
  cmd,    \* the command an engine runs, and how far it is
  entry,  \* EngineState.episodes: None, Lost, or the worker
  slot,   \* EngineState.warm_workers: state and worker
  sched,  \* templates of the prespawn tasks that have not started
  proc,   \* the worker processes
  vol,    \* the volumes by name: None, or manifest and checkpoint
  last,   \* the checkpoint an episode's worker wrote last
  cut,    \* episodes whose checkpoint a fault has cut off
  faults, cmds

rlVars == <<up, done, swept, cmd, entry, slot, sched, proc, vol, last, cut, faults, cmds>>
engines == <<up, done, swept>>
disk == <<vol, last, cut>>

Slots == 1..WarmDepth
Idle == [pc |-> "idle", op |-> None, e |-> None, w |-> None, resume |-> FALSE, i |-> 0, tag |-> 0]
NoProc == [st |-> "free", own |-> None, tmpl |-> None, mnt |-> None, resume |-> FALSE,
           n |-> 0, cnt |-> 0, op |-> None, tag |-> 0, left |-> 0, rep |-> None]
EmptySlot == [st |-> "empty", w |-> None]
NewDir == [manifest |-> FALSE, ckpt |-> None]

RLInit ==
  /\ up = {} /\ done = {} /\ swept = {}
  /\ cmd = [g \in Engines |-> Idle]
  /\ entry = [g \in Engines |-> [e \in Episodes |-> None]]
  /\ slot = [g \in Engines |-> [i \in Slots |-> EmptySlot]]
  /\ sched = [g \in Engines |-> {}]
  /\ proc = [w \in Workers |-> NoProc]
  /\ vol = [v \in Episodes \cup Workers |-> None]
  /\ last = [e \in Episodes |-> None]
  /\ cut = {} /\ faults = 0 /\ cmds = 0

Fault(kind) == kind \in FaultKinds /\ faults < MaxFaults /\ faults' = faults + 1 /\ UNCHANGED cmds
NoFault == UNCHANGED <<faults, cmds>>
NextCmd == cmds < MaxCmds /\ cmds' = cmds + 1 /\ UNCHANGED faults

Live(w) == proc[w].st \notin {"free", "dead"}
Unused(w) == proc[w].st = "free" /\ vol[w] = None
Fresh(w) == Unused(w) /\ \A v \in Workers : Unused(v) => w <= v
Goto(g, pc) == cmd' = [cmd EXCEPT ![g].pc = pc]
Answer(g) == cmd' = [cmd EXCEPT ![g] = Idle]

(* Worker::drop: cgroup.kill, waitid, remove. *)
Without(p, ws) == [w \in Workers |-> IF w \in ws THEN NoProc ELSE p[w]]

(* A name is unlinked, or taken by another directory: who has the old one mounted keeps it. *)
Unlinked(p, v) == [w \in Workers |-> IF p[w].mnt = v THEN [p[w] EXCEPT !.mnt = Gone] ELSE p[w]]

(* A checkpoint is being written, or may be before the worker reads again. *)
Writes(w) == proc[w].st = "dump" \/ (proc[w].st = "run" /\ proc[w].op # "reset")

(* Killing these workers cuts a dump short. *)
CutBy(ws) == {proc[w].mnt : w \in {v \in ws : proc[v].st = "dump"}} \cap Episodes

-----------------------------------------------------------------------------
(* Warm workers: schedule_prespawn *)

Boot(g) ==
  /\ g \notin up \cup done /\ \A h \in Engines : h < g => h \in up \cup done
  /\ up' = up \cup {g}
  /\ UNCHANGED <<done, swept, cmd, entry, slot, sched, proc, disk>> /\ NoFault

(* Command::RlPrespawn, which pool pre-warm sends. *)
RlPrespawn(g, t) ==
  /\ g \in up /\ cmd[g].pc = "idle"
  /\ sched' = [sched EXCEPT ![g] = @ \cup {t}]
  /\ UNCHANGED <<engines, cmd, entry, slot, proc, disk>> /\ NextCmd

(* Mutant: the sweep does not look whether the engine that made the volume still runs. *)
StaleAny(g) == {w \in Workers : vol[w] # None /\ proc[w].own # g}

(* sweep_stale_warm_dirs: the volumes whose engine no longer runs. *)
Stale(g) == {w \in Workers : vol[w] # None /\ proc[w].own \notin up}

(* The task takes the lock of an empty slot that nobody waits for, sweeps once per engine, *)
(* makes the volume and launches; the slot stays locked until the hello frame. *)
PrespawnBoot(g) == \E t \in sched[g], i \in Slots, w \in Workers :
  LET stale == IF g \in swept THEN {} ELSE Stale(g)
      wiped == [p \in Workers |->
                  IF proc[p].st # "free" /\ proc[p].mnt \in stale THEN [proc[p] EXCEPT !.mnt = Gone]
                  ELSE IF p \in stale /\ proc[p].st = "free" THEN NoProc ELSE proc[p]]
  IN
  /\ g \in up /\ slot[g][i].st = "empty"
  /\ ~ (cmd[g].pc = "scan" /\ cmd[g].i = i)
  /\ \A j \in Slots : slot[g][j].st = "empty" => i <= j
  /\ Fresh(w)
  /\ swept' = swept \cup {g}
  /\ vol' = [v \in Episodes \cup Workers |-> IF v = w THEN NewDir ELSE IF v \in stale THEN None ELSE vol[v]]
  /\ proc' = [wiped EXCEPT ![w] = [NoProc EXCEPT !.st = "boot", !.own = g, !.tmpl = t, !.mnt = w]]
  /\ slot' = [slot EXCEPT ![g][i] = [st |-> "boot", w |-> w]]
  /\ sched' = [sched EXCEPT ![g] = @ \ {t}]
  /\ UNCHANGED <<up, done, cmd, entry, last, cut>> /\ NoFault

PrespawnFull(g) ==
  /\ g \in up /\ sched[g] # {}
  /\ \A i \in Slots : slot[g][i].st # "empty"
  /\ sched' = [sched EXCEPT ![g] = {}]
  /\ UNCHANGED <<engines, cmd, entry, slot, proc, disk>> /\ NoFault

(* The slot is published when the hello frame has been read. *)
PrespawnReady(g, i) == LET w == slot[g][i].w IN
  /\ g \in up /\ slot[g][i].st = "boot"
  /\ Live(w) /\ proc[w].rep = Hello
  /\ proc' = [proc EXCEPT ![w].rep = None]
  /\ slot' = [slot EXCEPT ![g][i].st = "ready"]
  /\ sched' = [sched EXCEPT ![g] = @ \cup {proc[w].tmpl}]
  /\ UNCHANGED <<engines, cmd, entry, disk>> /\ NoFault

(* The boot fails or outlasts its deadline: the volume is removed and nothing rescheduled. *)
PrespawnFails(g, i) == LET w == slot[g][i].w IN
  /\ g \in up /\ slot[g][i].st = "boot" /\ proc[w].rep # Hello
  /\ proc' = Without(proc, {w}) /\ vol' = [vol EXCEPT ![w] = None]
  /\ slot' = [slot EXCEPT ![g][i] = EmptySlot]
  /\ UNCHANGED <<engines, cmd, entry, sched, last, cut>> /\ NoFault

-----------------------------------------------------------------------------
(* start and claim_warm *)

(* The orchestrator starts no episode that a live engine serves (module Episodes). *)
Served(e) == \E h \in up : entry[h][e] \in Workers \/ cmd[h].e = e

(* Mutant: an episode that was started before begins clean too. *)
ResumeModeNever(d) == FALSE

(* The manifest decides between a resume and a fresh start. *)
ResumeMode(d) == d.manifest

(* start: make the directory, look for the manifest, clean a stale checkpoint.  Nothing is left *)
(* of an earlier cut when the episode begins anew, unless an orphan may still write to it.      *)
Start(g, e) == LET dir == IF vol[e] = None THEN NewDir ELSE vol[e]
                   fresh == ~ ResumeMode(dir) IN
  /\ g \in up /\ cmd[g].pc = "idle" /\ ~ Served(e)
  /\ vol' = [vol EXCEPT ![e] = IF fresh THEN [dir EXCEPT !.ckpt = None] ELSE dir]
  /\ last' = [last EXCEPT ![e] = IF ~ dir.manifest THEN None ELSE @]
  /\ cut' = IF dir.manifest \/ \E w \in Workers : proc[w].mnt = e /\ Writes(w) THEN cut ELSE cut \ {e}
  /\ cmd' = [cmd EXCEPT ![g] = [Idle EXCEPT !.pc = "claim", !.op = "start", !.e = e,
                                            !.resume = ~ fresh]]
  /\ UNCHANGED <<engines, entry, slot, sched, proc>> /\ NextCmd

Fits(w, e) == proc[w].tmpl = Shape[e]

(* A worker out of slot i: of another shape it is dropped with its volume. *)
TakeSlot(g, i) == LET w == slot[g][i].w IN
  /\ slot' = [slot EXCEPT ![g][i] = EmptySlot]
  /\ IF Fits(w, cmd[g].e)
       THEN cmd' = [cmd EXCEPT ![g].pc = "adopt", ![g].w = w] /\ UNCHANGED <<proc, vol>>
       ELSE Goto(g, "manifest") /\ proc' = Without(proc, {w}) /\ vol' = [vol EXCEPT ![w] = None]
  /\ UNCHANGED <<engines, entry, sched, last, cut>> /\ NoFault

(* First the slots that are ready. *)
ClaimReady(g) ==
  /\ g \in up /\ cmd[g].pc = "claim"
  /\ \E i \in Slots :
       /\ slot[g][i].st = "ready" /\ \A j \in 1..(i-1) : slot[g][j].st # "ready"
       /\ TakeSlot(g, i)

(* Then each slot in turn: a boot in flight is waited for, an empty slot is passed. *)
WaitFrom(g, i) ==
  \/ /\ \A j \in i..WarmDepth : slot[g][j].st # "boot"
     /\ cmd' = [cmd EXCEPT ![g].pc = "manifest", ![g].i = 0]
  \/ \E j \in i..WarmDepth :
       /\ slot[g][j].st = "boot" /\ \A k \in i..(j-1) : slot[g][k].st # "boot"
       /\ cmd' = [cmd EXCEPT ![g].pc = "scan", ![g].i = j]

ClaimScan(g) == LET i == cmd[g].i IN
  /\ g \in up
  /\ \/ /\ cmd[g].pc = "claim" /\ \A j \in Slots : slot[g][j].st # "ready"
        /\ WaitFrom(g, 1)
        /\ UNCHANGED <<engines, entry, slot, sched, proc, disk>> /\ NoFault
     \/ /\ cmd[g].pc = "scan" /\ slot[g][i].st = "ready"
        /\ TakeSlot(g, i)
     \/ /\ cmd[g].pc = "scan" /\ slot[g][i].st = "empty"
        /\ WaitFrom(g, i + 1)
        /\ UNCHANGED <<engines, entry, slot, sched, proc, disk>> /\ NoFault

(* adopt_episode_dir moves what is durable, one entry after the other, in any order. *)
AdoptMove(g) == LET e == cmd[g].e  w == cmd[g].w IN
  /\ g \in up /\ cmd[g].pc = "adopt"
  /\ \/ vol[e].manifest /\ vol' = [vol EXCEPT ![w].manifest = TRUE, ![e].manifest = FALSE]
     \/ vol[e].ckpt # None /\ vol' = [vol EXCEPT ![w].ckpt = vol[e].ckpt, ![e].ckpt = None]
  /\ UNCHANGED <<engines, cmd, entry, slot, sched, proc, last, cut>> /\ NoFault

(* The empty directory is replaced by the worker's volume, and a replacement scheduled. *)
AdoptRename(g) == LET e == cmd[g].e  w == cmd[g].w IN
  /\ g \in up /\ cmd[g].pc = "adopt" /\ vol[e] = NewDir
  /\ vol' = [vol EXCEPT ![e] = vol[w], ![w] = None]
  /\ proc' = [Unlinked(proc, e) EXCEPT ![w].mnt = e]
  /\ sched' = [sched EXCEPT ![g] = @ \cup {Shape[e]}]
  /\ Goto(g, "load")
  /\ UNCHANGED <<engines, entry, slot, last, cut>> /\ NoFault

(* A rename fails: the warm volume is removed with whatever has been moved into it. *)
AdoptFails(g) == LET e == cmd[g].e  w == cmd[g].w IN
  /\ g \in up /\ cmd[g].pc = "adopt" /\ Fault("rename")
  /\ vol' = [vol EXCEPT ![w] = None, ![e] = IF @ = NewDir THEN None ELSE @]
  /\ proc' = Without(IF vol[e] = NewDir THEN Unlinked(proc, e) ELSE proc, {w})
  /\ cut' = cut \cup {e}
  /\ cmd' = [cmd EXCEPT ![g].pc = "manifest", ![g].w = None]
  /\ UNCHANGED <<engines, entry, slot, sched, last>>

(* worker_exchange_batch sends several actions in one frame, and reads one frame of ticks. *)
Actions(op) == IF op = "batch" THEN Batch ELSE 1

(* worker_exchange_hdr: a request goes out, the engine reads until the deadline. *)
Sent(p, op) == [p EXCEPT !.st = IF @ = "dead" THEN @ ELSE "run", !.op = op, !.tag = 1 - @,
                         !.left = Actions(op)]

(* The load frame names the module and the per-episode environment; then the reset handshake. *)
Load(g) == LET w == cmd[g].w IN
  /\ g \in up /\ cmd[g].pc = "load"
  /\ IF proc[w].st = "dead"
       THEN /\ proc' = Without(proc, {w})
            /\ cmd' = [cmd EXCEPT ![g].pc = "manifest", ![g].w = None]
       ELSE /\ proc' = [proc EXCEPT ![w] = Sent([proc[w] EXCEPT !.resume = cmd[g].resume], "reset")]
            /\ cmd' = [cmd EXCEPT ![g].pc = "read", ![g].op = "claim", ![g].tag = 1]
  /\ UNCHANGED <<engines, entry, slot, sched, disk>> /\ NoFault

(* write_manifest is best effort; a claimed worker is ready by then, a cold one not yet spawned. *)
WriteManifest(g) == LET e == cmd[g].e IN
  /\ g \in up /\ cmd[g].pc = "manifest"
  /\ \/ vol[e] # None /\ vol' = [vol EXCEPT ![e].manifest = TRUE] /\ NoFault
     \/ vol[e] = None /\ UNCHANGED vol /\ NoFault
     \/ Fault("manifest") /\ UNCHANGED vol
  /\ Goto(g, IF cmd[g].w = None THEN "spawn" ELSE "insert")
  /\ UNCHANGED <<engines, entry, slot, sched, proc, last, cut>>

(* spawn_worker: the cold path.  Without the directory to mount the child dies in its setup. *)
Spawn(g) == LET e == cmd[g].e IN
  /\ g \in up /\ cmd[g].pc = "spawn"
  /\ \/ \E w \in Workers :
          /\ Fresh(w)
          /\ LET p == [NoProc EXCEPT !.st = IF vol[e] = None THEN "dead" ELSE "idle", !.own = g,
                                     !.tmpl = Shape[e], !.mnt = e, !.resume = cmd[g].resume]
             IN proc' = [proc EXCEPT ![w] = Sent(p, "reset")]
          /\ cmd' = [cmd EXCEPT ![g].pc = "read", ![g].w = w, ![g].tag = 1]
          /\ NoFault
     \/ Fault("launch") /\ Answer(g) /\ UNCHANGED proc
  /\ UNCHANGED <<engines, entry, slot, sched, disk>>

(* The entry is inserted, a worker of an entry it replaces dropped, the start answered. *)
Insert(g) == LET e == cmd[g].e  old == {entry[g][e]} \cap Workers IN
  /\ g \in up /\ cmd[g].pc = "insert"
  /\ entry' = [entry EXCEPT ![g][e] = cmd[g].w]
  /\ proc' = Without(proc, old) /\ cut' = cut \cup CutBy(old)
  /\ Answer(g)
  /\ UNCHANGED <<engines, slot, sched, vol, last>> /\ NoFault

-----------------------------------------------------------------------------
(* step, steps_batch, snapshot, close *)

(* The worker is taken out of the entry for the exchange; an empty action is a reset. *)
Exchange(g, e, op) == LET w == entry[g][e] IN
  /\ g \in up /\ cmd[g].pc = "idle" /\ w \in Workers
  /\ entry' = [entry EXCEPT ![g][e] = Lost]
  /\ cmd' = [cmd EXCEPT ![g] = [Idle EXCEPT !.pc = "read", !.op = op, !.e = e, !.w = w,
                                            !.tag = 1 - proc[w].tag]]
  /\ proc' = [proc EXCEPT ![w] = Sent(proc[w], op)]
  /\ UNCHANGED <<engines, slot, sched, disk>> /\ NextCmd

Step(g, e) == Exchange(g, e, "step") \/ Exchange(g, e, "reset")
StepsBatch(g, e) == Exchange(g, e, "batch")
Snapshot(g, e) == Exchange(g, e, "snapshot")

(* read_frame_poll: a frame is there. *)
Framed(w) == Live(w) /\ proc[w].rep # None

(* PipeFail: the deadline, which is always armed, or a closed pipe. *)
PipeFails(w) == ~ Framed(w) /\ NoFault

(* parse_tick_frame: the environment shares the pipe with the shim, so a frame may not parse. *)
BadFrame(w) == Framed(w) /\ Fault("frame")

(* What the entry holds after the exchange. *)
PutBack(g, w) == entry' = [entry EXCEPT ![g][cmd[g].e] = w]

(* A tick (an error tick too) puts the worker back, or lets the start go on. *)
ReadTick(g) == LET w == cmd[g].w IN
  /\ g \in up /\ cmd[g].pc = "read" /\ Framed(w)
  /\ proc' = [proc EXCEPT ![w].rep = None]
  /\ CASE cmd[g].op = "claim" -> Goto(g, "manifest") /\ UNCHANGED entry
       [] cmd[g].op = "start" -> Goto(g, "insert") /\ UNCHANGED entry
       [] OTHER -> Answer(g) /\ PutBack(g, w)
  /\ UNCHANGED <<engines, slot, sched, disk>> /\ NoFault

(* Mutant: the worker of a step that timed out goes back to its episode. *)
AfterFailureKept(g) == cmd[g].w

(* drop(worker), kill_locked: what the entry holds after a failed exchange. *)
AfterFailure(g) == Lost

(* Timeout or Dead. *)
ReadFails(g) == LET w == cmd[g].w  dropped == {w} \ {AfterFailure(g)} IN
  /\ g \in up /\ cmd[g].pc = "read" /\ (PipeFails(w) \/ BadFrame(w))
  /\ proc' = Without(proc, dropped) /\ cut' = cut \cup CutBy(dropped)
  /\ IF cmd[g].op = "claim" THEN cmd' = [cmd EXCEPT ![g].pc = "manifest", ![g].op = "start", ![g].w = None]
     ELSE Answer(g)
  /\ IF cmd[g].op \in {"claim", "start"} THEN UNCHANGED entry ELSE PutBack(g, AfterFailure(g))
  /\ UNCHANGED <<engines, slot, sched, vol, last>>

(* close: the entry goes, its settings are the template of the next warm worker. *)
Close(g, e) == LET old == {entry[g][e]} \cap Workers IN
  /\ g \in up /\ cmd[g].pc = "idle" /\ entry[g][e] # None
  /\ entry' = [entry EXCEPT ![g][e] = None]
  /\ proc' = Without(proc, old) /\ cut' = cut \cup CutBy(old)
  /\ sched' = [sched EXCEPT ![g] = @ \cup {Shape[e]}]
  /\ UNCHANGED <<engines, cmd, slot, vol, last>> /\ NextCmd

-----------------------------------------------------------------------------
(* The worker's shim *)

(* respond: without a reader it is the end of the worker. *)
Responded(p) == IF p.own \in up THEN [p EXCEPT !.st = "idle", !.op = None, !.left = 0, !.rep = p.tag]
                   ELSE NoProc

(* One action of the request is over. *)
Over(p) == IF p.left > 1 THEN [p EXCEPT !.st = "run", !.left = @ - 1] ELSE Responded(p)

WorkerHello(w) ==
  /\ proc[w].st = "boot" /\ proc[w].own \in up
  /\ proc' = [proc EXCEPT ![w].st = "warm", ![w].rep = Hello]
  /\ UNCHANGED <<engines, cmd, entry, slot, sched, disk>> /\ NoFault

(* Mutant: a checkpoint that cannot be loaded is taken for a state. *)
RestoredTorn(p, d) == IF p.resume /\ d # None /\ d.ckpt # None THEN d.ckpt ELSE 0

(* An empty action: a resumed worker loads the checkpoint; one it cannot load means a reset. *)
Restored(p, d) == IF p.resume /\ d # None /\ d.ckpt \notin {None, Torn} THEN d.ckpt ELSE 0

Volume(p) == IF p.mnt = Gone THEN None ELSE vol[p.mnt]

WorkerReset(w) == LET p == proc[w] IN
  /\ p.st = "run" /\ p.op = "reset"
  /\ proc' = [proc EXCEPT ![w] = Responded([p EXCEPT !.n = Restored(p, Volume(p))])]
  /\ UNCHANGED <<engines, cmd, entry, slot, sched, disk>> /\ NoFault

(* save_state opens the checkpoint in place, which truncates it, and then dumps. *)
OpenState(w, p) == IF p.mnt = Gone THEN proc' = [proc EXCEPT ![w] = Over(p)] /\ UNCHANGED vol
                   ELSE /\ proc' = [proc EXCEPT ![w] = [p EXCEPT !.st = "dump"]]
                        /\ vol' = [vol EXCEPT ![p.mnt].ckpt = Torn]

(* do_step, and the checkpoint policy: every SnapshotEvery steps and at a terminal step. *)
WorkerSteps(w) == LET p == [proc[w] EXCEPT !.n = @ + 1, !.cnt = (@ + 1) % SnapshotEvery] IN
  /\ proc[w].st = "run" /\ proc[w].op \in {"step", "batch"} /\ p.n <= MaxSteps
  /\ \/ OpenState(w, p)
     \/ p.cnt # 0 /\ proc' = [proc EXCEPT ![w] = Over(p)] /\ UNCHANGED vol
  /\ UNCHANGED <<engines, cmd, entry, slot, sched, last, cut>> /\ NoFault

(* The environment raises: an error tick, no checkpoint. *)
WorkerRaises(w) ==
  /\ proc[w].st = "run" /\ proc[w].op \in {"step", "batch"}
  /\ proc' = [proc EXCEPT ![w] = Over(proc[w])]
  /\ UNCHANGED <<engines, cmd, entry, slot, sched, disk>> /\ NoFault

WorkerSnapshot(w) ==
  /\ proc[w].st = "run" /\ proc[w].op = "snapshot"
  /\ OpenState(w, proc[w])
  /\ UNCHANGED <<engines, cmd, entry, slot, sched, last, cut>> /\ NoFault

(* pickle.dump ends, or save() raises and leaves the truncated file behind. *)
WorkerDumps(w) == LET p == proc[w]  e == p.mnt IN
  /\ p.st = "dump"
  /\ \/ e # Gone /\ vol' = [vol EXCEPT ![e].ckpt = p.n] /\ last' = [last EXCEPT ![e] = p.n]
          /\ UNCHANGED cut /\ NoFault
     \/ e = Gone /\ UNCHANGED disk /\ NoFault
     \/ e # Gone /\ Fault("save") /\ cut' = cut \cup {e} /\ UNCHANGED <<vol, last>>
  /\ proc' = [proc EXCEPT ![w] = Over(p)]
  /\ UNCHANGED <<engines, cmd, entry, slot, sched>>

(* A worker that reads finds EOF when its engine is gone. *)
WorkerEof(w) ==
  /\ proc[w].st \in {"boot", "warm", "idle"} /\ proc[w].own \notin up
  /\ proc' = [proc EXCEPT ![w] = IF vol[w] = None THEN NoProc
                                 ELSE [NoProc EXCEPT !.own = proc[w].own]]
  /\ UNCHANGED <<engines, cmd, entry, slot, sched, disk>> /\ NoFault

-----------------------------------------------------------------------------
(* Faults *)

(* A worker is killed by its memory limit, or exits; one that dies in an exchange is one that *)
(* never answers. *)
WorkerDies(w) ==
  /\ proc[w].st \in {"warm", "idle"} /\ proc[w].own \in up /\ Fault("die")
  /\ proc' = [proc EXCEPT ![w].st = "dead", ![w].rep = None]
  /\ UNCHANGED <<engines, cmd, entry, slot, sched, disk>>

(* An engine is SIGKILLed: nothing is dropped, its workers are orphans. *)
Crash(g) ==
  /\ g \in up /\ Fault("crash")
  /\ up' = up \ {g} /\ done' = done \cup {g}
  /\ cmd' = [cmd EXCEPT ![g] = Idle]
  /\ entry' = [entry EXCEPT ![g] = [e \in Episodes |-> None]]
  /\ slot' = [slot EXCEPT ![g] = [i \in Slots |-> EmptySlot]]
  /\ sched' = [sched EXCEPT ![g] = {}]
  /\ proc' = [w \in Workers |-> IF proc[w].own = g /\ ~ Live(w) THEN [NoProc EXCEPT !.own = IF vol[w] = None THEN None ELSE g]
                                ELSE proc[w]]
  /\ cut' = cut \cup ({proc[w].mnt : w \in {v \in Workers : proc[v].own = g /\ Writes(v)}} \cap Episodes)
                \cup (IF cmd[g].pc = "adopt" THEN {cmd[g].e} ELSE {})
  /\ UNCHANGED <<swept, vol, last>>

-----------------------------------------------------------------------------
Command(g) ==
  \/ \E t \in Shapes : RlPrespawn(g, t)
  \/ \E e \in Episodes :
       Start(g, e) \/ Step(g, e) \/ StepsBatch(g, e) \/ Snapshot(g, e) \/ Close(g, e)

Handler(g) ==
  \/ ClaimReady(g) \/ ClaimScan(g)
  \/ AdoptMove(g) \/ AdoptRename(g) \/ AdoptFails(g) \/ Load(g)
  \/ WriteManifest(g) \/ Spawn(g) \/ Insert(g)
  \/ ReadTick(g) \/ ReadFails(g)

Prespawn(g) ==
  \/ PrespawnBoot(g) \/ PrespawnFull(g)
  \/ \E i \in Slots : PrespawnReady(g, i) \/ PrespawnFails(g, i)

Worker(w) ==
  \/ WorkerHello(w) \/ WorkerReset(w) \/ WorkerSteps(w) \/ WorkerRaises(w)
  \/ WorkerSnapshot(w) \/ WorkerDumps(w) \/ WorkerEof(w) \/ WorkerDies(w)

RLNext ==
  \/ \E g \in Engines : Boot(g) \/ Command(g) \/ Handler(g) \/ Prespawn(g) \/ Crash(g)
  \/ \E w \in Workers : Worker(w)

RLSpec == RLInit /\ [][RLNext]_rlVars

-----------------------------------------------------------------------------
(* Properties *)

(* Every variable has its type: an exchange is with a worker of the engine's own, a slot holds *)
(* a worker unless it is empty, and no worker counts a checkpoint cut short as its state.      *)
RLTypeOK ==
  /\ up \cap done = {} /\ up \cup done \subseteq Engines /\ swept \subseteq up \cup done
  /\ \A g \in Engines :
       /\ cmd[g].pc \in {"idle", "claim", "scan", "adopt", "load", "manifest", "spawn", "insert", "read"}
       /\ cmd[g].pc \in {"adopt", "load", "insert", "read"} => proc[cmd[g].w].own = g
       /\ entry[g] \in [Episodes -> {None, Lost} \cup Workers]
       /\ \A i \in Slots : (slot[g][i].st = "empty") = (slot[g][i].w = None)
       /\ sched[g] \subseteq Shapes
  /\ \A v \in Episodes \cup Workers :
       vol[v] = None \/ vol[v] \in [manifest : BOOLEAN, ckpt : {None, Torn} \cup 0..MaxSteps]
  /\ \A w \in Workers :
       /\ proc[w].st \in {"free", "boot", "warm", "idle", "run", "dump", "dead"}
       /\ proc[w].mnt \in {None, Gone} \cup Episodes \cup Workers
       /\ proc[w].rep \in {None, Hello, 0, 1} /\ proc[w].n \in 0..MaxSteps
  /\ last \in [Episodes -> {None} \cup 0..MaxSteps] /\ cut \subseteq Episodes /\ faults \in 0..MaxFaults /\ cmds \in 0..MaxCmds

(* The tick an engine reads in an exchange answers that exchange: neither the hello frame of a *)
(* warm worker nor the late tick of a request that timed out is ever taken for it (step,       *)
(* reset_handshake and schedule_prespawn in rl.rs).                                            *)
TickIsOwn == \A g \in up :
  cmd[g].pc = "read" => proc[cmd[g].w].rep \in {None, cmd[g].tag}

(* Whatever engines boot, sweep, claim and crash beside each other, a warm worker's volume is  *)
(* there under its own name until it is claimed, and a worker that serves an episode has that   *)
(* episode's directory mounted and the episode's sandbox shape (claim_warm, adopt_episode_dir, *)
(* sweep_stale_warm_dirs).                                                                     *)
WorkerIsOwn == \A g \in up :
  /\ \A i \in Slots : slot[g][i].st = "ready" =>
       /\ vol[slot[g][i].w] = NewDir /\ proc[slot[g][i].w].mnt = slot[g][i].w
  /\ \A e \in Episodes : entry[g][e] \in Workers /\ cmd[g].e # e =>
       /\ proc[entry[g][e]].mnt = e /\ proc[entry[g][e]].tmpl = Shape[e]

(* An episode started again, on any engine of the host and by a warm or a cold worker, goes on *)
(* from the checkpoint it wrote last; only a fault while the checkpoint was being written or    *)
(* moved may cost it (start, claim_warm, save_state and the restore of the shim).              *)
ResumeContinues == \A g \in up : LET e == cmd[g].e IN
  cmd[g].pc = "insert" /\ e \notin cut /\ last[e] # None => proc[cmd[g].w].n = last[e]
=============================================================================
