------------------------------- MODULE Zygote -------------------------------
(***************************************************************************)
(* The Python exec zygote (core/crates/engine/src/modes/zygote.rs): a      *)
(* booted interpreter that forks once per request, so that a request does  *)
(* not pay for execve.                                                     *)
(*                                                                         *)
(* The engine's thread, which holds the zygote slot for a whole request,   *)
(* and the zygote talk in frames over a socket pair.  The zygote forks a   *)
(* middle process that waits until the engine has moved it into the        *)
(* request's cgroup, then forks the grandchild that confines itself and    *)
(* runs the program.  The zygote is PID 1 of its namespace: its end is the *)
(* end of all its forks.  After any protocol error the engine drops the    *)
(* zygote and runs the request again on the execve path.                   *)
(*                                                                         *)
(* Abstractions: a frame is its type and the request it is about; output   *)
(* is below or above the cap; a SIGKILLed task is dead at once; the execve *)
(* path is one step (module Sandbox shows it).                             *)
(***************************************************************************)
EXTENDS Confinement, FiniteSets

CONSTANTS
  Requests,    \* requests, one at a time
  Shape,       \* shape_of: the runtime, memory and CPU of each request
  None,        \* no request, no zygote
  FaultKinds,  \* "boot", "zygote_dies", "add_pid", "oom_middle", "layer"
  MaxFaults    \* bound on faults

ASSUME NoneAssumption == None \notin Requests
ASSUME ShapeAssumption == \A r \in Requests : Shape[r] # None

VARIABLES
  pc,         \* how far the engine's thread is with each request
  slot,       \* ZYGOTE: None, or the shape of the zygote it holds
  zygote,     \* the zygote process: state, and the request it forked for
  toZygote,   \* frames on their way to the zygote
  toEngine,   \* frames on their way to the engine
  middle,     \* the middle process of a request: state and cgroup
  grand,      \* the grandchild of a request: state and cgroup
  stdio,      \* the grandchild's output pipes are open
  loop,       \* serve's locals: status frame, killed_for_timeout, killed_for_output
  runs,       \* how often user code was started for a request
  outcome,    \* where the answer came from: the request of the status frame, or "execve"
  faults

zygoteVars == <<pc, slot, zygote, toZygote, toEngine, middle, grand, stdio, loop, runs, outcome, faults>>
socket == <<toZygote, toEngine>>
forks == <<middle, grand, stdio>>

Frame(type, r) == [type |-> type, req |-> r]
NoFork == [st |-> "none", in |-> None]
DeadFork == [st |-> "dead", in |-> None]
NoZygote == [st |-> "none", req |-> None]
Loop0 == [status |-> None, timeout |-> FALSE, output |-> FALSE]
Running(p) == p.st \notin {"none", "dead"}

ZygoteInit ==
  /\ pc = [r \in Requests |-> "idle"]
  /\ slot = None /\ zygote = NoZygote
  /\ toZygote = <<>> /\ toEngine = <<>>
  /\ middle = [r \in Requests |-> NoFork]
  /\ grand = [r \in Requests |-> NoFork]
  /\ stdio = [r \in Requests |-> FALSE]
  /\ loop = Loop0
  /\ runs = [r \in Requests |-> 0]
  /\ outcome = [r \in Requests |-> None]
  /\ faults = 0

Fault(kind) == kind \in FaultKinds /\ faults < MaxFaults /\ faults' = faults + 1
NoFault == UNCHANGED faults

Go(r, next) == pc' = [pc EXCEPT ![r] = next]
Busy == {r \in Requests : pc[r] \notin {"idle", "done"}}

(* PID 1 of the namespace is gone, and every fork with it. *)
AllForksDie ==
  /\ zygote' = NoZygote /\ toZygote' = <<>>
  /\ middle' = [r \in Requests |-> IF Running(middle[r]) THEN DeadFork ELSE middle[r]]
  /\ grand' = [r \in Requests |-> IF Running(grand[r]) THEN DeadFork ELSE grand[r]]
  /\ stdio' = [r \in Requests |-> FALSE]

(* kill_all on the cgroup of request r. *)
KillCgroup(r) ==
  /\ middle' = [q \in Requests |-> IF middle[q].in = r THEN DeadFork ELSE middle[q]]
  /\ grand' = [q \in Requests |-> IF grand[q].in = r THEN DeadFork ELSE grand[q]]
  /\ stdio' = [q \in Requests |-> stdio[q] /\ grand[q].in # r]

-----------------------------------------------------------------------------
(* The engine: ensure_zygote, serve, run *)

(* ensure_zygote drops a zygote of another shape. *)
DropMismatch(r) ==
  /\ pc[r] = "idle" /\ Busy = {} /\ slot \notin {None, Shape[r]}
  /\ slot' = None /\ AllForksDie /\ toEngine' = <<>>
  /\ NoFault /\ UNCHANGED <<pc, loop, runs, outcome>>

(* Mutant: the slot is not held for the whole request. *)
ReuseUnlocked(r) ==
  /\ pc[r] = "idle" /\ slot = Shape[r]
  /\ Go(r, "send") /\ loop' = Loop0
  /\ NoFault /\ UNCHANGED <<slot, zygote, socket, forks, runs, outcome>>

Reuse(r) ==
  /\ pc[r] = "idle" /\ Busy = {} /\ slot = Shape[r]
  /\ Go(r, "send") /\ loop' = Loop0
  /\ NoFault /\ UNCHANGED <<slot, zygote, socket, forks, runs, outcome>>

(* Launch and hello within 20 s; otherwise what was launched is dropped. *)
Boot(r) ==
  /\ pc[r] = "idle" /\ Busy = {} /\ slot = None
  /\ \/ /\ slot' = Shape[r] /\ zygote' = [st |-> "idle", req |-> None]
        /\ Go(r, "send") /\ NoFault
     \/ Fault("boot") /\ Go(r, "execve") /\ UNCHANGED <<slot, zygote>>
  /\ loop' = Loop0
  /\ UNCHANGED <<socket, forks, runs, outcome>>

(* serve: the request's frame and pipes.  sendmsg to a dead zygote fails. *)
SendRequest(r) ==
  /\ pc[r] = "send"
  /\ IF zygote.st = "none"
       THEN Go(r, "error") /\ UNCHANGED toZygote
       ELSE Go(r, "forked") /\ toZygote' = Append(toZygote, Frame("request", r))
  /\ NoFault /\ UNCHANGED <<slot, zygote, toEngine, forks, loop, runs, outcome>>

(* The first frame must be "forked"; anything else, a closed socket or 5 s *)
(* without a frame is an error.                                            *)
RecvForked(r) ==
  /\ pc[r] = "forked"
  /\ IF toEngine = <<>>
       THEN Go(r, "error") /\ UNCHANGED toEngine
       ELSE /\ Go(r, IF Head(toEngine).type = "forked" THEN "place" ELSE "error")
            /\ toEngine' = Tail(toEngine)
  /\ NoFault /\ UNCHANGED <<slot, zygote, toZygote, forks, loop, runs, outcome>>

(* newest_child: the zygote's last live child. *)
Newest == IF zygote.req # None /\ Running(middle[zygote.req]) THEN zygote.req ELSE None

(* Mutant: "go" is sent without moving the fork. *)
PlaceAfterGo(r) ==
  /\ pc[r] = "place"
  /\ toZygote' = Append(toZygote, Frame("go", r)) /\ Go(r, "loop")
  /\ NoFault /\ UNCHANGED <<slot, zygote, toEngine, forks, loop, runs, outcome>>

(* add_pid moves the middle process, then "go" releases it. *)
PlaceAndGo(r) ==
  /\ pc[r] = "place"
  /\ \/ /\ Newest # None
        /\ middle' = [middle EXCEPT ![Newest].in = r]
        /\ toZygote' = Append(toZygote, Frame("go", r))
        /\ Go(r, "loop") /\ NoFault
     \/ /\ IF Newest = None THEN NoFault ELSE Fault("add_pid")
        /\ Go(r, "error") /\ UNCHANGED <<middle, toZygote>>
  /\ UNCHANGED <<slot, zygote, toEngine, grand, stdio, loop, runs, outcome>>

(* The poll loop: the deadline and the output cap kill the cgroup once each. *)
Deadline(r) ==
  /\ pc[r] = "loop" /\ ~loop.timeout
  /\ loop' = [loop EXCEPT !.timeout = TRUE] /\ KillCgroup(r)
  /\ NoFault /\ UNCHANGED <<pc, slot, zygote, socket, runs, outcome>>

OverCap(r) ==
  /\ pc[r] = "loop" /\ ~loop.output /\ stdio[r] /\ grand[r].st = "code"
  /\ loop' = [loop EXCEPT !.output = TRUE] /\ KillCgroup(r)
  /\ NoFault /\ UNCHANGED <<pc, slot, zygote, socket, runs, outcome>>

(* A status frame; a frame that is not one does not parse; a dead zygote has *)
(* closed the socket.                                                        *)
RecvStatus(r) ==
  /\ pc[r] = "loop" /\ loop.status = None
  /\ \/ /\ toEngine # <<>>
        /\ loop' = [loop EXCEPT !.status = Head(toEngine).req]
        /\ Go(r, IF Head(toEngine).type = "status" THEN "loop" ELSE "error")
        /\ toEngine' = Tail(toEngine)
     \/ /\ toEngine = <<>> /\ zygote.st = "none"
        /\ Go(r, "error") /\ UNCHANGED <<loop, toEngine>>
  /\ NoFault /\ UNCHANGED <<slot, zygote, toZygote, forks, runs, outcome>>

(* Mutant: no end to the wait for a status after the kill. *)
LoopNeedsStatus(r) == ~stdio[r] /\ loop.status # None

(* Both pipes at their end and the status there, or 2 s of silence after the *)
(* kill for the deadline.                                                    *)
LoopOver(r) == \/ ~stdio[r] /\ loop.status # None
               \/ loop.timeout

(* Mutant: the cgroup goes back to the pool as it is. *)
ReleaseAsIs(r) == UNCHANGED forks

(* wait_empty and release_cgroup: what is left in the cgroup is killed. *)
Release(r) == KillCgroup(r)

Finish(r) ==
  /\ pc[r] = "loop" /\ LoopOver(r)
  /\ Release(r)
  /\ outcome' = [outcome EXCEPT ![r] = IF loop.timeout THEN r ELSE loop.status]
  /\ Go(r, "done")
  /\ NoFault /\ UNCHANGED <<slot, zygote, socket, loop, runs>>

(* Mutant: the zygote is kept after a protocol error. *)
KeepOnError(r) ==
  /\ pc[r] = "error" /\ Go(r, "execve")
  /\ NoFault /\ UNCHANGED <<slot, zygote, socket, forks, loop, runs, outcome>>

(* run: the slot is emptied, which kills and reaps the zygote. *)
DropOnError(r) ==
  /\ pc[r] = "error" /\ Go(r, "execve")
  /\ slot' = None /\ AllForksDie /\ toEngine' = <<>>
  /\ NoFault /\ UNCHANGED <<loop, runs, outcome>>

(* exec::run: the same request, from the start. *)
FallbackExecve(r) ==
  /\ pc[r] = "execve"
  /\ runs' = [runs EXCEPT ![r] = @ + 1]
  /\ outcome' = [outcome EXCEPT ![r] = "execve"]
  /\ Go(r, "done")
  /\ NoFault /\ UNCHANGED <<slot, zygote, socket, forks, loop>>

-----------------------------------------------------------------------------
(* The zygote and its forks *)

(* recvmsg, fork, "forked". *)
ZygoteForks ==
  /\ zygote.st = "idle" /\ toZygote # <<>>
  /\ LET r == Head(toZygote).req IN
       /\ zygote' = [st |-> "forked", req |-> r]
       /\ middle' = [middle EXCEPT ![r] = [st |-> "blocked", in |-> None]]
       /\ stdio' = [stdio EXCEPT ![r] = TRUE]
       /\ toEngine' = Append(toEngine, Frame("forked", r))
  /\ toZygote' = Tail(toZygote)
  /\ NoFault /\ UNCHANGED <<pc, slot, grand, loop, runs, outcome>>

(* sock.recv(16): any frame is taken for "go". *)
ZygoteGoes ==
  /\ zygote.st = "forked" /\ toZygote # <<>>
  /\ toZygote' = Tail(toZygote)
  /\ zygote' = [zygote EXCEPT !.st = "waiting"]
  /\ middle' = [middle EXCEPT ![zygote.req].st = IF @ = "blocked" THEN "go" ELSE @]
  /\ NoFault /\ UNCHANGED <<pc, slot, toEngine, grand, stdio, loop, runs, outcome>>

(* waitpid on the middle process, then the status frame. *)
ZygoteReports ==
  /\ zygote.st = "waiting" /\ ~Running(middle[zygote.req])
  /\ toEngine' = Append(toEngine, Frame("status", zygote.req))
  /\ zygote' = [st |-> "idle", req |-> None]
  /\ NoFault /\ UNCHANGED <<pc, slot, toZygote, forks, loop, runs, outcome>>

(* middle: fork the grandchild, in the cgroup it is in by now. *)
MiddleForks(r) ==
  /\ middle[r].st = "go"
  /\ middle' = [middle EXCEPT ![r].st = "waiting"]
  /\ grand' = [grand EXCEPT ![r] = [st |-> "setup", in |-> middle[r].in]]
  /\ NoFault /\ UNCHANGED <<pc, slot, zygote, socket, stdio, loop, runs, outcome>>

Stuck == \E n \in 0..(Len(ForkLayers) - 1) : Blocked(ForkLayers, n, ProfileOf["python"], TRUE)

(* child: the layers, then runpy; a failing layer ends it with 126. *)
GrandSetup(r) ==
  /\ grand[r].st = "setup"
  /\ \/ /\ ~Stuck /\ NoFault
        /\ grand' = [grand EXCEPT ![r].st = "code"]
        /\ runs' = [runs EXCEPT ![r] = @ + 1] /\ UNCHANGED stdio
     \/ /\ IF Stuck THEN NoFault ELSE Fault("layer")
        /\ grand' = [grand EXCEPT ![r] = DeadFork]
        /\ stdio' = [stdio EXCEPT ![r] = FALSE] /\ UNCHANGED runs
  /\ UNCHANGED <<pc, slot, zygote, socket, middle, loop, outcome>>

(* User code closes its output, or ends. *)
GrandCloses(r) ==
  /\ grand[r].st = "code" /\ stdio[r]
  /\ stdio' = [stdio EXCEPT ![r] = FALSE]
  /\ NoFault /\ UNCHANGED <<pc, slot, zygote, socket, middle, grand, loop, runs, outcome>>

GrandEnds(r) ==
  /\ grand[r].st = "code"
  /\ grand' = [grand EXCEPT ![r] = DeadFork]
  /\ stdio' = [stdio EXCEPT ![r] = FALSE]
  /\ NoFault /\ UNCHANGED <<pc, slot, zygote, socket, middle, loop, runs, outcome>>

(* middle: waitpid on the grandchild, then exit with its status. *)
MiddleEnds(r) ==
  /\ middle[r].st = "waiting" /\ ~Running(grand[r])
  /\ middle' = [middle EXCEPT ![r] = DeadFork]
  /\ NoFault /\ UNCHANGED <<pc, slot, zygote, socket, grand, stdio, loop, runs, outcome>>

(* The OOM killer takes the middle process; the grandchild runs on. *)
MiddleOom(r) ==
  /\ middle[r].st = "waiting" /\ Fault("oom_middle")
  /\ middle' = [middle EXCEPT ![r] = DeadFork]
  /\ UNCHANGED <<pc, slot, zygote, socket, grand, stdio, loop, runs, outcome>>

(* The zygote dies by itself; the slot still names it, and what it sent can be read. *)
ZygoteDies ==
  /\ zygote.st # "none" /\ Fault("zygote_dies")
  /\ AllForksDie
  /\ UNCHANGED <<pc, slot, toEngine, loop, runs, outcome>>

-----------------------------------------------------------------------------
EngineSteps(r) ==
  \/ DropMismatch(r) \/ Reuse(r) \/ Boot(r) \/ SendRequest(r) \/ RecvForked(r)
  \/ PlaceAndGo(r) \/ Deadline(r) \/ OverCap(r) \/ RecvStatus(r) \/ Finish(r)
  \/ DropOnError(r) \/ FallbackExecve(r)

ForkSteps(r) ==
  \/ MiddleForks(r) \/ GrandSetup(r) \/ GrandCloses(r) \/ GrandEnds(r) \/ MiddleEnds(r)
  \/ MiddleOom(r)

ZygoteNext ==
  \/ \E r \in Requests : EngineSteps(r) \/ ForkSteps(r)
  \/ ZygoteForks \/ ZygoteGoes \/ ZygoteReports \/ ZygoteDies

ZygoteSpec == ZygoteInit /\ [][ZygoteNext]_zygoteVars

(* The engine's thread goes on and its clock runs; nothing is assumed of the *)
(* zygote, its forks or user code.                                           *)
FairZygoteSpec ==
  ZygoteSpec /\ \A r \in Requests : WF_zygoteVars(pc[r] # "idle" /\ EngineSteps(r))

-----------------------------------------------------------------------------
(* Properties *)

(* Every variable has its type. *)
ZygoteTypeOK ==
  /\ pc \in [Requests -> {"idle", "send", "forked", "place", "loop", "error", "execve", "done"}]
  /\ slot \in {Shape[r] : r \in Requests} \cup {None}
  /\ zygote \in [st : {"none", "idle", "forked", "waiting"}, req : Requests \cup {None}]
  /\ \A i \in DOMAIN toEngine : toEngine[i].type \in {"forked", "status"}
  /\ \A i \in DOMAIN toZygote : toZygote[i].type \in {"request", "go"}
  /\ stdio \in [Requests -> BOOLEAN] /\ runs \in [Requests -> 0..2]
  /\ outcome \in [Requests -> Requests \cup {None, "execve"}]
  /\ Cardinality(Busy) <= 1

(* A request is never answered with the status of another one, although a late *)
(* status frame may still be in the socket when the next request is served, and *)
(* the zygote takes any frame for "go" (serve, python_shim).                    *)
StatusIsOwn == \A r \in Requests : outcome[r] \in {None, "execve", r}

(* The program runs in its own request's cgroup from its first instruction, so  *)
(* that limits and kill reach it ("wait for the engine to place us in the       *)
(* request cgroup before forking"), and its layers do not block each other.     *)
ForkConfined ==
  \A r \in Requests : Running(grand[r]) => grand[r].in = r /\ (grand[r].st = "setup" => ~Stuck)

(* No fork is left running: not when its request is answered, and not when the  *)
(* request is run again on the execve path (serve: "Never leaves the fork       *)
(* running").                                                                   *)
NoForkLeft ==
  \A r \in Requests : pc[r] \in {"execve", "done"} => ~Running(middle[r]) /\ ~Running(grand[r])

(* Every request is answered, whatever the zygote and user code do: hello, the  *)
(* "forked" frame and the run each have a deadline, and an error falls back to  *)
(* execve (recv_frame, serve, run).                                             *)
RequestAnswered == \A r \in Requests : pc[r] # "idle" ~> pc[r] = "done"
=============================================================================
