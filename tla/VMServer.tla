------------------------------ MODULE VMServer ------------------------------
(***************************************************************************)
(* One VM.Server (lib/rockbox/vm/server.ex), its callers, and the engine   *)
(* at the other end of its Port (core/crates/engine/src/app.rs).           *)
(*                                                                         *)
(* The server parks a blocking caller in `pending` under the request id,   *)
(* writes the command to the Port and goes on; the frame that carries the  *)
(* id answers the caller later.  The engine reads and runs one command at  *)
(* a time.  In between, callers give up, the engine aborts a request or    *)
(* exits, and the server crashes, is stopped or is restarted.              *)
(*                                                                         *)
(* Abstractions: a request id is the call itself (ids are unique while in  *)
(* flight); a frame is its type and its id; broadcasts, webhooks, audit    *)
(* records and the raw output of the data socket are left out.             *)
(***************************************************************************)
EXTENDS Naturals, Sequences

CONSTANTS
  Waits,       \* calls of execute_and_wait
  Steps,       \* calls of rl_step_wait and rl_steps_wait (snapshot and close included)
  Executes,    \* calls of execute, answered :ok at once
  Sends,       \* calls of exec_cell, rl_step and rl_steps, answered :ok at once
  Sessions,    \* the calls of Waits and Executes whose settings say mode=session
  Casts,       \* commands without an answer: "stdin", "interrupt", "rl_prespawn", "shutdown"
  NoCall,      \* no call; the request id "unknown"
  FaultKinds,  \* "timeout", "err", "die", "exit", "stop"
  MaxFaults,   \* bound on faults
  MaxCasts     \* bound on casts

Calls == Waits \cup Steps \cup Executes \cup Sends

ASSUME SessionsAssumption == Sessions \subseteq Waits \cup Executes
ASSUME NoCallAssumption == NoCall \notin Calls
ASSUME CastsAssumption == Casts \subseteq {"stdin", "interrupt", "rl_prespawn", "shutdown"}
(* A call is of one kind, and no command without an answer has a call's id. *)
ASSUME KindsAssumption ==
  /\ Sends \cap (Waits \cup Steps \cup Executes) = {}
  /\ Steps \cap (Waits \cup Executes) = {}
  /\ Calls \cap Casts = {}

VARIABLES
  call,      \* what each caller knows about its call
  answer,    \* the request id of the frame a caller was answered with
  server,    \* "up", "exiting" (before terminate), "restarting", "stopped"
  status,    \* the server's :status
  pending,   \* the keys of the server's :pending map
  inbox,     \* the server's messages
  port,      \* commands written to the Port and not read by the engine
  engine,    \* "booting", "reading", "running", "dead"
  running,   \* the call the engine runs
  failed,    \* calls whose handler returned Err
  faults, casts

callerVars == <<call, answer>>
serverVars == <<server, status, pending>>
engineVars == <<engine, running, failed>>
vmServerVars == <<callerVars, serverVars, inbox, port, engineVars, faults, casts>>

Frame(type, id) == [type |-> type, id |-> id]
FrameTypes ==
  {"call", "cast", "ready", "result", "cell_result", "rl", "engine_died", "exit_status"}
Messages == [type : FrameTypes, id : Calls \cup {NoCall} \cup Casts]

Blocking == Waits \cup Steps       \* parked as {:wait, from}
Tracked == Blocking \cup Executes  \* put into pending

VMServerInit ==
  /\ call = [c \in Calls |-> "new"] /\ answer = [c \in Calls |-> NoCall]
  /\ server = "up" /\ status = "booting" /\ pending = {}
  /\ inbox = << >> /\ port = << >>
  /\ engine = "booting" /\ running = NoCall /\ failed = {}
  /\ faults = 0 /\ casts = 0

Send(m) == inbox' = Append(inbox, m)
Fault(kind) == kind \in FaultKinds /\ faults < MaxFaults /\ faults' = faults + 1

(* GenServer.reply: a caller that gave up does not see it.                 *)
Reply(C, outcome, id) ==
  /\ call' = [c \in Calls |-> IF c \in C /\ call[c] = "sent" THEN outcome ELSE call[c]]
  /\ answer' = [c \in Calls |-> IF c \in C /\ call[c] = "sent" THEN id ELSE answer[c]]
-----------------------------------------------------------------------------
(* The callers: call/3 and cast/2.                                         *)

(* VM.Registry finds the process: GenServer.call.                          *)
Call(c) ==
  /\ call[c] = "new"
  /\ server \in {"up", "exiting"}
  /\ call' = [call EXCEPT ![c] = "sent"]
  /\ Send(Frame("call", c))
  /\ UNCHANGED <<answer, serverVars, port, engineVars, faults, casts>>

(* ... or it does not: {:error, :not_found}.                               *)
CallNotFound(c) ==
  /\ call[c] = "new"
  /\ server \in {"restarting", "stopped"}
  /\ call' = [call EXCEPT ![c] = "not_found"]
  /\ UNCHANGED <<answer, serverVars, inbox, port, engineVars, faults, casts>>

(* :exit, {:timeout, _}: the caller goes away, its message or its pending  *)
(* entry stays.                                                            *)
CallTimeout(c) ==
  /\ call[c] = "sent"
  /\ Fault("timeout")
  /\ call' = [call EXCEPT ![c] = "timeout"]
  /\ UNCHANGED <<answer, serverVars, inbox, port, engineVars, casts>>

Cast(k) ==
  /\ server \in {"up", "exiting"}
  /\ casts < MaxCasts /\ casts' = casts + 1
  /\ Send(Frame("cast", k))
  /\ UNCHANGED <<callerVars, serverVars, port, engineVars, faults>>
-----------------------------------------------------------------------------
(* The server.  It handles the next message while it is up.                *)
Receive(type) ==
  /\ server = "up"
  /\ inbox # << >>
  /\ Head(inbox).type = type
  /\ inbox' = Tail(inbox)

(* handle_call: Port.command, then park the caller or answer it :ok.       *)
HandleCall ==
  /\ Receive("call")
  /\ engine # "dead"
  /\ LET c == Head(inbox).id IN
       /\ port' = Append(port, c)
       /\ pending' = IF c \in Tracked THEN pending \cup {c} ELSE pending
       /\ status' = IF c \in Waits \cup Executes THEN "running" ELSE status
       /\ Reply({c} \ Blocking, "accepted", c)
  /\ UNCHANGED <<server, engineVars, faults, casts>>

(* handle_cast: Port.command; a graceful shutdown marks the server.        *)
HandleCast ==
  /\ Receive("cast")
  /\ engine # "dead"
  /\ port' = Append(port, Head(inbox).id)
  /\ status' = IF Head(inbox).id = "shutdown" THEN "stopping" ELSE status
  /\ UNCHANGED <<callerVars, server, pending, engineVars, faults, casts>>

(* The server process is gone: every call it has not answered exits with   *)
(* {:error, :vm_down}, its Port closes and the engine reads end of file.   *)
ProcessGone(next) ==
  /\ Reply(Calls, "down", NoCall)
  /\ server' = next
  /\ inbox' = << >> /\ port' = << >> /\ pending' = {}
  /\ engine' = "dead" /\ running' = NoCall
  /\ UNCHANGED <<status, failed>>

(* Port.command on the closed Port of an engine that exited raises: the    *)
(* server crashes before it comes to the exit_status message.              *)
HandleAfterExit ==
  /\ server = "up" /\ engine = "dead"
  /\ inbox # << >>
  /\ Head(inbox).type \in {"call", "cast"}
  /\ ProcessGone("restarting")
  /\ UNCHANGED <<faults, casts>>

HandleReady ==
  /\ Receive("ready")
  /\ status' = "idle"
  /\ UNCHANGED <<callerVars, server, pending, port, engineVars, faults, casts>>

(* Mutant: a result answers every parked caller, whatever its id says.     *)
HandleResultForAll ==
  /\ Receive("result")
  /\ Reply(pending \cap Blocking, "ok", Head(inbox).id)
  /\ pending' = pending \ {Head(inbox).id}
  /\ status' = "idle"
  /\ UNCHANGED <<server, port, engineVars, faults, casts>>

(* handle_response "result": pop the entry of the frame's id, answer it if *)
(* it is a waiter's.  No entry has the id "unknown".                       *)
HandleResult ==
  /\ Receive("result")
  /\ LET id == Head(inbox).id IN
       /\ Reply({id} \cap pending \cap Blocking, "ok", id)
       /\ pending' = pending \ {id}
  /\ status' = "idle"
  /\ UNCHANGED <<server, port, engineVars, faults, casts>>

(* handle_response "cell_result" only broadcasts.                          *)
HandleCellResult ==
  /\ Receive("cell_result")
  /\ UNCHANGED <<callerVars, serverVars, port, engineVars, faults, casts>>

(* Mutant: the direct reply is sent, the entry is not popped.              *)
HandleRlKeepsEntry ==
  /\ Receive("rl")
  /\ LET id == Head(inbox).id IN
       /\ Reply({id} \cap pending \cap Blocking, "ok", id)
       /\ status' = IF id \in pending \cap Blocking THEN "idle" ELSE status
  /\ UNCHANGED <<server, pending, port, engineVars, faults, casts>>

(* handle_response "rl_step" and "rl_steps".                               *)
HandleRl ==
  /\ Receive("rl")
  /\ LET id == Head(inbox).id IN
       /\ Reply({id} \cap pending \cap Blocking, "ok", id)
       /\ status' = IF id \in pending \cap Blocking THEN "idle" ELSE status
       /\ pending' = pending \ {id}
  /\ UNCHANGED <<server, port, engineVars, faults, casts>>

(* Mutant: an aborted request is only broadcast.                           *)
HandleEngineDiedBroadcast ==
  /\ Receive("engine_died")
  /\ pending' = pending \ {Head(inbox).id}
  /\ UNCHANGED <<callerVars, server, status, port, engineVars, faults, casts>>

(* handle_response "engine_died": the engine lives, one request aborted.   *)
HandleEngineDied ==
  /\ Receive("engine_died")
  /\ LET id == Head(inbox).id IN
       /\ Reply({id} \cap pending \cap Blocking, "died", id)
       /\ status' = IF id \in pending \cap Blocking THEN "idle" ELSE status
       /\ pending' = pending \ {id}
  /\ UNCHANGED <<server, port, engineVars, faults, casts>>

(* {:exit_status, _}: every parked caller is answered, the server stops.   *)
HandleExit ==
  /\ Receive("exit_status")
  /\ Reply(pending \cap Blocking, "died", NoCall)
  /\ server' = "exiting"
  /\ UNCHANGED <<status, pending, port, engineVars, faults, casts>>

(* terminate/2; calls that came in meanwhile find the process dead.        *)
Terminate ==
  /\ server = "exiting"
  /\ ProcessGone("restarting")
  /\ UNCHANGED <<faults, casts>>

(* The DynamicSupervisor restarts the permanent child under the same id:   *)
(* init/1 with an empty state and a new engine.                            *)
Restart ==
  /\ server = "restarting"
  /\ server' = "up" /\ status' = "booting"
  /\ engine' = "booting"
  /\ UNCHANGED <<callerVars, pending, inbox, port, running, failed, faults, casts>>

(* stop_vm: terminate_child kills the server at any moment, without        *)
(* terminate/2 and for good.                                               *)
StopVM ==
  /\ server # "stopped"
  /\ Fault("stop")
  /\ ProcessGone("stopped")
  /\ UNCHANGED casts
-----------------------------------------------------------------------------
(* The engine: App::run.                                                   *)

EngineReady ==
  /\ engine = "booting"
  /\ engine' = "reading"
  /\ Send(Frame("ready", NoCall))
  /\ UNCHANGED <<callerVars, serverVars, port, running, failed, faults, casts>>

(* Read a command that will be answered.                                   *)
EngineRead ==
  /\ engine = "reading"
  /\ port # << >> /\ Head(port) \in Calls
  /\ running' = Head(port) /\ port' = Tail(port)
  /\ engine' = "running"
  /\ UNCHANGED <<callerVars, serverVars, inbox, failed, faults, casts>>

(* Read one that will not: `current` is never set, so stdin and interrupt  *)
(* find no running request; a prespawn works in the background.            *)
EngineReadSilent ==
  /\ engine = "reading"
  /\ port # << >> /\ Head(port) \in Casts \ {"shutdown"}
  /\ port' = Tail(port)
  /\ UNCHANGED <<callerVars, serverVars, inbox, engineVars, faults, casts>>

(* Shutdown ends the loop and the process.                                 *)
EngineShutdown ==
  /\ engine = "reading"
  /\ port # << >> /\ Head(port) = "shutdown"
  /\ port' = << >>
  /\ engine' = "dead"
  /\ Send(Frame("exit_status", NoCall))
  /\ UNCHANGED <<callerVars, serverVars, running, failed, faults, casts>>

(* The frame type each handler answers with: session::start_or_attach and  *)
(* run_cell a CellResult, exec::run and rl::start a Result, the RL         *)
(* handlers an RlStep or RlSteps.                                          *)
AnswerTypes(c) ==
  CASE c \in Sessions -> {"cell_result"}
    [] c \in (Waits \cup Executes) \ Sessions -> {"result"}
    [] c \in Steps -> {"rl"}
    [] c \in Sends -> {"cell_result", "rl"}

EngineAnswer ==
  /\ engine = "running"
  /\ \E type \in AnswerTypes(running) : Send(Frame(type, running))
  /\ engine' = "reading" /\ running' = NoCall
  /\ UNCHANGED <<callerVars, serverVars, port, failed, faults, casts>>

(* modes::die: EngineDied with last_request_id, the engine lives on.       *)
EngineDie ==
  /\ engine = "running" /\ running \in (Waits \cup Executes) \ Sessions
  /\ Fault("die")
  /\ Send(Frame("engine_died", running))
  /\ engine' = "reading" /\ running' = NoCall
  /\ UNCHANGED <<callerVars, serverVars, port, failed, casts>>

(* The handler returned Err: a Result for the request id "unknown".        *)
EngineErr ==
  /\ engine = "running"
  /\ Fault("err")
  /\ Send(Frame("result", NoCall))
  /\ failed' = failed \cup {running}
  /\ engine' = "reading" /\ running' = NoCall
  /\ UNCHANGED <<callerVars, serverVars, port, casts>>

(* Mutant: the exit leaves the request recorded as running.                *)
EngineExitKeepsRun ==
  /\ engine # "dead"
  /\ Fault("exit")
  /\ engine' = "dead"
  /\ port' = << >>
  /\ Send(Frame("exit_status", NoCall))
  /\ UNCHANGED <<callerVars, serverVars, running, failed, casts>>

(* The engine process exits; what is left in the Port is lost.             *)
EngineExit ==
  /\ engine # "dead"
  /\ Fault("exit")
  /\ engine' = "dead" /\ running' = NoCall
  /\ port' = << >>
  /\ Send(Frame("exit_status", NoCall))
  /\ UNCHANGED <<callerVars, serverVars, failed, casts>>
-----------------------------------------------------------------------------
CallerStep ==
  \/ \E c \in Calls : Call(c) \/ CallNotFound(c) \/ CallTimeout(c)
  \/ \E k \in Casts : Cast(k)

ServerStep ==
  \/ HandleCall \/ HandleCast \/ HandleAfterExit
  \/ HandleReady \/ HandleResult \/ HandleCellResult \/ HandleRl \/ HandleEngineDied
  \/ HandleExit \/ Terminate \/ Restart

EngineStep ==
  EngineReady \/ EngineRead \/ EngineReadSilent \/ EngineShutdown \/ EngineAnswer

FaultStep == StopVM \/ EngineDie \/ EngineErr \/ EngineExit

VMServerNext == CallerStep \/ ServerStep \/ EngineStep \/ FaultStep

(* The server handles its messages; the engine reads its commands and, as  *)
(* every sandbox run and worker exchange has a wall-clock limit, ends each *)
(* one.  No caller's timeout and no fault is assumed to come.              *)
VMServerSpec == VMServerInit /\ [][VMServerNext]_vmServerVars
FairVMServerSpec ==
  VMServerSpec /\ WF_vmServerVars(ServerStep) /\ WF_vmServerVars(EngineStep)
-----------------------------------------------------------------------------
(* Every variable has its type, pending holds only calls that are put      *)
(* there, and the engine is busy exactly when it runs a call (App::run).   *)
VMServerTypeOK ==
  /\ call \in [Calls -> {"new", "sent", "ok", "died", "accepted", "timeout", "down", "not_found"}]
  /\ answer \in [Calls -> Calls \cup {NoCall}]
  /\ server \in {"up", "exiting", "restarting", "stopped"}
  /\ status \in {"booting", "idle", "running", "stopping"}
  /\ pending \subseteq Tracked
  /\ inbox \in Seq(Messages) /\ port \in Seq(Calls \cup Casts)
  /\ engine \in {"booting", "reading", "running", "dead"}
  /\ running \in Calls \cup {NoCall} /\ (engine = "running" <=> running # NoCall)
  /\ failed \subseteq Calls /\ faults \in Nat /\ casts \in Nat

(* A caller that gets {:ok, msg} gets the frame of its own request, though *)
(* callers that gave up leave their entries, commands and frames behind    *)
(* for the ones that come after (the pending map of handle_response).      *)
AnswerIsOwn ==
  \A c \in Blocking : call[c] = "ok" => answer[c] = c

Elements(s) == {s[i] : i \in 1..Len(s)}

(* What is still to come for a call: its command in the Port or at the     *)
(* engine, its frame or the engine's exit in the server's queue.           *)
OnTheWay(c) ==
  \/ c \in Elements(port) \/ running = c
  \/ \E m \in Elements(inbox) :
       \/ m.type = "exit_status"
       \/ m.type \in {"result", "rl", "engine_died"} /\ m.id = c

(* No pending entry is stuck: each one, a given-up caller's too, will be   *)
(* popped by a frame or by the end of the server, and a waiting caller has *)
(* its entry or its message in the queue.  The exceptions are calls whose  *)
(* handler failed and session starts, which no frame pops.                 *)
PendingResolves ==
  server = "up" =>
    /\ \A c \in pending \ (failed \cup Sessions) : OnTheWay(c)
    /\ \A c \in Blocking : call[c] = "sent" => c \in pending \/ Frame("call", c) \in Elements(inbox)

(* A blocking call is answered, by its frame, by the engine's death or by  *)
(* the server's, without waiting for its timeout; except where the handler *)
(* failed or a session start was sent as execute_and_wait.                 *)
AnswerComes ==
  \A c \in Blocking \ Sessions : call[c] = "sent" ~> (call[c] # "sent" \/ c \in failed)

(* What the engine_died handler says of every parked waiter: it "must be   *)
(* answered", otherwise the caller hangs until its timeout and its pending *)
(* entry, busy VM and quota slot leak.                                     *)
WaiterAnswered ==
  \A c \in Blocking : call[c] = "sent" ~> call[c] # "sent"
=============================================================================
