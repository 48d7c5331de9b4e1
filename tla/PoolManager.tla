---------------------------- MODULE PoolManager -----------------------------
(***************************************************************************)
(* One bucket of the VM pool (lib/rockbox/pool/manager.ex), its quota      *)
(* counter, the requests that acquire and give back VMs, and the VMs'      *)
(* deaths.                                                                 *)
(*                                                                         *)
(* Every request takes an idle VM in its own process, straight from two    *)
(* public ETS tables: `row`, the pool table, and `idx`, the bag that lists *)
(* the idle VMs of the bucket.  Only a request that finds none calls the   *)
(* manager.  An action is one ETS operation, so all interleavings of the   *)
(* requests with each other and with the manager's handlers are there.     *)
(*                                                                         *)
(* Takers are the requests and the manager: acquire_cold runs the same     *)
(* take_idle/2 inside the GenServer.  at[t] says where a taker is; the     *)
(* values for the manager name its handler and the next table operation.   *)
(*                                                                         *)
(* Abstractions: one workspace and one bucket (buckets share the counter   *)
(* and nothing else); VM ids come from unique_integer and are never        *)
(* reused; `now` advances with every idle insertion, because a VM is       *)
(* handed out and executes between two insertions of its id; whether an    *)
(* idle VM is past its TTL is a choice.                                    *)
(***************************************************************************)
EXTENDS QuotaTracker, Sequences

CONSTANTS
  Manager,     \* the Pool.Manager process
  VMs,         \* VM ids that may be spawned
  NoVM,        \* no VM
  MaxNow,      \* bound: no request starts after this many idle insertions
  Endings,     \* how callers end: "release" (Pool.release), "stop" (stop_vm, vm_dead)
  OneShot,     \* mode :exec with idle_ttl_s = 0
  Scaling,     \* what the autoscaler casts: "retire", "prewarm"
  MaxCasts,    \* bound on its casts
  MaxBatch,    \* bound on the count a cast carries
  FaultKinds,  \* "death" (the engine exits), "timeout" (acquire_cold's 10 s)
  MaxFaults    \* bound on faults

ASSUME ManagerAssumption == Manager \notin Requests
ASSUME NoVMAssumption == NoVM \notin VMs
ASSUME OneShotAssumption == OneShot \in BOOLEAN
ASSUME BoundsAssumption ==
  MaxNow \in Nat /\ MaxCasts \in Nat /\ MaxBatch \in Nat /\ MaxFaults \in Nat

VARIABLES
  row,       \* pool table: state of the VM's row, "none" when there is no row
  ts,        \* pool table: when the row became idle
  idx,       \* index bag: <<vm, ts>>
  now,       \* time of the latest idle insertion
  born,      \* VM ids handed out by unique_integer so far
  up,        \* VMs with a running VM.Server
  exiting,   \* VM.Servers between exit_status and terminate
  expired,   \* VMs whose asynchronous stop_vm is pending
  at,        \* where each taker is
  cands,     \* take_candidate's remaining candidates
  vm,        \* the VM a taker is working on or holds
  vts,       \* the timestamp of the candidate it came from
  mailbox,   \* the manager's message queue
  serving,   \* the request whose acquire_cold the manager handles, Manager if none
  left,      \* prewarm: engines still to boot
  victims,   \* retire: <<vm, ts>> still to retire
  casts,     \* autoscaler casts so far
  faults     \* faults so far

tableVars == <<row, ts, idx, now>>
vmVars == <<born, up, exiting, expired>>
takerVars == <<at, cands, vm, vts>>
managerVars == <<mailbox, serving, left, victims>>
budgetVars == <<casts, faults>>
poolVars == <<quotaVars, tableVars, vmVars, takerVars, managerVars, budgetVars>>

Takers == Requests \cup {Manager}

RequestStates ==
  {"idle", "over", "lookup", "scan", "won", "lost", "mark", "cold", "gone", "held", "done"}
ManagerStates ==
  {"ready", "lookup", "scan", "won", "lost", "mark", "spawn", "boot", "insert", "index",
   "destroy", "dead_row", "dead_idx", "retire", "retire_idx", "retire_stop"}

Message(type, r, v, n) == [type |-> type, req |-> r, vm |-> v, n |-> n]
Messages ==
  [type : {"acquire_cold", "release", "vm_dead", "retire", "prewarm"},
   req : Takers, vm : VMs \cup {NoVM}, n : Nat]

(* A request has the VM until the manager handles what it sent about it.   *)
Holding(r) == at[r] \in {"held", "done"}

Send(m) == mailbox' = Append(mailbox, m)
Goto(t, state) == at' = [at EXCEPT ![t] = state]

PoolInit ==
  /\ QuotaInit
  /\ row = [v \in VMs |-> "none"] /\ ts = [v \in VMs |-> 0]
  /\ idx = {} /\ now = 0
  /\ born = {} /\ up = {} /\ exiting = {} /\ expired = {}
  /\ at = [t \in Takers |-> IF t = Manager THEN "ready" ELSE "idle"]
  /\ cands = [t \in Takers |-> {}]
  /\ vm = [t \in Takers |-> NoVM] /\ vts = [t \in Takers |-> 0]
  /\ mailbox = << >> /\ serving = Manager /\ left = 0 /\ victims = {}
  /\ casts = 0 /\ faults = 0
-----------------------------------------------------------------------------
(* acquire/1 in the caller's process.                                      *)

(* QuotaTracker.reserve, first half.                                       *)
Acquire(r) ==
  /\ at[r] = "idle"
  /\ now < MaxNow
  /\ ReserveBump(r)
  /\ Goto(r, IF slot'[r] = "over" THEN "over" ELSE "lookup")
  /\ UNCHANGED <<tableVars, vmVars, cands, vm, vts, managerVars, budgetVars>>

(* ... second half: {:error, :concurrency_exceeded}.                       *)
Refuse(r) ==
  /\ at[r] = "over"
  /\ ReserveUndo(r)
  /\ Goto(r, "idle")
  /\ UNCHANGED <<tableVars, vmVars, cands, vm, vts, managerVars, budgetVars>>
-----------------------------------------------------------------------------
(* take_idle/2, by a request or by the manager for acquire_cold.           *)

(* :ets.lookup(@idx_table, key)                                            *)
LookupIndex(t) ==
  /\ at[t] = "lookup"
  /\ cands' = [cands EXCEPT ![t] = idx]
  /\ Goto(t, "scan")
  /\ UNCHANGED <<quotaVars, tableVars, vmVars, vm, vts, managerVars, budgetVars>>

Newest(c, S) == c \in S /\ \A d \in S : d[2] <= c[2]

(* Mutant: the taken row is not checked for `state: :idle`.                *)
TakeAnyRow(t) ==
  /\ at[t] = "scan"
  /\ \E c \in cands[t] :
       /\ Newest(c, cands[t])
       /\ cands' = [cands EXCEPT ![t] = @ \ {c}]
       /\ vm' = [vm EXCEPT ![t] = c[1]]
       /\ vts' = [vts EXCEPT ![t] = c[2]]
       /\ row' = [row EXCEPT ![c[1]] = "none"]
       /\ Goto(t, IF row[c[1]] # "none" THEN "won" ELSE "lost")
  /\ UNCHANGED <<quotaVars, ts, idx, now, vmVars, managerVars, budgetVars>>

(* Mutant: the scan restarts from the same candidates after a loss.        *)
TakeSameAgain(t) ==
  /\ at[t] = "scan"
  /\ \E c \in cands[t] :
       /\ Newest(c, cands[t])
       /\ vm' = [vm EXCEPT ![t] = c[1]]
       /\ vts' = [vts EXCEPT ![t] = c[2]]
       /\ row' = [row EXCEPT ![c[1]] = "none"]
       /\ Goto(t, IF row[c[1]] = "idle" THEN "won" ELSE "lost")
  /\ UNCHANGED <<quotaVars, ts, idx, now, vmVars, cands, managerVars, budgetVars>>

(* :ets.take of the newest remaining candidate.  The row is removed        *)
(* whatever state it is in; only an idle one is a win.                     *)
TakeCandidate(t) ==
  /\ at[t] = "scan"
  /\ \E c \in cands[t] :
       /\ Newest(c, cands[t])
       /\ cands' = [cands EXCEPT ![t] = @ \ {c}]
       /\ vm' = [vm EXCEPT ![t] = c[1]]
       /\ vts' = [vts EXCEPT ![t] = c[2]]
       /\ row' = [row EXCEPT ![c[1]] = "none"]
       /\ Goto(t, IF row[c[1]] = "idle" THEN "won" ELSE "lost")
  /\ UNCHANGED <<quotaVars, ts, idx, now, vmVars, managerVars, budgetVars>>

(* A won candidate leaves the index; it is handed out, ...                 *)
KeepCandidate(t) ==
  /\ at[t] = "won"
  /\ idx' = idx \ {<<vm[t], vts[t]>>}
  /\ cands' = [cands EXCEPT ![t] = {}]
  /\ vts' = [vts EXCEPT ![t] = 0]
  /\ Goto(t, "mark")
  /\ UNCHANGED <<quotaVars, row, ts, now, vmVars, vm, managerVars, budgetVars>>

(* ... or it is past its TTL: a spawned process stops it, the scan goes on.*)
ExpireCandidate(t) ==
  /\ at[t] = "won"
  /\ ~OneShot
  /\ idx' = idx \ {<<vm[t], vts[t]>>}
  /\ expired' = expired \cup {vm[t]}
  /\ vm' = [vm EXCEPT ![t] = NoVM]
  /\ vts' = [vts EXCEPT ![t] = 0]
  /\ Goto(t, "scan")
  /\ UNCHANGED <<quotaVars, row, ts, now, born, up, exiting, cands, managerVars, budgetVars>>

(* Mutant: a loser drops every index entry of the VM it lost.              *)
DropAllEntries(t) ==
  /\ at[t] = "lost"
  /\ idx' = {e \in idx : e[1] # vm[t]}
  /\ vm' = [vm EXCEPT ![t] = NoVM]
  /\ vts' = [vts EXCEPT ![t] = 0]
  /\ Goto(t, "scan")
  /\ UNCHANGED <<quotaVars, row, ts, now, vmVars, cands, managerVars, budgetVars>>

(* A lost candidate's index entry is dropped and the next one is tried.    *)
DropCandidate(t) ==
  /\ at[t] = "lost"
  /\ idx' = idx \ {<<vm[t], vts[t]>>}
  /\ vm' = [vm EXCEPT ![t] = NoVM]
  /\ vts' = [vts EXCEPT ![t] = 0]
  /\ Goto(t, "scan")
  /\ UNCHANGED <<quotaVars, row, ts, now, vmVars, cands, managerVars, budgetVars>>
-----------------------------------------------------------------------------
(* acquire/1 after take_idle/2.                                            *)

(* {:ok, vm_id, _}: mark_busy and return the VM.                           *)
MarkBusy(r) ==
  /\ at[r] = "mark"
  /\ row' = [row EXCEPT ![vm[r]] = "busy"]
  /\ Goto(r, "held")
  /\ UNCHANGED <<quotaVars, ts, idx, now, vmVars, cands, vm, vts, managerVars, budgetVars>>

(* :empty: GenServer.call({:acquire_cold, s}).                             *)
CallManager(r) ==
  /\ at[r] = "scan" /\ cands[r] = {}
  /\ Send(Message("acquire_cold", r, NoVM, 0))
  /\ Goto(r, "cold")
  /\ UNCHANGED <<quotaVars, tableVars, vmVars, cands, vm, vts, serving, left, victims, budgetVars>>

(* The call's 10 s pass first: the caller exits, its message stays queued. *)
CallTimeout(r) ==
  /\ "timeout" \in FaultKinds /\ faults < MaxFaults
  /\ at[r] = "cold"
  /\ Goto(r, "gone")
  /\ faults' = faults + 1
  /\ UNCHANGED <<quotaVars, tableVars, vmVars, cands, vm, vts, managerVars, casts>>

(* The controller is done with the VM, after a result, an error or a       *)
(* timeout: Pool.release.                                                  *)
ReleaseVM(r) ==
  /\ "release" \in Endings
  /\ at[r] = "held"
  /\ Send(Message("release", r, vm[r], 0))
  /\ Goto(r, "done")
  /\ UNCHANGED <<quotaVars, tableVars, vmVars, cands, vm, vts, serving, left, victims, budgetVars>>

(* VM or episode teardown: stop_vm, then {:vm_dead, ...}.  The server is   *)
(* killed without running terminate/2, so this is the only notification.   *)
StopVM(r) ==
  /\ "stop" \in Endings
  /\ at[r] = "held"
  /\ up' = up \ {vm[r]}
  /\ Send(Message("vm_dead", r, vm[r], 0))
  /\ Goto(r, "done")
  /\ UNCHANGED <<quotaVars, tableVars, born, exiting, expired, cands, vm, vts,
                 serving, left, victims, budgetVars>>
-----------------------------------------------------------------------------
(* The manager's handlers.  It takes the next message when it is ready.    *)
Receive(type) ==
  /\ at[Manager] = "ready"
  /\ mailbox # << >>
  /\ Head(mailbox).type = type
  /\ mailbox' = Tail(mailbox)

(* handle_call({:acquire_cold, s}): take_idle/2 again, ...                 *)
AcquireCold ==
  /\ Receive("acquire_cold")
  /\ serving' = Head(mailbox).req
  /\ Goto(Manager, "lookup")
  /\ UNCHANGED <<quotaVars, tableVars, vmVars, cands, vm, vts, left, victims, budgetVars>>

(* ... and, when the bucket is empty, spawn_vm.                            *)
NoneIdle ==
  /\ at[Manager] = "scan" /\ cands[Manager] = {}
  /\ Goto(Manager, "spawn")
  /\ UNCHANGED <<quotaVars, tableVars, vmVars, cands, vm, vts, managerVars, budgetVars>>

SpawnVM ==
  /\ at[Manager] = "spawn"
  /\ \E v \in VMs \ born :
       /\ born' = born \cup {v} /\ up' = up \cup {v}
       /\ vm' = [vm EXCEPT ![Manager] = v]
  /\ Goto(Manager, "mark")
  /\ UNCHANGED <<quotaVars, tableVars, exiting, expired, cands, vts, managerVars, budgetVars>>

(* Mutant: the reservation is not given back when start_vm fails.          *)
SpawnFailsKeepsSlot ==
  /\ at[Manager] = "spawn"
  /\ slot' = [slot EXCEPT ![serving] = "none"]
  /\ at' = [at EXCEPT ![Manager] = "ready", ![serving] = "idle"]
  /\ serving' = Manager
  /\ UNCHANGED <<in_flight, tableVars, vmVars, cands, vm, vts, mailbox, left, victims, budgetVars>>

(* start_vm fails: the reservation the caller brought is given back.       *)
SpawnFails ==
  /\ at[Manager] = "spawn"
  /\ Release(serving)
  /\ at' = [at EXCEPT ![Manager] = "ready", ![serving] = "idle"]
  /\ serving' = Manager
  /\ UNCHANGED <<tableVars, vmVars, cands, vm, vts, mailbox, left, victims, budgetVars>>

(* mark_busy and {:reply, {:ok, vm_id}, state}.  A caller whose call timed *)
(* out never reads the reply.                                              *)
ReplyCold ==
  /\ at[Manager] = "mark"
  /\ row' = [row EXCEPT ![vm[Manager]] = "busy"]
  /\ IF at[serving] = "cold"
     THEN /\ at' = [at EXCEPT ![Manager] = "ready", ![serving] = "held"]
          /\ vm' = [vm EXCEPT ![Manager] = NoVM, ![serving] = vm[Manager]]
     ELSE /\ Goto(Manager, "ready")
          /\ vm' = [vm EXCEPT ![Manager] = NoVM]
  /\ serving' = Manager
  /\ UNCHANGED <<quotaVars, ts, idx, now, vmVars, cands, vts, mailbox, left, victims, budgetVars>>

(* handle_cast({:release, vm_id, s}), reusable: the slot is freed, ...     *)
ReleaseReusable ==
  /\ ~OneShot
  /\ Receive("release")
  /\ LET m == Head(mailbox) IN
       /\ Release(m.req)
       /\ at' = [at EXCEPT ![m.req] = "idle", ![Manager] = "insert"]
       /\ vm' = [vm EXCEPT ![m.req] = NoVM, ![Manager] = m.vm]
  /\ UNCHANGED <<tableVars, vmVars, cands, vts, serving, left, victims, budgetVars>>

(* ... the row goes back as idle, ...                                      *)
InsertIdle ==
  /\ at[Manager] = "insert"
  /\ now' = now + 1
  /\ row' = [row EXCEPT ![vm[Manager]] = "idle"]
  /\ ts' = [ts EXCEPT ![vm[Manager]] = now + 1]
  /\ vts' = [vts EXCEPT ![Manager] = now + 1]
  /\ Goto(Manager, "index")
  /\ UNCHANGED <<quotaVars, idx, vmVars, cands, vm, managerVars, budgetVars>>

(* ... and so does its index entry.  A prewarm goes on to its next engine. *)
InsertIndex ==
  /\ at[Manager] = "index"
  /\ idx' = idx \cup {<<vm[Manager], vts[Manager]>>}
  /\ vm' = [vm EXCEPT ![Manager] = NoVM]
  /\ vts' = [vts EXCEPT ![Manager] = 0]
  /\ Goto(Manager, IF left > 0 THEN "boot" ELSE "ready")
  /\ UNCHANGED <<quotaVars, row, ts, now, vmVars, cands, managerVars, budgetVars>>

(* handle_cast({:release, ...}), one-shot: destroy_vm frees the slot only  *)
(* if the row still says busy, ...                                         *)
ReleaseOneShot ==
  /\ OneShot
  /\ Receive("release")
  /\ LET m == Head(mailbox) IN
       /\ in_flight' = IF row[m.vm] = "busy" THEN Decrement(in_flight) ELSE in_flight
       /\ slot' = [slot EXCEPT ![m.req] = "none"]
       /\ at' = [at EXCEPT ![m.req] = "idle", ![Manager] = "destroy"]
       /\ vm' = [vm EXCEPT ![m.req] = NoVM, ![Manager] = m.vm]
  /\ UNCHANGED <<tableVars, vmVars, cands, vts, serving, left, victims, budgetVars>>

(* ... deletes the row and stops the VM.                                   *)
DestroyVM ==
  /\ at[Manager] = "destroy"
  /\ row' = [row EXCEPT ![vm[Manager]] = "none"]
  /\ up' = up \ {vm[Manager]}
  /\ vm' = [vm EXCEPT ![Manager] = NoVM]
  /\ Goto(Manager, "ready")
  /\ UNCHANGED <<quotaVars, ts, idx, now, born, exiting, expired, cands, vts,
                 managerVars, budgetVars>>

(* handle_cast({:vm_dead, vm_id, wid}): a busy row gives back the slot of  *)
(* the request that holds the VM, ...  The notification a request sends    *)
(* for the VM it stopped also ends that request.                           *)
VMDead ==
  /\ Receive("vm_dead")
  /\ LET m == Head(mailbox)
         done == Requests \cap {m.req}
         freed == IF row[m.vm] = "busy"
                  THEN {r \in Requests : Holding(r) /\ vm[r] = m.vm} ELSE {}
     IN
       /\ in_flight' = IF row[m.vm] = "busy" THEN Decrement(in_flight) ELSE in_flight
       /\ slot' = [r \in Requests |-> IF r \in freed \cup done THEN "none" ELSE slot[r]]
       /\ at' = [t \in Takers |-> IF t \in done THEN "idle"
                                  ELSE IF t = Manager THEN "dead_row" ELSE at[t]]
       /\ vm' = [t \in Takers |-> IF t \in done THEN NoVM
                                  ELSE IF t = Manager THEN m.vm ELSE vm[t]]
  /\ UNCHANGED <<tableVars, vmVars, cands, vts, serving, left, victims, budgetVars>>

(* ... the row goes, ...                                                   *)
DeleteDeadRow ==
  /\ at[Manager] = "dead_row"
  /\ row' = [row EXCEPT ![vm[Manager]] = "none"]
  /\ Goto(Manager, "dead_idx")
  /\ UNCHANGED <<quotaVars, ts, idx, now, vmVars, cands, vm, vts, managerVars, budgetVars>>

(* ... and every index entry of the VM.                                    *)
DeleteDeadIndex ==
  /\ at[Manager] = "dead_idx"
  /\ idx' = {e \in idx : e[1] # vm[Manager]}
  /\ vm' = [vm EXCEPT ![Manager] = NoVM]
  /\ Goto(Manager, "ready")
  /\ UNCHANGED <<quotaVars, row, ts, now, vmVars, cands, vts, managerVars, budgetVars>>

(* handle_cast({:prewarm, key, count}): boot `count` engines, one by one;  *)
(* each that starts enters the pool as idle, a failure is only logged.     *)
Prewarm ==
  /\ Receive("prewarm")
  /\ left' = Head(mailbox).n
  /\ Goto(Manager, "boot")
  /\ UNCHANGED <<quotaVars, tableVars, vmVars, cands, vm, vts, serving, victims, budgetVars>>

BootEngine ==
  /\ at[Manager] = "boot"
  /\ \E v \in VMs \ born :
       /\ born' = born \cup {v} /\ up' = up \cup {v}
       /\ vm' = [vm EXCEPT ![Manager] = v]
  /\ left' = left - 1
  /\ Goto(Manager, "insert")
  /\ UNCHANGED <<quotaVars, tableVars, exiting, expired, cands, vts,
                 mailbox, serving, victims, budgetVars>>

(* Mutant: one engine more than `count` is tried.                          *)
BootFailsOnceMore ==
  /\ at[Manager] = "boot"
  /\ left' = left - 1
  /\ Goto(Manager, IF left > 0 THEN "boot" ELSE "ready")
  /\ UNCHANGED <<quotaVars, tableVars, vmVars, cands, vm, vts,
                 mailbox, serving, victims, budgetVars>>

BootFails ==
  /\ at[Manager] = "boot"
  /\ left' = left - 1
  /\ Goto(Manager, IF left > 1 THEN "boot" ELSE "ready")
  /\ UNCHANGED <<quotaVars, tableVars, vmVars, cands, vm, vts,
                 mailbox, serving, victims, budgetVars>>

(* handle_cast({:retire, key, count}): the `count` longest idle VMs, as    *)
(* one match_object sees them, ...                                         *)
IdleRows == {v \in VMs : row[v] = "idle"}

OldestIdle(V, n) ==
  /\ V \subseteq IdleRows
  /\ Cardinality(V) = n \/ (V = IdleRows /\ Cardinality(V) < n)
  /\ \A v \in V, u \in IdleRows \ V : ts[v] <= ts[u]

Retire ==
  /\ Receive("retire")
  /\ \E V \in SUBSET VMs :
       /\ OldestIdle(V, Head(mailbox).n)
       /\ victims' = {<<v, ts[v]>> : v \in V}
       /\ Goto(Manager, IF V = {} THEN "ready" ELSE "retire")
  /\ UNCHANGED <<quotaVars, tableVars, vmVars, cands, vm, vts, serving, left, budgetVars>>

(* ... oldest first: delete the row, ...                                   *)
RetireRow ==
  /\ at[Manager] = "retire"
  /\ \E e \in victims :
       /\ \A d \in victims : e[2] <= d[2]
       /\ victims' = victims \ {e}
       /\ vm' = [vm EXCEPT ![Manager] = e[1]]
       /\ vts' = [vts EXCEPT ![Manager] = e[2]]
       /\ row' = [row EXCEPT ![e[1]] = "none"]
  /\ Goto(Manager, "retire_idx")
  /\ UNCHANGED <<quotaVars, ts, idx, now, vmVars, cands, mailbox, serving, left, budgetVars>>

(* ... the index entry, ...                                                *)
RetireIndex ==
  /\ at[Manager] = "retire_idx"
  /\ idx' = idx \ {<<vm[Manager], vts[Manager]>>}
  /\ Goto(Manager, "retire_stop")
  /\ UNCHANGED <<quotaVars, row, ts, now, vmVars, cands, vm, vts, managerVars, budgetVars>>

(* ... and stop the VM.                                                    *)
RetireStop ==
  /\ at[Manager] = "retire_stop"
  /\ up' = up \ {vm[Manager]}
  /\ vm' = [vm EXCEPT ![Manager] = NoVM]
  /\ vts' = [vts EXCEPT ![Manager] = 0]
  /\ Goto(Manager, IF victims = {} THEN "ready" ELSE "retire")
  /\ UNCHANGED <<quotaVars, tableVars, born, exiting, expired, cands, managerVars, budgetVars>>
-----------------------------------------------------------------------------
(* The rest of the system.                                                 *)

(* Autoscaler: a retire or prewarm cast, decided on a snapshot that is out *)
(* of date by the time the manager reads it, so any count may come.        *)
AutoscalerCast(kind) ==
  /\ kind \in Scaling /\ casts < MaxCasts
  /\ casts' = casts + 1
  /\ \E n \in 1..MaxBatch : Send(Message(kind, Manager, NoVM, n))
  /\ UNCHANGED <<quotaVars, tableVars, vmVars, takerVars, serving, left, victims, faults>>

(* VM.Server: the engine's exit_status.  Waiting callers are answered and  *)
(* the pool is told, ...                                                   *)
EngineExit(v) ==
  /\ "death" \in FaultKinds /\ faults < MaxFaults
  /\ v \in up /\ v \notin exiting
  /\ faults' = faults + 1
  /\ exiting' = exiting \cup {v}
  /\ Send(Message("vm_dead", Manager, v, 0))
  /\ UNCHANGED <<quotaVars, tableVars, born, up, expired, takerVars,
                 serving, left, victims, casts>>

(* ... terminate/2 tells it again, and the DynamicSupervisor starts the    *)
(* permanent child anew under the same vm_id.                              *)
ServerTerminate(v) ==
  /\ v \in exiting
  /\ exiting' = exiting \ {v}
  /\ Send(Message("vm_dead", Manager, v, 0))
  /\ UNCHANGED <<quotaVars, tableVars, born, up, expired, takerVars,
                 serving, left, victims, budgetVars>>

(* The process spawned for an expired candidate calls stop_vm.             *)
StopExpired(v) ==
  /\ v \in expired
  /\ expired' = expired \ {v}
  /\ up' = up \ {v}
  /\ UNCHANGED <<quotaVars, tableVars, born, exiting, takerVars, managerVars, budgetVars>>
-----------------------------------------------------------------------------
TakeStep(t) ==
  \/ LookupIndex(t) \/ TakeCandidate(t)
  \/ KeepCandidate(t) \/ ExpireCandidate(t) \/ DropCandidate(t)

AcquireStep(r) == Refuse(r) \/ TakeStep(r) \/ MarkBusy(r) \/ CallManager(r)

EndStep(r) == ReleaseVM(r) \/ StopVM(r)

ManagerStep ==
  \/ AcquireCold \/ TakeStep(Manager) \/ NoneIdle \/ SpawnVM \/ SpawnFails \/ ReplyCold
  \/ ReleaseReusable \/ InsertIdle \/ InsertIndex
  \/ ReleaseOneShot \/ DestroyVM
  \/ VMDead \/ DeleteDeadRow \/ DeleteDeadIndex
  \/ Prewarm \/ BootEngine \/ BootFails
  \/ Retire \/ RetireRow \/ RetireIndex \/ RetireStop

VMStep(v) == EngineExit(v) \/ ServerTerminate(v) \/ StopExpired(v)

PoolNext ==
  \/ \E r \in Requests : Acquire(r) \/ AcquireStep(r) \/ CallTimeout(r) \/ EndStep(r)
  \/ ManagerStep
  \/ AutoscalerCast("retire") \/ AutoscalerCast("prewarm")
  \/ \E v \in VMs : VMStep(v)

(* A caller runs its own code to the end, and every wait of a controller   *)
(* on its VM has a timeout; the manager handles its messages.  Arrivals,   *)
(* autoscaler casts and faults need not happen.                            *)
PoolFairness ==
  /\ \A r \in Requests : WF_poolVars(AcquireStep(r)) /\ WF_poolVars(EndStep(r))
  /\ WF_poolVars(ManagerStep)

PoolSpec == PoolInit /\ [][PoolNext]_poolVars
FairPoolSpec == PoolSpec /\ PoolFairness
-----------------------------------------------------------------------------
(* The pool tables, the takers, the queue and the counters keep their      *)
(* types; `left` counts down to zero and no further (prewarm).             *)
PoolTypeOK ==
  /\ in_flight \in Int /\ slot \in [Requests -> SlotStates]
  /\ row \in [VMs -> {"none", "idle", "busy"}] /\ ts \in [VMs -> Nat]
  /\ idx \subseteq VMs \X Nat /\ now \in Nat
  /\ born \subseteq VMs /\ up \subseteq VMs /\ exiting \subseteq VMs /\ expired \subseteq VMs
  /\ at \in [Takers -> RequestStates \cup ManagerStates]
  /\ cands \in [Takers -> SUBSET (VMs \X Nat)]
  /\ vm \in [Takers -> VMs \cup {NoVM}] /\ vts \in [Takers -> Nat]
  /\ mailbox \in Seq(Messages) /\ serving \in Takers /\ left \in Nat
  /\ victims \subseteq VMs \X Nat
  /\ casts \in Nat /\ faults \in Nat

(* A VM is in the hands of at most one request, from the moment mark_busy  *)
(* returns it until the manager has handled the message that gives it up,  *)
(* whatever candidates, retires, deaths and stale index entries interleave *)
(* (take_idle's "exactly one wins each VM").                               *)
ExclusiveHold ==
  \A r, s \in Requests : r # s /\ Holding(r) /\ Holding(s) => vm[r] # vm[s]

(* An idle VM can be found: its row and an index entry with the row's own  *)
(* timestamp go together, except while the manager is between the two      *)
(* inserts.  Racing losers delete index entries by value (take_candidate), *)
(* and must never delete the one a later release put there.                *)
IdleIndexed ==
  \A v \in IdleRows :
    \/ <<v, ts[v]>> \in idx
    \/ at[Manager] = "index" /\ vm[Manager] = v /\ vts[Manager] = ts[v]

(* While no engine dies by itself, the counter never forgets a holder, so  *)
(* the workspace never has more VMs in flight than the cap.                *)
NoOverAdmission ==
  "death" \notin FaultKinds =>
    in_flight >= Cardinality(Reserved) /\ CapRespected

(* A slot is never lost as long as callers end with Pool.release of        *)
(* reusable VMs, whose handler frees the slot whatever the row says.       *)
NoSlotLeak ==
  Endings = {"release"} /\ ~OneShot => in_flight <= Cardinality(Reserved)

(* The pool implements VMLease: a VM is lent when mark_busy hands it out   *)
(* and returned when the manager handles the message that gives it up.     *)
LeaseOf(v) ==
  IF \E r \in Requests : Holding(r) /\ vm[r] = v
  THEN CHOOSE r \in Requests : Holding(r) /\ vm[r] = v
  ELSE Manager

Lease == INSTANCE VMLease WITH Nobody <- Manager, lease <- [v \in VMs |-> LeaseOf(v)]

(* With no engine deaths, every step of the requests, the manager and the  *)
(* autoscaler grants a VM nobody has to a request that has none, below the *)
(* cap, or returns one VM, or leaves the leases alone (acquire, release).  *)
ImplementsLease == Lease!LeaseSpec

(* An acquire ends: the caller holds a VM or was refused, whatever VMs the *)
(* other callers, the manager and the autoscaler take away under its scan. *)
AcquireEnds ==
  \A r \in Requests : at[r] = "lookup" ~> at[r] \in {"held", "idle", "gone"}
=============================================================================
