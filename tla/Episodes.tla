------------------------------ MODULE Episodes ------------------------------
(***************************************************************************)
(* One durable RL episode: its route in the EpisodeRegistry                *)
(* (lib/rockbox/episode_registry.ex), its manifest on the episode volume   *)
(* (episode_store.ex), the VMs its worker lives on, and the requests of    *)
(* RLController that step, pause, delete and resurrect it.                 *)
(*                                                                         *)
(* The route is a public ETS row that every request reads and writes in    *)
(* its own process; only the restore claim and the DETS copy of the route  *)
(* go through the registry's GenServer.  A request therefore acts on what  *)
(* it read some steps ago.  Each read, write, call and cast is an action.  *)
(*                                                                         *)
(* Abstractions: the owner checks pass; the pool is a set of VMs that      *)
(* acquire picks from; a VM is as far as this episode can tell one of      *)
(* "idle" (the pool has it, or will spawn it), "lent" (busy for the        *)
(* episode), "down" (its engine just died), "zombie" (restarted by its     *)
(* supervisor, in no pool table) and "gone".                               *)
(***************************************************************************)
EXTENDS Naturals, Sequences, FiniteSets

CONSTANTS
  Clients,     \* requests on the episode, one operation each
  Ops,         \* which operations they do: "step", "pause", "delete"
  VMs, NoVM,   \* VMs of the pool, no VM
  FaultKinds,  \* "crash", "acquire", "execute", "late_start", "step_timeout", "ttl", "restart"
  MaxFaults    \* bound on faults

ASSUME NoVMAssumption == NoVM \notin VMs
ASSUME OpsAssumption == Ops \subseteq {"step", "pause", "delete"}

VARIABLES
  route,      \* the episode's ETS row: a VM, or NoVM
  dets,       \* the DETS copy of the row
  casts,      \* persist and unpersist casts the registry has not handled
  restoring,  \* the episode is in the registry's `restoring` set
  manifest,   \* the episode's directory holds a manifest
  vmState,    \* what each VM is to the episode
  worker,     \* VMs whose engine has a live worker of the episode
  at,         \* where each request is
  op,         \* what it does
  tgt,        \* the VM it calls, as it read it from the route or acquired it
  fresh,      \* requests after whose read nobody has written the route
  settled,    \* lookup_settings found the settings the episode was started with
  mishaps,    \* what happened so far that a later request may suffer from
  faults

registryVars == <<route, dets, casts, restoring>>
hostVars == <<vmState, worker, manifest>>
clientVars == <<at, op, tgt, fresh, settled>>
episodeVars == <<registryVars, hostVars, clientVars, mishaps, faults>>

Places ==
  {"new", "resolve", "call", "claim", "wait", "fetch", "acquire", "execute", "insert",
   "persist", "restored", "unrestored", "recall", "snapshot", "settings", "forget",
   "unpersist", "close", "durable", "remove", "end"}

(* Between a granted claim and restore_done.                               *)
Restoring(c) ==
  at[c] \in {"fetch", "acquire", "execute", "insert", "persist", "restored", "unrestored"}

(* The episode is live, as create/2 leaves it (a worker on a VM, the route *)
(* registered), or was paused earlier: no worker and no route.             *)
EpisodesInit ==
  /\ route \in VMs \cup {NoVM}
  /\ dets = route
  /\ vmState = [u \in VMs |-> IF u = route THEN "lent" ELSE "idle"]
  /\ worker = {route} \ {NoVM}
  /\ casts = << >> /\ restoring = FALSE /\ manifest = TRUE
  /\ at = [c \in Clients |-> "new"]
  /\ op \in [Clients -> Ops]
  /\ tgt = [c \in Clients |-> NoVM] /\ fresh = {}
  /\ settled = [c \in Clients |-> FALSE]
  /\ mishaps = {} /\ faults = 0

Goto(c, place) == at' = [at EXCEPT ![c] = place]
Fault(kind) == kind \in FaultKinds /\ faults < MaxFaults /\ faults' = faults + 1

(* The request acts on the route although it was written since the request *)
(* read it, or although another request has written the row and is not yet *)
(* done with what goes with it: the cast, and the old worker.              *)
Crossing(c) ==
  mishaps' =
    IF c \notin fresh \/ \E d \in Clients \ {c} : at[d] \in {"persist", "unpersist", "close"}
    THEN mishaps \cup {"crossed"} ELSE mishaps

-----------------------------------------------------------------------------
(* Every request starts with the route.                                    *)

(* step: owned_route!, or else the manifest's owner; without either, 404.  *)
Begin(c) ==
  /\ at[c] = "new"
  /\ Goto(c, IF op[c] = "step" /\ route = NoVM /\ ~manifest THEN "end" ELSE "resolve")
  /\ UNCHANGED <<registryVars, hostVars, op, tgt, fresh, settled, mishaps, faults>>

(* resolve_route: a route, or a step resurrects and the others look for    *)
(* the manifest.                                                           *)
Resolve(c) ==
  /\ at[c] = "resolve"
  /\ tgt' = [tgt EXCEPT ![c] = route]
  /\ fresh' = fresh \cup {c}
  /\ Goto(c, IF route # NoVM
             THEN CASE op[c] = "step" -> "call"
                    [] op[c] = "pause" -> "snapshot"
                    [] op[c] = "delete" -> "settings"
             ELSE IF op[c] = "step" THEN "claim" ELSE "durable")
  /\ UNCHANGED <<registryVars, hostVars, op, settled, mishaps, faults>>

(* fetch_settings without a route: a paused episode is deleted, or paused  *)
(* already; an unknown one is gone.                                        *)
LookupDurable(c) ==
  /\ at[c] = "durable"
  /\ Goto(c, IF manifest /\ op[c] = "delete" THEN "remove" ELSE "end")
  /\ UNCHANGED <<registryVars, hostVars, op, tgt, fresh, settled, mishaps, faults>>
-----------------------------------------------------------------------------
(* step_with_resurrection.                                                 *)

(* rl_step_wait is answered: by the worker, or by an engine that has none  *)
(* ("episode not started"), which ends the request all the same.           *)
StepAnswered(c) ==
  /\ at[c] \in {"call", "recall"}
  /\ vmState[tgt[c]] \in {"lent", "idle", "zombie"}
  /\ Goto(c, "end")
  /\ UNCHANGED <<registryVars, hostVars, op, tgt, fresh, settled, mishaps, faults>>

(* {:error, :vm_down}, :not_found or engine_died: the first call leads to  *)
(* a resurrection, the second one ends the request.                        *)
StepFails(c) ==
  /\ at[c] \in {"call", "recall"}
  /\ vmState[tgt[c]] \in {"down", "gone"}
  /\ Goto(c, IF at[c] = "call" THEN "claim" ELSE "end")
  /\ UNCHANGED <<registryVars, hostVars, op, tgt, fresh, settled, mishaps, faults>>

(* {:error, :timeout}: the worker is slow, not dead.                       *)
StepTimeout(c) ==
  /\ at[c] \in {"call", "recall"}
  /\ vmState[tgt[c]] \in {"lent", "idle", "zombie"}
  /\ Fault("step_timeout")
  /\ mishaps' = mishaps \cup {"step_timeout"}
  /\ Goto(c, IF at[c] = "call" THEN "claim" ELSE "end")
  /\ UNCHANGED <<registryVars, hostVars, op, tgt, fresh, settled>>
-----------------------------------------------------------------------------
(* resurrect_episode.                                                      *)

(* Mutant: a claim is granted whatever `restoring` says.                   *)
ClaimAlways(c) ==
  /\ at[c] = "claim"
  /\ restoring' = TRUE
  /\ Goto(c, "fetch")
  /\ Crossing(c)
  /\ UNCHANGED <<route, dets, casts, hostVars, op, tgt, fresh, settled, faults>>

(* claim_restore answers :ok; the request does not look at the route again.*)
ClaimRestore(c) ==
  /\ at[c] = "claim"
  /\ ~restoring
  /\ restoring' = TRUE
  /\ Goto(c, "fetch")
  /\ Crossing(c)
  /\ UNCHANGED <<route, dets, casts, hostVars, op, tgt, fresh, settled, faults>>

(* ... :in_progress.                                                       *)
ClaimInProgress(c) ==
  /\ at[c] = "claim"
  /\ restoring
  /\ Goto(c, "wait")
  /\ UNCHANGED <<registryVars, hostVars, op, tgt, fresh, settled, mishaps, faults>>

(* wait_loop: any route ends the wait, the dead one included; ...          *)
WaitFound(c) ==
  /\ at[c] = "wait"
  /\ route # NoVM
  /\ tgt' = [tgt EXCEPT ![c] = route]
  /\ fresh' = fresh \cup {c}
  /\ Goto(c, "recall")
  /\ UNCHANGED <<registryVars, hostVars, op, settled, mishaps, faults>>

(* ... without one the request polls until its deadline.                   *)
WaitDeadline(c) ==
  /\ at[c] = "wait"
  /\ route = NoVM
  /\ Goto(c, "end")
  /\ UNCHANGED <<registryVars, hostVars, op, tgt, fresh, settled, mishaps, faults>>

(* EpisodeStore.fetch_settings.                                            *)
FetchSettings(c) ==
  /\ at[c] = "fetch"
  /\ Goto(c, IF manifest THEN "acquire" ELSE "unrestored")
  /\ UNCHANGED <<registryVars, hostVars, op, tgt, fresh, settled, mishaps, faults>>

(* Pool.acquire: an idle VM, or a new one.                                 *)
AcquireVM(c) ==
  /\ at[c] = "acquire"
  /\ \E v \in VMs :
       /\ vmState[v] = "idle"
       /\ vmState' = [vmState EXCEPT ![v] = "lent"]
       /\ tgt' = [tgt EXCEPT ![c] = v]
  /\ Goto(c, "execute")
  /\ UNCHANGED <<registryVars, worker, manifest, op, fresh, settled, mishaps, faults>>

(* ... or the cap is reached, no VM starts, or the pipeline refuses.       *)
AcquireFails(c) ==
  /\ at[c] = "acquire"
  /\ Fault("acquire") \/ ((\A v \in VMs : vmState[v] # "idle") /\ UNCHANGED faults)
  /\ Goto(c, "unrestored")
  /\ UNCHANGED <<registryVars, hostVars, op, tgt, fresh, settled, mishaps>>

(* execute_and_wait succeeds: rl::start writes the manifest and starts a   *)
(* worker.                                                                 *)
StartWorker(c) ==
  /\ at[c] = "execute"
  /\ vmState[tgt[c]] = "lent"
  /\ worker' = worker \cup {tgt[c]}
  /\ manifest' = TRUE
  /\ Goto(c, "insert")
  /\ UNCHANGED <<registryVars, vmState, op, tgt, fresh, settled, mishaps, faults>>

(* It fails, because the engine says so or died: Pool.release.  For a dead *)
(* engine the release races with vm_dead for the VM's pool row.            *)
StartFails(c) ==
  /\ at[c] = "execute"
  /\ \/ /\ vmState[tgt[c]] = "lent"
        /\ Fault("execute")
        /\ vmState' = [vmState EXCEPT ![tgt[c]] = "idle"]
     \/ /\ vmState[tgt[c]] # "lent"
        /\ \E s \in {vmState[tgt[c]], "idle"} : vmState' = [vmState EXCEPT ![tgt[c]] = s]
        /\ UNCHANGED faults
  /\ Goto(c, "unrestored")
  /\ UNCHANGED <<registryVars, worker, manifest, op, tgt, fresh, settled, mishaps>>

(* It times out and the VM is released, but the engine does start the      *)
(* worker.                                                                 *)
StartsLate(c) ==
  /\ at[c] = "execute"
  /\ vmState[tgt[c]] = "lent"
  /\ Fault("late_start")
  /\ worker' = worker \cup {tgt[c]}
  /\ manifest' = TRUE
  /\ vmState' = [vmState EXCEPT ![tgt[c]] = "idle"]
  /\ mishaps' = mishaps \cup {"late_start"}
  /\ Goto(c, "unrestored")
  /\ UNCHANGED <<registryVars, op, tgt, fresh, settled>>

(* register/5: the ETS row, ...                                            *)
InsertRoute(c) ==
  /\ at[c] = "insert"
  /\ route' = tgt[c] /\ fresh' = {}
  /\ Crossing(c)
  /\ Goto(c, "persist")
  /\ UNCHANGED <<dets, casts, restoring, hostVars, op, tgt, settled, faults>>

(* ... then the cast for the DETS copy.                                    *)
CastPersist(c) ==
  /\ at[c] = "persist"
  /\ casts' = Append(casts, tgt[c])
  /\ Goto(c, "restored")
  /\ UNCHANGED <<route, dets, restoring, hostVars, op, tgt, fresh, settled, mishaps, faults>>

(* Mutant: a failed restore ends without restore_done (no `after`).        *)
RestoreDoneOnSuccess(c) ==
  /\ at[c] \in {"restored", "unrestored"}
  /\ restoring' = (restoring /\ at[c] = "unrestored")
  /\ Goto(c, IF at[c] = "restored" THEN "recall" ELSE "end")
  /\ UNCHANGED <<route, dets, casts, hostVars, op, tgt, fresh, settled, mishaps, faults>>

(* restore_done, whoever's claim it is; then the step is sent again.       *)
RestoreDone(c) ==
  /\ at[c] \in {"restored", "unrestored"}
  /\ restoring' = FALSE
  /\ Goto(c, IF at[c] = "restored" THEN "recall" ELSE "end")
  /\ UNCHANGED <<route, dets, casts, hostVars, op, tgt, fresh, settled, mishaps, faults>>
-----------------------------------------------------------------------------
(* pause and delete: release_episode_vm.                                   *)

(* pause checkpoints first; the outcome is ignored.                        *)
Snapshot(c) ==
  /\ at[c] = "snapshot"
  /\ Goto(c, "settings")
  /\ UNCHANGED <<registryVars, hostVars, op, tgt, fresh, settled, mishaps, faults>>

(* lookup_settings: nil when another request has forgotten the route.      *)
LookupSettings(c) ==
  /\ at[c] = "settings"
  /\ settled' = [settled EXCEPT ![c] = route # NoVM]
  /\ Goto(c, "forget")
  /\ UNCHANGED <<registryVars, hostVars, op, tgt, fresh, mishaps, faults>>

(* forget/1: the ETS row, ...                                              *)
ForgetRoute(c) ==
  /\ at[c] = "forget"
  /\ route' = NoVM /\ fresh' = {}
  /\ Crossing(c)
  /\ Goto(c, "unpersist")
  /\ UNCHANGED <<dets, casts, restoring, hostVars, op, tgt, settled, faults>>

(* Mutant: the DETS copy is left alone.                                    *)
NoUnpersist(c) ==
  /\ at[c] = "unpersist"
  /\ Goto(c, "close")
  /\ UNCHANGED <<registryVars, hostVars, op, tgt, fresh, settled, mishaps, faults>>

(* ... then the cast for the DETS copy.                                    *)
CastUnpersist(c) ==
  /\ at[c] = "unpersist"
  /\ casts' = Append(casts, NoVM)
  /\ Goto(c, "close")
  /\ UNCHANGED <<route, dets, restoring, hostVars, op, tgt, fresh, settled, mishaps, faults>>

(* Mutant: the VM goes back to the pool with its worker.                   *)
ReleaseUnclosed(c) ==
  /\ at[c] = "close" /\ settled[c]
  /\ vmState[tgt[c]] \in {"lent", "idle", "zombie"}
  /\ vmState' = [vmState EXCEPT ![tgt[c]] = "idle"]
  /\ Goto(c, IF op[c] = "delete" THEN "remove" ELSE "end")
  /\ UNCHANGED <<registryVars, worker, manifest, op, tgt, fresh, settled, mishaps, faults>>

(* rl_close_wait is acknowledged: Pool.release.                            *)
CloseAndRelease(c) ==
  /\ at[c] = "close" /\ settled[c]
  /\ vmState[tgt[c]] \in {"lent", "idle", "zombie"}
  /\ worker' = worker \ {tgt[c]}
  /\ vmState' = [vmState EXCEPT ![tgt[c]] = "idle"]
  /\ Goto(c, IF op[c] = "delete" THEN "remove" ELSE "end")
  /\ UNCHANGED <<registryVars, manifest, op, tgt, fresh, settled, mishaps, faults>>

(* ... or there are no settings or no answer in time: stop_vm and vm_dead. *)
(* A server between its crash and its restart may not be found.            *)
CloseByStop(c) ==
  /\ at[c] = "close"
  /\ \/ vmState' = [vmState EXCEPT ![tgt[c]] = "gone"]
     \/ vmState[tgt[c]] = "down" /\ UNCHANGED vmState
  /\ worker' = worker \ {tgt[c]}
  /\ Goto(c, IF op[c] = "delete" THEN "remove" ELSE "end")
  /\ UNCHANGED <<registryVars, manifest, op, tgt, fresh, settled, mishaps, faults>>

(* EpisodeStore.remove_episode.                                            *)
RemoveEpisode(c) ==
  /\ at[c] = "remove"
  /\ manifest' = FALSE
  /\ Goto(c, "end")
  /\ UNCHANGED <<registryVars, vmState, worker, op, tgt, fresh, settled, mishaps, faults>>
-----------------------------------------------------------------------------
(* The registry's GenServer, the engines and the node.                     *)

(* handle_cast :persist and :unpersist, in the order they came.            *)
HandleCast ==
  /\ casts # << >>
  /\ dets' = Head(casts)
  /\ casts' = Tail(casts)
  /\ UNCHANGED <<route, restoring, hostVars, clientVars, mishaps, faults>>

(* {:restore_timeout, eid}: the claim's TTL ran out, its owner still works.*)
RestoreTimeout ==
  /\ restoring
  /\ Fault("ttl")
  /\ restoring' = FALSE
  /\ mishaps' = mishaps \cup {"ttl"}
  /\ UNCHANGED <<route, dets, casts, hostVars, clientVars>>

(* Mutant: the worker outlives its engine.                                 *)
EngineCrashOnly(v) ==
  /\ vmState[v] = "lent"
  /\ Fault("crash")
  /\ vmState' = [vmState EXCEPT ![v] = "down"]
  /\ UNCHANGED <<registryVars, worker, manifest, clientVars, mishaps>>

(* The engine dies and takes its worker along; vm_dead frees the slot, ... *)
EngineCrash(v) ==
  /\ vmState[v] = "lent"
  /\ Fault("crash")
  /\ vmState' = [vmState EXCEPT ![v] = "down"]
  /\ worker' = worker \ {v}
  /\ UNCHANGED <<registryVars, manifest, clientVars, mishaps>>

(* ... and the supervisor starts the server again under the same vm_id.    *)
ServerRestart(v) ==
  /\ vmState[v] = "down"
  /\ vmState' = [vmState EXCEPT ![v] = "zombie"]
  /\ UNCHANGED <<registryVars, worker, manifest, clientVars, mishaps, faults>>

(* The orchestrator restarts: requests, VMs and queued casts are gone, the *)
(* routes come back from DETS (closed with its owner, so complete).        *)
NodeRestart ==
  /\ Fault("restart")
  /\ route' = dets /\ fresh' = {} /\ casts' = << >> /\ restoring' = FALSE
  /\ vmState' = [v \in VMs |-> IF vmState[v] = "idle" THEN "idle" ELSE "gone"]
  /\ worker' = {}
  /\ at' = [c \in Clients |-> IF at[c] = "new" THEN "new" ELSE "end"]
  /\ UNCHANGED <<dets, manifest, op, tgt, settled, mishaps>>
-----------------------------------------------------------------------------
StepRequest(c) ==
  \/ StepAnswered(c) \/ StepFails(c)
  \/ ClaimRestore(c) \/ ClaimInProgress(c) \/ WaitFound(c) \/ WaitDeadline(c)
  \/ FetchSettings(c) \/ AcquireVM(c) \/ AcquireFails(c) \/ StartWorker(c) \/ StartFails(c)
  \/ InsertRoute(c) \/ CastPersist(c) \/ RestoreDone(c)

TeardownRequest(c) ==
  \/ LookupDurable(c) \/ Snapshot(c) \/ LookupSettings(c) \/ ForgetRoute(c) \/ CastUnpersist(c)
  \/ CloseAndRelease(c) \/ CloseByStop(c) \/ RemoveEpisode(c)

RequestStep(c) == Resolve(c) \/ StepRequest(c) \/ TeardownRequest(c)

EpisodesNext ==
  \/ \E c \in Clients : Begin(c) \/ RequestStep(c) \/ StepTimeout(c) \/ StartsLate(c)
  \/ HandleCast \/ RestoreTimeout
  \/ \E v \in VMs : EngineCrash(v) \/ ServerRestart(v)
  \/ NodeRestart

EpisodesSpec == EpisodesInit /\ [][EpisodesNext]_episodeVars

(* A request that began runs on: each of its calls is answered, fails or   *)
(* times out.                                                              *)
FairEpisodesSpec ==
  EpisodesSpec /\ \A c \in Clients : WF_episodeVars(RequestStep(c))
-----------------------------------------------------------------------------
(* Every variable has its type, and a worker lives only on a VM whose      *)
(* engine does (the engine's death takes its worker along).                *)
EpisodesTypeOK ==
  /\ route \in VMs \cup {NoVM} /\ dets \in VMs \cup {NoVM}
  /\ casts \in Seq(VMs \cup {NoVM})
  /\ restoring \in BOOLEAN /\ manifest \in BOOLEAN
  /\ vmState \in [VMs -> {"idle", "lent", "down", "zombie", "gone"}]
  /\ worker \subseteq {v \in VMs : vmState[v] \in {"lent", "idle"}}
  /\ at \in [Clients -> Places] /\ op \in [Clients -> Ops]
  /\ tgt \in [Clients -> VMs \cup {NoVM}] /\ fresh \subseteq Clients
  /\ settled \in [Clients -> BOOLEAN]
  /\ mishaps \subseteq {"crossed", "step_timeout", "late_start", "ttl"}
  /\ faults \in Nat

(* Until a claim's TTL runs out under its owner, at most one request       *)
(* restores the episode, and the registry knows that it does               *)
(* (claim_restore's "exclusive restore rights").                           *)
RestoreExclusive ==
  "ttl" \notin mishaps =>
    /\ \A c, d \in Clients : Restoring(c) /\ Restoring(d) => c = d
    /\ (\E c \in Clients : Restoring(c)) => restoring

(* While no request acted on a route that had changed since it read it or  *)
(* was being changed, and no timeout hid a worker: the episode has at most *)
(* one worker, and a VM lent to it is reachable, by the route or by a      *)
(* request at work on it (the resurrection and the teardown of             *)
(* rl_controller.ex).                                                      *)
OneWorker ==
  mishaps = {} =>
    /\ Cardinality(worker) <= 1
    /\ \A v \in VMs : vmState[v] = "lent" =>
         route = v \/ \E c \in Clients : at[c] # "end" /\ tgt[c] = v

(* Under the same condition the DETS copy follows the route: once the      *)
(* casts are handled and no request is between its ETS write and its cast, *)
(* a restart would bring back the same route (register/5, forget/1).       *)
DurableRoute ==
  mishaps = {} /\ casts = << >> /\ (\A c \in Clients : at[c] \notin {"persist", "unpersist"})
    => dets = route

(* A claim is always given back, however its owner's restore ends, so that *)
(* a later step can restore the episode (the `after` of resurrect_episode).*)
ClaimReturned == restoring ~> ~restoring

(* "concurrent steps racing on a dead VM don't spawn duplicate replacement *)
(* VMs" (EpisodeRegistry): never two workers of one episode.               *)
NoDuplicateWorker == Cardinality(worker) <= 1
=============================================================================
