--------------------------- MODULE EpisodesProofs ---------------------------
(***************************************************************************)
(* Proofs about Episodes, for every set of requests and VMs.               *)
(*                                                                         *)
(* RestoreExclusive is inductive with the types.  OneWorker and            *)
(* DurableRoute are about runs without a mishap, and rest on what such a   *)
(* run keeps true of the requests between their read of the route and      *)
(* their write (Calm): the VM a fresh request means is the route, a VM     *)
(* lent to the episode is the route or in the hands of one request, and    *)
(* whoever restores the episode found its last worker dead.                *)
(***************************************************************************)
EXTENDS Episodes, SequenceTheorems, FiniteSetTheorems, TLAPS

(* Where a request has a VM to call or to hand on.                         *)
HasTarget ==
  {"call", "recall", "execute", "insert", "persist", "restored", "snapshot", "settings",
   "forget", "unpersist", "close"}

Targets == \A c \in Clients : at[c] \in HasTarget => tgt[c] \in VMs

EpisodesShape == EpisodesTypeOK /\ Targets
-----------------------------------------------------------------------------
Writing == {"persist", "unpersist", "close"}    \* wrote the row, not done yet
Closing == {"unpersist", "close"}               \* took the route's VM away
Starting == {"execute", "insert"}               \* acquired a VM, not yet the route
Lent(v) == v \in VMs /\ vmState[v] = "lent"

(* At most one request is between its write of the row and its end, and    *)
(* the row says what it wrote.                                             *)
OneWriter ==
  /\ \A c, d \in Clients : at[c] \in Writing /\ at[d] \in Writing => c = d
  /\ \A c \in Clients : at[c] \in Closing => route = NoVM
  /\ \A c \in Clients : at[c] = "persist" => route = tgt[c]

(* The VM that a request means is the route, if nobody wrote it since.     *)
FreshTargets ==
  \A c \in fresh : at[c] \in {"call", "claim", "snapshot", "settings", "forget"} => tgt[c] = route

(* A VM lent to the episode is reached through the route or a request.     *)
LentReached ==
  \A v \in VMs : Lent(v) =>
    route = v \/ \E c \in Clients : at[c] \in Starting \cup Closing /\ tgt[c] = v

(* Who claims found the route's VM dead; while it restores, no VM of the   *)
(* route is lent unless it is the one it acquired itself.                  *)
DeadRoute ==
  \A c \in fresh : Lent(route) =>
    /\ at[c] = "claim" => \E e \in Clients : at[e] \in Starting /\ tgt[e] = route
    /\ at[c] \notin {"fetch", "acquire"}
    /\ at[c] \in Starting => tgt[c] = route

(* A worker lives on a lent VM, and a restore starts without one.          *)
WorkerPlaced ==
  /\ \A v \in worker : Lent(v)
  /\ \A c \in Clients : at[c] \in {"fetch", "acquire", "execute"} => worker = {}
  /\ \A c \in Clients : at[c] = "insert" => worker \subseteq {tgt[c]}

(* What DETS will hold once the queued casts are handled.                  *)
LastCast == IF casts = << >> THEN dets ELSE casts[Len(casts)]
CastsFollow == (\A c \in Clients : at[c] \notin {"persist", "unpersist"}) => LastCast = route

Calm == OneWriter /\ FreshTargets /\ LentReached /\ DeadRoute /\ WorkerPlaced /\ CastsFollow

EpisodesInv == EpisodesShape /\ RestoreExclusive /\ (mishaps = {} => Calm)
-----------------------------------------------------------------------------
USE NoVMAssumption
    DEF registryVars, hostVars, clientVars, Goto, Fault, Crossing, Places, HasTarget

(* Every step keeps the types, and that a request with a VM to call has one. *)
LEMMA NextKeepsShape ==
  ASSUME EpisodesShape, [EpisodesNext]_episodeVars
  PROVE  EpisodesShape'
<1> USE OpsAssumption DEF EpisodesShape, EpisodesTypeOK, Targets
<1>1. ASSUME NEW c \in Clients, Begin(c) PROVE EpisodesShape'
  BY <1>1 DEF Begin
<1>2. ASSUME NEW c \in Clients, Resolve(c) PROVE EpisodesShape'
  BY <1>2 DEF Resolve
<1>3. ASSUME NEW c \in Clients, LookupDurable(c) PROVE EpisodesShape'
  BY <1>3 DEF LookupDurable
<1>4. ASSUME NEW c \in Clients, StepAnswered(c) PROVE EpisodesShape'
  BY <1>4 DEF StepAnswered
<1>5. ASSUME NEW c \in Clients, StepFails(c) PROVE EpisodesShape'
  BY <1>5 DEF StepFails
<1>6. ASSUME NEW c \in Clients, StepTimeout(c) PROVE EpisodesShape'
  BY <1>6 DEF StepTimeout
<1>7. ASSUME NEW c \in Clients, ClaimRestore(c) PROVE EpisodesShape'
  BY <1>7 DEF ClaimRestore
<1>8. ASSUME NEW c \in Clients, ClaimInProgress(c) PROVE EpisodesShape'
  BY <1>8 DEF ClaimInProgress
<1>9. ASSUME NEW c \in Clients, WaitFound(c) PROVE EpisodesShape'
  BY <1>9 DEF WaitFound
<1>10. ASSUME NEW c \in Clients, WaitDeadline(c) PROVE EpisodesShape'
  BY <1>10 DEF WaitDeadline
<1>11. ASSUME NEW c \in Clients, FetchSettings(c) PROVE EpisodesShape'
  BY <1>11 DEF FetchSettings
<1>12. ASSUME NEW c \in Clients, AcquireVM(c) PROVE EpisodesShape'
  BY <1>12 DEF AcquireVM
<1>13. ASSUME NEW c \in Clients, AcquireFails(c) PROVE EpisodesShape'
  BY <1>13 DEF AcquireFails
<1>14. ASSUME NEW c \in Clients, StartWorker(c) PROVE EpisodesShape'
  BY <1>14 DEF StartWorker
<1>15. ASSUME NEW c \in Clients, StartFails(c) PROVE EpisodesShape'
  BY <1>15 DEF StartFails
<1>16. ASSUME NEW c \in Clients, StartsLate(c) PROVE EpisodesShape'
  BY <1>16 DEF StartsLate
<1>17. ASSUME NEW c \in Clients, InsertRoute(c) PROVE EpisodesShape'
  BY <1>17 DEF InsertRoute
<1>18. ASSUME NEW c \in Clients, CastPersist(c) PROVE EpisodesShape'
  BY <1>18 DEF CastPersist
<1>19. ASSUME NEW c \in Clients, RestoreDone(c) PROVE EpisodesShape'
  BY <1>19 DEF RestoreDone
<1>20. ASSUME NEW c \in Clients, Snapshot(c) PROVE EpisodesShape'
  BY <1>20 DEF Snapshot
<1>21. ASSUME NEW c \in Clients, LookupSettings(c) PROVE EpisodesShape'
  BY <1>21 DEF LookupSettings
<1>22. ASSUME NEW c \in Clients, ForgetRoute(c) PROVE EpisodesShape'
  BY <1>22 DEF ForgetRoute
<1>23. ASSUME NEW c \in Clients, CastUnpersist(c) PROVE EpisodesShape'
  BY <1>23 DEF CastUnpersist
<1>24. ASSUME NEW c \in Clients, CloseAndRelease(c) PROVE EpisodesShape'
  BY <1>24 DEF CloseAndRelease
<1>25. ASSUME NEW c \in Clients, CloseByStop(c) PROVE EpisodesShape'
  BY <1>25 DEF CloseByStop
<1>26. ASSUME NEW c \in Clients, RemoveEpisode(c) PROVE EpisodesShape'
  BY <1>26 DEF RemoveEpisode
<1>27. ASSUME NEW v \in VMs, EngineCrash(v) PROVE EpisodesShape'
  BY <1>27 DEF EngineCrash
<1>28. ASSUME NEW v \in VMs, ServerRestart(v) PROVE EpisodesShape'
  BY <1>28 DEF ServerRestart
<1>29. CASE HandleCast
  BY <1>29 DEF HandleCast
<1>30. CASE RestoreTimeout
  <2>1. restoring' = FALSE /\ faults' \in Nat
        /\ mishaps' \subseteq {"crossed", "step_timeout", "late_start", "ttl"}
    BY <1>30 DEF RestoreTimeout
  <2> QED
    BY <1>30, <2>1 DEF RestoreTimeout
<1>31. CASE NodeRestart
  <2>1. /\ vmState' \in [VMs -> {"idle", "lent", "down", "zombie", "gone"}] /\ worker' = {}
        /\ route' \in VMs \cup {NoVM} /\ casts' \in Seq(VMs \cup {NoVM}) /\ restoring' = FALSE
        /\ faults' \in Nat
    BY <1>31 DEF NodeRestart
  <2>2. at' \in [Clients -> Places] /\ \A c \in Clients : at'[c] \in {"new", "end"}
    BY <1>31 DEF NodeRestart
  <2>3. Targets'
    BY <2>2
  <2> QED
    BY <1>31, <2>1, <2>2, <2>3 DEF NodeRestart
<1>32. CASE UNCHANGED episodeVars
  BY <1>32 DEF episodeVars
<1> HIDE DEF EpisodesShape
<1> QED
  BY <1>1, <1>2, <1>3, <1>4, <1>5, <1>6, <1>7, <1>8, <1>9, <1>10, <1>11, <1>12, <1>13, <1>14,
     <1>15, <1>16, <1>17, <1>18, <1>19, <1>20, <1>21, <1>22, <1>23, <1>24, <1>25, <1>26, <1>27,
     <1>28, <1>29, <1>30, <1>31, <1>32
  DEF EpisodesNext, RequestStep, StepRequest, TeardownRequest

(* Every step keeps the claim exclusive.                                   *)
LEMMA NextKeepsExclusive ==
  ASSUME EpisodesShape, RestoreExclusive, [EpisodesNext]_episodeVars
  PROVE  RestoreExclusive'
<1> USE DEF EpisodesShape, EpisodesTypeOK, RestoreExclusive, Restoring
<1>1. ASSUME NEW c \in Clients, Begin(c) PROVE RestoreExclusive'
  BY <1>1 DEF Begin
<1>2. ASSUME NEW c \in Clients, Resolve(c) PROVE RestoreExclusive'
  <2>1. \A d \in Clients : Restoring(d)' => Restoring(d)
    BY <1>2, OpsAssumption DEF Resolve
  <2> QED
    BY <1>2, <2>1 DEF Resolve
<1>3. ASSUME NEW c \in Clients, LookupDurable(c) PROVE RestoreExclusive'
  BY <1>3 DEF LookupDurable
<1>4. ASSUME NEW c \in Clients, StepAnswered(c) PROVE RestoreExclusive'
  BY <1>4 DEF StepAnswered
<1>5. ASSUME NEW c \in Clients, StepFails(c) PROVE RestoreExclusive'
  BY <1>5 DEF StepFails
<1>6. ASSUME NEW c \in Clients, StepTimeout(c) PROVE RestoreExclusive'
  BY <1>6 DEF StepTimeout
<1>7. ASSUME NEW c \in Clients, ClaimRestore(c) PROVE RestoreExclusive'
  BY <1>7 DEF ClaimRestore
<1>8. ASSUME NEW c \in Clients, ClaimInProgress(c) PROVE RestoreExclusive'
  BY <1>8 DEF ClaimInProgress
<1>9. ASSUME NEW c \in Clients, WaitFound(c) PROVE RestoreExclusive'
  BY <1>9 DEF WaitFound
<1>10. ASSUME NEW c \in Clients, WaitDeadline(c) PROVE RestoreExclusive'
  BY <1>10 DEF WaitDeadline
<1>11. ASSUME NEW c \in Clients, FetchSettings(c) PROVE RestoreExclusive'
  BY <1>11 DEF FetchSettings
<1>12. ASSUME NEW c \in Clients, AcquireVM(c) PROVE RestoreExclusive'
  BY <1>12 DEF AcquireVM
<1>13. ASSUME NEW c \in Clients, AcquireFails(c) PROVE RestoreExclusive'
  BY <1>13 DEF AcquireFails
<1>14. ASSUME NEW c \in Clients, StartWorker(c) PROVE RestoreExclusive'
  BY <1>14 DEF StartWorker
<1>15. ASSUME NEW c \in Clients, StartFails(c) PROVE RestoreExclusive'
  BY <1>15 DEF StartFails
<1>16. ASSUME NEW c \in Clients, StartsLate(c) PROVE RestoreExclusive'
  BY <1>16 DEF StartsLate
<1>17. ASSUME NEW c \in Clients, InsertRoute(c) PROVE RestoreExclusive'
  BY <1>17 DEF InsertRoute
<1>18. ASSUME NEW c \in Clients, CastPersist(c) PROVE RestoreExclusive'
  BY <1>18 DEF CastPersist
<1>19. ASSUME NEW c \in Clients, RestoreDone(c) PROVE RestoreExclusive'
  BY <1>19 DEF RestoreDone
<1>20. ASSUME NEW c \in Clients, Snapshot(c) PROVE RestoreExclusive'
  BY <1>20 DEF Snapshot
<1>21. ASSUME NEW c \in Clients, LookupSettings(c) PROVE RestoreExclusive'
  BY <1>21 DEF LookupSettings
<1>22. ASSUME NEW c \in Clients, ForgetRoute(c) PROVE RestoreExclusive'
  BY <1>22 DEF ForgetRoute
<1>23. ASSUME NEW c \in Clients, CastUnpersist(c) PROVE RestoreExclusive'
  BY <1>23 DEF CastUnpersist
<1>24. ASSUME NEW c \in Clients, CloseAndRelease(c) PROVE RestoreExclusive'
  BY <1>24 DEF CloseAndRelease
<1>25. ASSUME NEW c \in Clients, CloseByStop(c) PROVE RestoreExclusive'
  BY <1>25 DEF CloseByStop
<1>26. ASSUME NEW c \in Clients, RemoveEpisode(c) PROVE RestoreExclusive'
  BY <1>26 DEF RemoveEpisode
<1>27. ASSUME NEW v \in VMs, EngineCrash(v) PROVE RestoreExclusive'
  BY <1>27 DEF EngineCrash
<1>28. ASSUME NEW v \in VMs, ServerRestart(v) PROVE RestoreExclusive'
  BY <1>28 DEF ServerRestart
<1>29. CASE HandleCast
  BY <1>29 DEF HandleCast
<1>30. CASE RestoreTimeout
  BY <1>30 DEF RestoreTimeout
<1>31. CASE NodeRestart
  BY <1>31 DEF NodeRestart
<1>32. CASE UNCHANGED episodeVars
  BY <1>32 DEF episodeVars
<1> HIDE DEF RestoreExclusive
<1> QED
  BY <1>1, <1>2, <1>3, <1>4, <1>5, <1>6, <1>7, <1>8, <1>9, <1>10, <1>11, <1>12, <1>13, <1>14,
     <1>15, <1>16, <1>17, <1>18, <1>19, <1>20, <1>21, <1>22, <1>23, <1>24, <1>25, <1>26, <1>27,
     <1>28, <1>29, <1>30, <1>31, <1>32
  DEF EpisodesNext, RequestStep, StepRequest, TeardownRequest

(* Where the read of the route leads: with a route, to its VM.             *)
LEMMA ResolveGoes ==
  ASSUME EpisodesShape, NEW c \in Clients, Resolve(c)
  PROVE  \E p \in {"call", "snapshot", "settings", "claim", "durable"} :
           at' = [at EXCEPT ![c] = p] /\ (p \in {"call", "snapshot", "settings"} <=> route # NoVM)
<1>1. op[c] \in {"step", "pause", "delete"}
  BY OpsAssumption DEF EpisodesShape, EpisodesTypeOK
<1> QED
  BY <1>1 DEF Resolve

(* A cast is queued behind the others, ...                                 *)
LEMMA CastQueued ==
  ASSUME EpisodesShape, NEW v, casts' = Append(casts, v)
  PROVE  LastCast' = v
<1>1. casts \in Seq(VMs \cup {NoVM})
  BY DEF EpisodesShape, EpisodesTypeOK
<1>2. casts' # << >> /\ Len(casts') = Len(casts) + 1 /\ casts'[Len(casts) + 1] = v
  BY <1>1
<1> QED
  BY <1>2 DEF LastCast

(* ... and taking the first one does not change the last one,              *)
LEMMA TailLast ==
  ASSUME NEW S, NEW s \in Seq(S), s # << >>
  PROVE  /\ Tail(s) = << >> => s[Len(s)] = Head(s)
         /\ Tail(s) # << >> => Tail(s)[Len(Tail(s))] = s[Len(s)]
<1>1. Len(s) \in Nat /\ Len(s) >= 1 /\ Len(Tail(s)) = Len(s) - 1 /\ Tail(s) \in Seq(S)
  OBVIOUS
<1>a. Tail(s) # << >> => Len(Tail(s)) \in Nat \ {0}
  BY <1>1, EmptySeq, Zenon
<1>2. CASE Len(s) = 1
  <2>1. Tail(s) = << >>
    BY <1>1, <1>2, <1>a
  <2> QED
    BY <1>2, <2>1
<1>3. CASE Len(s) # 1
  <2>1. Len(s) > 1 /\ Len(Tail(s)) # 0 /\ Len(s) - 1 \in 1..Len(Tail(s))
    BY <1>1, <1>3
  <2>2. Tail(s) # << >>
    BY <1>1, <2>1, EmptySeq
  <2>3. Tail(s)[Len(s) - 1] = s[Len(s)]
    BY <1>1, <2>1
  <2> QED
    BY <1>1, <2>2, <2>3
<1> QED
  BY <1>2, <1>3

(* so that handling it leaves what DETS will hold as it is.                *)
LEMMA CastHandled ==
  ASSUME EpisodesShape, HandleCast
  PROVE  LastCast' = LastCast
<1>1. /\ casts \in Seq(VMs \cup {NoVM}) /\ casts # << >>
      /\ dets' = Head(casts) /\ casts' = Tail(casts)
  BY DEF EpisodesShape, EpisodesTypeOK, HandleCast
<1>2. CASE Tail(casts) = << >>
  BY <1>1, <1>2, TailLast DEF LastCast
<1>3. CASE Tail(casts) # << >>
  BY <1>1, <1>3, TailLast DEF LastCast
<1> QED
  BY <1>2, <1>3

(* The row is written by one request at a time: a second one would cross it. *)
LEMMA NextKeepsOneWriter ==
  ASSUME EpisodesShape, RestoreExclusive, Calm, [EpisodesNext]_episodeVars,
         mishaps = {}, mishaps' = {}
  PROVE  OneWriter'
<1> USE DEF EpisodesShape, EpisodesTypeOK, Targets, Calm, Writing, Closing, Starting,
            OneWriter
<1>1. ASSUME NEW c \in Clients, Begin(c) PROVE OneWriter'
  BY <1>1 DEF Begin
<1>2. ASSUME NEW c \in Clients, Resolve(c) PROVE OneWriter'
  <2>1. PICK p \in {"call", "snapshot", "settings", "claim", "durable"} :
          at' = [at EXCEPT ![c] = p] /\ (p \in {"call", "snapshot", "settings"} <=> route # NoVM)
    BY <1>2, ResolveGoes
  <2>2. /\ at[c] = "resolve" /\ tgt' = [tgt EXCEPT ![c] = route] /\ fresh' = fresh \cup {c}
        /\ UNCHANGED <<registryVars, hostVars>>
    BY <1>2 DEF Resolve
  <2> QED
    BY <2>1, <2>2
<1>3. ASSUME NEW c \in Clients, LookupDurable(c) PROVE OneWriter'
  BY <1>3 DEF LookupDurable
<1>4. ASSUME NEW c \in Clients, StepAnswered(c) PROVE OneWriter'
  BY <1>4 DEF StepAnswered
<1>5. ASSUME NEW c \in Clients, StepFails(c) PROVE OneWriter'
  BY <1>5 DEF StepFails
<1>6. ASSUME NEW c \in Clients, StepTimeout(c) PROVE OneWriter'
  BY <1>6 DEF StepTimeout
<1>7. ASSUME NEW c \in Clients, ClaimRestore(c) PROVE OneWriter'
  BY <1>7 DEF ClaimRestore
<1>8. ASSUME NEW c \in Clients, ClaimInProgress(c) PROVE OneWriter'
  BY <1>8 DEF ClaimInProgress
<1>9. ASSUME NEW c \in Clients, WaitFound(c) PROVE OneWriter'
  BY <1>9 DEF WaitFound
<1>10. ASSUME NEW c \in Clients, WaitDeadline(c) PROVE OneWriter'
  BY <1>10 DEF WaitDeadline
<1>11. ASSUME NEW c \in Clients, FetchSettings(c) PROVE OneWriter'
  BY <1>11 DEF FetchSettings
<1>12. ASSUME NEW c \in Clients, AcquireVM(c) PROVE OneWriter'
  BY <1>12 DEF AcquireVM
<1>13. ASSUME NEW c \in Clients, AcquireFails(c) PROVE OneWriter'
  BY <1>13 DEF AcquireFails
<1>14. ASSUME NEW c \in Clients, StartWorker(c) PROVE OneWriter'
  BY <1>14 DEF StartWorker
<1>15. ASSUME NEW c \in Clients, StartFails(c) PROVE OneWriter'
  BY <1>15 DEF StartFails
<1>16. ASSUME NEW c \in Clients, StartsLate(c) PROVE OneWriter'
  BY <1>16 DEF StartsLate
<1>17. ASSUME NEW c \in Clients, InsertRoute(c) PROVE OneWriter'
  BY <1>17 DEF InsertRoute
<1>18. ASSUME NEW c \in Clients, CastPersist(c) PROVE OneWriter'
  BY <1>18 DEF CastPersist
<1>19. ASSUME NEW c \in Clients, RestoreDone(c) PROVE OneWriter'
  BY <1>19 DEF RestoreDone
<1>20. ASSUME NEW c \in Clients, Snapshot(c) PROVE OneWriter'
  BY <1>20 DEF Snapshot
<1>21. ASSUME NEW c \in Clients, LookupSettings(c) PROVE OneWriter'
  BY <1>21 DEF LookupSettings
<1>22. ASSUME NEW c \in Clients, ForgetRoute(c) PROVE OneWriter'
  BY <1>22 DEF ForgetRoute
<1>23. ASSUME NEW c \in Clients, CastUnpersist(c) PROVE OneWriter'
  BY <1>23 DEF CastUnpersist
<1>24. ASSUME NEW c \in Clients, CloseAndRelease(c) PROVE OneWriter'
  BY <1>24 DEF CloseAndRelease
<1>25. ASSUME NEW c \in Clients, CloseByStop(c) PROVE OneWriter'
  BY <1>25 DEF CloseByStop
<1>26. ASSUME NEW c \in Clients, RemoveEpisode(c) PROVE OneWriter'
  BY <1>26 DEF RemoveEpisode
<1>27. ASSUME NEW v \in VMs, EngineCrash(v) PROVE OneWriter'
  BY <1>27 DEF EngineCrash
<1>28. ASSUME NEW v \in VMs, ServerRestart(v) PROVE OneWriter'
  BY <1>28 DEF ServerRestart
<1>29. CASE HandleCast
  BY <1>29 DEF HandleCast
<1>30. CASE RestoreTimeout
  BY <1>30 DEF RestoreTimeout
<1>31. CASE NodeRestart
  BY <1>31 DEF NodeRestart
<1>32. CASE UNCHANGED episodeVars
  BY <1>32 DEF episodeVars
<1> HIDE DEF OneWriter
<1> QED
  BY <1>1, <1>2, <1>3, <1>4, <1>5, <1>6, <1>7, <1>8, <1>9, <1>10, <1>11, <1>12, <1>13, <1>14,
     <1>15, <1>16, <1>17, <1>18, <1>19, <1>20, <1>21, <1>22, <1>23, <1>24, <1>25, <1>26, <1>27,
     <1>28, <1>29, <1>30, <1>31, <1>32
  DEF EpisodesNext, RequestStep, StepRequest, TeardownRequest

(* A write of the row makes every earlier read of it stale.                *)
LEMMA NextKeepsFreshTargets ==
  ASSUME EpisodesShape, RestoreExclusive, Calm, [EpisodesNext]_episodeVars,
         mishaps = {}, mishaps' = {}
  PROVE  FreshTargets'
<1> USE DEF EpisodesShape, EpisodesTypeOK, Targets, Calm, Writing, Closing, Starting,
            FreshTargets
<1>1. ASSUME NEW c \in Clients, Begin(c) PROVE FreshTargets'
  BY <1>1 DEF Begin
<1>2. ASSUME NEW c \in Clients, Resolve(c) PROVE FreshTargets'
  BY <1>2 DEF Resolve
<1>3. ASSUME NEW c \in Clients, LookupDurable(c) PROVE FreshTargets'
  BY <1>3 DEF LookupDurable
<1>4. ASSUME NEW c \in Clients, StepAnswered(c) PROVE FreshTargets'
  BY <1>4 DEF StepAnswered
<1>5. ASSUME NEW c \in Clients, StepFails(c) PROVE FreshTargets'
  BY <1>5 DEF StepFails
<1>6. ASSUME NEW c \in Clients, StepTimeout(c) PROVE FreshTargets'
  BY <1>6 DEF StepTimeout
<1>7. ASSUME NEW c \in Clients, ClaimRestore(c) PROVE FreshTargets'
  BY <1>7 DEF ClaimRestore
<1>8. ASSUME NEW c \in Clients, ClaimInProgress(c) PROVE FreshTargets'
  BY <1>8 DEF ClaimInProgress
<1>9. ASSUME NEW c \in Clients, WaitFound(c) PROVE FreshTargets'
  BY <1>9 DEF WaitFound
<1>10. ASSUME NEW c \in Clients, WaitDeadline(c) PROVE FreshTargets'
  BY <1>10 DEF WaitDeadline
<1>11. ASSUME NEW c \in Clients, FetchSettings(c) PROVE FreshTargets'
  BY <1>11 DEF FetchSettings
<1>12. ASSUME NEW c \in Clients, AcquireVM(c) PROVE FreshTargets'
  BY <1>12 DEF AcquireVM
<1>13. ASSUME NEW c \in Clients, AcquireFails(c) PROVE FreshTargets'
  BY <1>13 DEF AcquireFails
<1>14. ASSUME NEW c \in Clients, StartWorker(c) PROVE FreshTargets'
  BY <1>14 DEF StartWorker
<1>15. ASSUME NEW c \in Clients, StartFails(c) PROVE FreshTargets'
  BY <1>15 DEF StartFails
<1>16. ASSUME NEW c \in Clients, StartsLate(c) PROVE FreshTargets'
  BY <1>16 DEF StartsLate
<1>17. ASSUME NEW c \in Clients, InsertRoute(c) PROVE FreshTargets'
  BY <1>17 DEF InsertRoute
<1>18. ASSUME NEW c \in Clients, CastPersist(c) PROVE FreshTargets'
  BY <1>18 DEF CastPersist
<1>19. ASSUME NEW c \in Clients, RestoreDone(c) PROVE FreshTargets'
  BY <1>19 DEF RestoreDone
<1>20. ASSUME NEW c \in Clients, Snapshot(c) PROVE FreshTargets'
  BY <1>20 DEF Snapshot
<1>21. ASSUME NEW c \in Clients, LookupSettings(c) PROVE FreshTargets'
  BY <1>21 DEF LookupSettings
<1>22. ASSUME NEW c \in Clients, ForgetRoute(c) PROVE FreshTargets'
  BY <1>22 DEF ForgetRoute
<1>23. ASSUME NEW c \in Clients, CastUnpersist(c) PROVE FreshTargets'
  BY <1>23 DEF CastUnpersist
<1>24. ASSUME NEW c \in Clients, CloseAndRelease(c) PROVE FreshTargets'
  BY <1>24 DEF CloseAndRelease
<1>25. ASSUME NEW c \in Clients, CloseByStop(c) PROVE FreshTargets'
  BY <1>25 DEF CloseByStop
<1>26. ASSUME NEW c \in Clients, RemoveEpisode(c) PROVE FreshTargets'
  BY <1>26 DEF RemoveEpisode
<1>27. ASSUME NEW v \in VMs, EngineCrash(v) PROVE FreshTargets'
  BY <1>27 DEF EngineCrash
<1>28. ASSUME NEW v \in VMs, ServerRestart(v) PROVE FreshTargets'
  BY <1>28 DEF ServerRestart
<1>29. CASE HandleCast
  BY <1>29 DEF HandleCast
<1>30. CASE RestoreTimeout
  BY <1>30 DEF RestoreTimeout
<1>31. CASE NodeRestart
  BY <1>31 DEF NodeRestart
<1>32. CASE UNCHANGED episodeVars
  BY <1>32 DEF episodeVars
<1> HIDE DEF FreshTargets
<1> QED
  BY <1>1, <1>2, <1>3, <1>4, <1>5, <1>6, <1>7, <1>8, <1>9, <1>10, <1>11, <1>12, <1>13, <1>14,
     <1>15, <1>16, <1>17, <1>18, <1>19, <1>20, <1>21, <1>22, <1>23, <1>24, <1>25, <1>26, <1>27,
     <1>28, <1>29, <1>30, <1>31, <1>32
  DEF EpisodesNext, RequestStep, StepRequest, TeardownRequest

(* A VM changes hands with its request's step; a fresh one forgets its own. *)
LEMMA NextKeepsLentReached ==
  ASSUME EpisodesShape, RestoreExclusive, Calm, [EpisodesNext]_episodeVars,
         mishaps = {}, mishaps' = {}
  PROVE  LentReached'
<1> USE DEF EpisodesShape, EpisodesTypeOK, Targets, Calm, Writing, Closing, Starting,
            LentReached, OneWriter, FreshTargets, DeadRoute, RestoreExclusive, Restoring, Lent
<1>1. ASSUME NEW c \in Clients, Begin(c) PROVE LentReached'
  BY <1>1 DEF Begin
<1>2. ASSUME NEW c \in Clients, Resolve(c) PROVE LentReached'
  BY <1>2 DEF Resolve
<1>3. ASSUME NEW c \in Clients, LookupDurable(c) PROVE LentReached'
  BY <1>3 DEF LookupDurable
<1>4. ASSUME NEW c \in Clients, StepAnswered(c) PROVE LentReached'
  BY <1>4 DEF StepAnswered
<1>5. ASSUME NEW c \in Clients, StepFails(c) PROVE LentReached'
  BY <1>5 DEF StepFails
<1>6. ASSUME NEW c \in Clients, StepTimeout(c) PROVE LentReached'
  BY <1>6 DEF StepTimeout
<1>7. ASSUME NEW c \in Clients, ClaimRestore(c) PROVE LentReached'
  BY <1>7 DEF ClaimRestore
<1>8. ASSUME NEW c \in Clients, ClaimInProgress(c) PROVE LentReached'
  BY <1>8 DEF ClaimInProgress
<1>9. ASSUME NEW c \in Clients, WaitFound(c) PROVE LentReached'
  BY <1>9 DEF WaitFound
<1>10. ASSUME NEW c \in Clients, WaitDeadline(c) PROVE LentReached'
  BY <1>10 DEF WaitDeadline
<1>11. ASSUME NEW c \in Clients, FetchSettings(c) PROVE LentReached'
  BY <1>11 DEF FetchSettings
<1>12. ASSUME NEW c \in Clients, AcquireVM(c) PROVE LentReached'
  BY <1>12 DEF AcquireVM
<1>13. ASSUME NEW c \in Clients, AcquireFails(c) PROVE LentReached'
  BY <1>13 DEF AcquireFails
<1>14. ASSUME NEW c \in Clients, StartWorker(c) PROVE LentReached'
  BY <1>14 DEF StartWorker
<1>15. ASSUME NEW c \in Clients, StartFails(c) PROVE LentReached'
  BY <1>15 DEF StartFails
<1>16. ASSUME NEW c \in Clients, StartsLate(c) PROVE LentReached'
  BY <1>16 DEF StartsLate
<1>17. ASSUME NEW c \in Clients, InsertRoute(c) PROVE LentReached'
  BY <1>17 DEF InsertRoute
<1>18. ASSUME NEW c \in Clients, CastPersist(c) PROVE LentReached'
  BY <1>18 DEF CastPersist
<1>19. ASSUME NEW c \in Clients, RestoreDone(c) PROVE LentReached'
  BY <1>19 DEF RestoreDone
<1>20. ASSUME NEW c \in Clients, Snapshot(c) PROVE LentReached'
  BY <1>20 DEF Snapshot
<1>21. ASSUME NEW c \in Clients, LookupSettings(c) PROVE LentReached'
  BY <1>21 DEF LookupSettings
<1>22. ASSUME NEW c \in Clients, ForgetRoute(c) PROVE LentReached'
  BY <1>22 DEF ForgetRoute
<1>23. ASSUME NEW c \in Clients, CastUnpersist(c) PROVE LentReached'
  BY <1>23 DEF CastUnpersist
<1>24. ASSUME NEW c \in Clients, CloseAndRelease(c) PROVE LentReached'
  BY <1>24 DEF CloseAndRelease
<1>25. ASSUME NEW c \in Clients, CloseByStop(c) PROVE LentReached'
  BY <1>25 DEF CloseByStop
<1>26. ASSUME NEW c \in Clients, RemoveEpisode(c) PROVE LentReached'
  BY <1>26 DEF RemoveEpisode
<1>27. ASSUME NEW v \in VMs, EngineCrash(v) PROVE LentReached'
  BY <1>27 DEF EngineCrash
<1>28. ASSUME NEW v \in VMs, ServerRestart(v) PROVE LentReached'
  BY <1>28 DEF ServerRestart
<1>29. CASE HandleCast
  BY <1>29 DEF HandleCast
<1>30. CASE RestoreTimeout
  BY <1>30 DEF RestoreTimeout
<1>31. CASE NodeRestart
  BY <1>31 DEF NodeRestart
<1>32. CASE UNCHANGED episodeVars
  BY <1>32 DEF episodeVars
<1> HIDE DEF LentReached
<1> QED
  BY <1>1, <1>2, <1>3, <1>4, <1>5, <1>6, <1>7, <1>8, <1>9, <1>10, <1>11, <1>12, <1>13, <1>14,
     <1>15, <1>16, <1>17, <1>18, <1>19, <1>20, <1>21, <1>22, <1>23, <1>24, <1>25, <1>26, <1>27,
     <1>28, <1>29, <1>30, <1>31, <1>32
  DEF EpisodesNext, RequestStep, StepRequest, TeardownRequest

(* Only a restore lends a VM, and it is the only one at it.                *)
LEMMA NextKeepsDeadRoute ==
  ASSUME EpisodesShape, RestoreExclusive, Calm, [EpisodesNext]_episodeVars,
         mishaps = {}, mishaps' = {}
  PROVE  DeadRoute'
<1> USE DEF EpisodesShape, EpisodesTypeOK, Targets, Calm, Writing, Closing, Starting,
            DeadRoute, FreshTargets, RestoreExclusive, Restoring, Lent
<1>1. ASSUME NEW c \in Clients, Begin(c) PROVE DeadRoute'
  BY <1>1 DEF Begin
<1>2. ASSUME NEW c \in Clients, Resolve(c) PROVE DeadRoute'
  <2>1. PICK p \in {"call", "snapshot", "settings", "claim", "durable"} :
          at' = [at EXCEPT ![c] = p] /\ (p \in {"call", "snapshot", "settings"} <=> route # NoVM)
    BY <1>2, ResolveGoes
  <2>2. /\ at[c] = "resolve" /\ tgt' = [tgt EXCEPT ![c] = route] /\ fresh' = fresh \cup {c}
        /\ UNCHANGED <<registryVars, hostVars>>
    BY <1>2 DEF Resolve
  <2> QED
    BY <2>1, <2>2
<1>3. ASSUME NEW c \in Clients, LookupDurable(c) PROVE DeadRoute'
  BY <1>3 DEF LookupDurable
<1>4. ASSUME NEW c \in Clients, StepAnswered(c) PROVE DeadRoute'
  BY <1>4 DEF StepAnswered
<1>5. ASSUME NEW c \in Clients, StepFails(c) PROVE DeadRoute'
  BY <1>5 DEF StepFails
<1>6. ASSUME NEW c \in Clients, StepTimeout(c) PROVE DeadRoute'
  BY <1>6 DEF StepTimeout
<1>7. ASSUME NEW c \in Clients, ClaimRestore(c) PROVE DeadRoute'
  BY <1>7 DEF ClaimRestore
<1>8. ASSUME NEW c \in Clients, ClaimInProgress(c) PROVE DeadRoute'
  BY <1>8 DEF ClaimInProgress
<1>9. ASSUME NEW c \in Clients, WaitFound(c) PROVE DeadRoute'
  BY <1>9 DEF WaitFound
<1>10. ASSUME NEW c \in Clients, WaitDeadline(c) PROVE DeadRoute'
  BY <1>10 DEF WaitDeadline
<1>11. ASSUME NEW c \in Clients, FetchSettings(c) PROVE DeadRoute'
  BY <1>11 DEF FetchSettings
<1>12. ASSUME NEW c \in Clients, AcquireVM(c) PROVE DeadRoute'
  BY <1>12 DEF AcquireVM
<1>13. ASSUME NEW c \in Clients, AcquireFails(c) PROVE DeadRoute'
  BY <1>13 DEF AcquireFails
<1>14. ASSUME NEW c \in Clients, StartWorker(c) PROVE DeadRoute'
  BY <1>14 DEF StartWorker
<1>15. ASSUME NEW c \in Clients, StartFails(c) PROVE DeadRoute'
  BY <1>15 DEF StartFails
<1>16. ASSUME NEW c \in Clients, StartsLate(c) PROVE DeadRoute'
  BY <1>16 DEF StartsLate
<1>17. ASSUME NEW c \in Clients, InsertRoute(c) PROVE DeadRoute'
  BY <1>17 DEF InsertRoute
<1>18. ASSUME NEW c \in Clients, CastPersist(c) PROVE DeadRoute'
  BY <1>18 DEF CastPersist
<1>19. ASSUME NEW c \in Clients, RestoreDone(c) PROVE DeadRoute'
  BY <1>19 DEF RestoreDone
<1>20. ASSUME NEW c \in Clients, Snapshot(c) PROVE DeadRoute'
  BY <1>20 DEF Snapshot
<1>21. ASSUME NEW c \in Clients, LookupSettings(c) PROVE DeadRoute'
  BY <1>21 DEF LookupSettings
<1>22. ASSUME NEW c \in Clients, ForgetRoute(c) PROVE DeadRoute'
  BY <1>22 DEF ForgetRoute
<1>23. ASSUME NEW c \in Clients, CastUnpersist(c) PROVE DeadRoute'
  BY <1>23 DEF CastUnpersist
<1>24. ASSUME NEW c \in Clients, CloseAndRelease(c) PROVE DeadRoute'
  BY <1>24 DEF CloseAndRelease
<1>25. ASSUME NEW c \in Clients, CloseByStop(c) PROVE DeadRoute'
  BY <1>25 DEF CloseByStop
<1>26. ASSUME NEW c \in Clients, RemoveEpisode(c) PROVE DeadRoute'
  BY <1>26 DEF RemoveEpisode
<1>27. ASSUME NEW v \in VMs, EngineCrash(v) PROVE DeadRoute'
  BY <1>27 DEF EngineCrash
<1>28. ASSUME NEW v \in VMs, ServerRestart(v) PROVE DeadRoute'
  BY <1>28 DEF ServerRestart
<1>29. CASE HandleCast
  BY <1>29 DEF HandleCast
<1>30. CASE RestoreTimeout
  BY <1>30 DEF RestoreTimeout
<1>31. CASE NodeRestart
  BY <1>31 DEF NodeRestart
<1>32. CASE UNCHANGED episodeVars
  BY <1>32 DEF episodeVars
<1> HIDE DEF DeadRoute
<1> QED
  BY <1>1, <1>2, <1>3, <1>4, <1>5, <1>6, <1>7, <1>8, <1>9, <1>10, <1>11, <1>12, <1>13, <1>14,
     <1>15, <1>16, <1>17, <1>18, <1>19, <1>20, <1>21, <1>22, <1>23, <1>24, <1>25, <1>26, <1>27,
     <1>28, <1>29, <1>30, <1>31, <1>32
  DEF EpisodesNext, RequestStep, StepRequest, TeardownRequest

(* A granted claim finds no lent VM at all, hence no worker.               *)
LEMMA NextKeepsWorkerPlaced ==
  ASSUME EpisodesShape, RestoreExclusive, Calm, [EpisodesNext]_episodeVars,
         mishaps = {}, mishaps' = {}
  PROVE  WorkerPlaced'
<1> USE DEF EpisodesShape, EpisodesTypeOK, Targets, Calm, Writing, Closing, Starting,
            WorkerPlaced, OneWriter, LentReached, DeadRoute, RestoreExclusive, Restoring, Lent
<1>1. ASSUME NEW c \in Clients, Begin(c) PROVE WorkerPlaced'
  BY <1>1 DEF Begin
<1>2. ASSUME NEW c \in Clients, Resolve(c) PROVE WorkerPlaced'
  <2>1. PICK p \in {"call", "snapshot", "settings", "claim", "durable"} :
          at' = [at EXCEPT ![c] = p] /\ (p \in {"call", "snapshot", "settings"} <=> route # NoVM)
    BY <1>2, ResolveGoes
  <2>2. /\ at[c] = "resolve" /\ tgt' = [tgt EXCEPT ![c] = route] /\ fresh' = fresh \cup {c}
        /\ UNCHANGED <<registryVars, hostVars>>
    BY <1>2 DEF Resolve
  <2> QED
    BY <2>1, <2>2
<1>3. ASSUME NEW c \in Clients, LookupDurable(c) PROVE WorkerPlaced'
  BY <1>3 DEF LookupDurable
<1>4. ASSUME NEW c \in Clients, StepAnswered(c) PROVE WorkerPlaced'
  BY <1>4 DEF StepAnswered
<1>5. ASSUME NEW c \in Clients, StepFails(c) PROVE WorkerPlaced'
  BY <1>5 DEF StepFails
<1>6. ASSUME NEW c \in Clients, StepTimeout(c) PROVE WorkerPlaced'
  BY <1>6 DEF StepTimeout
<1>7. ASSUME NEW c \in Clients, ClaimRestore(c) PROVE WorkerPlaced'
  BY <1>7, SMTT(30) DEF ClaimRestore
<1>8. ASSUME NEW c \in Clients, ClaimInProgress(c) PROVE WorkerPlaced'
  BY <1>8 DEF ClaimInProgress
<1>9. ASSUME NEW c \in Clients, WaitFound(c) PROVE WorkerPlaced'
  BY <1>9 DEF WaitFound
<1>10. ASSUME NEW c \in Clients, WaitDeadline(c) PROVE WorkerPlaced'
  BY <1>10 DEF WaitDeadline
<1>11. ASSUME NEW c \in Clients, FetchSettings(c) PROVE WorkerPlaced'
  BY <1>11 DEF FetchSettings
<1>12. ASSUME NEW c \in Clients, AcquireVM(c) PROVE WorkerPlaced'
  BY <1>12 DEF AcquireVM
<1>13. ASSUME NEW c \in Clients, AcquireFails(c) PROVE WorkerPlaced'
  BY <1>13 DEF AcquireFails
<1>14. ASSUME NEW c \in Clients, StartWorker(c) PROVE WorkerPlaced'
  BY <1>14 DEF StartWorker
<1>15. ASSUME NEW c \in Clients, StartFails(c) PROVE WorkerPlaced'
  BY <1>15 DEF StartFails
<1>16. ASSUME NEW c \in Clients, StartsLate(c) PROVE WorkerPlaced'
  BY <1>16 DEF StartsLate
<1>17. ASSUME NEW c \in Clients, InsertRoute(c) PROVE WorkerPlaced'
  BY <1>17 DEF InsertRoute
<1>18. ASSUME NEW c \in Clients, CastPersist(c) PROVE WorkerPlaced'
  BY <1>18 DEF CastPersist
<1>19. ASSUME NEW c \in Clients, RestoreDone(c) PROVE WorkerPlaced'
  BY <1>19 DEF RestoreDone
<1>20. ASSUME NEW c \in Clients, Snapshot(c) PROVE WorkerPlaced'
  BY <1>20 DEF Snapshot
<1>21. ASSUME NEW c \in Clients, LookupSettings(c) PROVE WorkerPlaced'
  BY <1>21 DEF LookupSettings
<1>22. ASSUME NEW c \in Clients, ForgetRoute(c) PROVE WorkerPlaced'
  BY <1>22 DEF ForgetRoute
<1>23. ASSUME NEW c \in Clients, CastUnpersist(c) PROVE WorkerPlaced'
  BY <1>23 DEF CastUnpersist
<1>24. ASSUME NEW c \in Clients, CloseAndRelease(c) PROVE WorkerPlaced'
  BY <1>24 DEF CloseAndRelease
<1>25. ASSUME NEW c \in Clients, CloseByStop(c) PROVE WorkerPlaced'
  BY <1>25 DEF CloseByStop
<1>26. ASSUME NEW c \in Clients, RemoveEpisode(c) PROVE WorkerPlaced'
  BY <1>26 DEF RemoveEpisode
<1>27. ASSUME NEW v \in VMs, EngineCrash(v) PROVE WorkerPlaced'
  BY <1>27 DEF EngineCrash
<1>28. ASSUME NEW v \in VMs, ServerRestart(v) PROVE WorkerPlaced'
  BY <1>28 DEF ServerRestart
<1>29. CASE HandleCast
  BY <1>29 DEF HandleCast
<1>30. CASE RestoreTimeout
  BY <1>30 DEF RestoreTimeout
<1>31. CASE NodeRestart
  BY <1>31 DEF NodeRestart
<1>32. CASE UNCHANGED episodeVars
  BY <1>32 DEF episodeVars
<1> HIDE DEF WorkerPlaced
<1> QED
  BY <1>1, <1>2, <1>3, <1>4, <1>5, <1>6, <1>7, <1>8, <1>9, <1>10, <1>11, <1>12, <1>13, <1>14,
     <1>15, <1>16, <1>17, <1>18, <1>19, <1>20, <1>21, <1>22, <1>23, <1>24, <1>25, <1>26, <1>27,
     <1>28, <1>29, <1>30, <1>31, <1>32
  DEF EpisodesNext, RequestStep, StepRequest, TeardownRequest

(* The casts come in the order of the writes, so the last one is the row.  *)
LEMMA NextKeepsCastsFollow ==
  ASSUME EpisodesShape, RestoreExclusive, Calm, [EpisodesNext]_episodeVars,
         mishaps = {}, mishaps' = {}
  PROVE  CastsFollow'
<1> USE DEF EpisodesShape, EpisodesTypeOK, Targets, Calm, Writing, Closing, Starting,
            CastsFollow, OneWriter
<1>1. ASSUME NEW c \in Clients, Begin(c) PROVE CastsFollow'
  BY <1>1 DEF Begin, LastCast
<1>2. ASSUME NEW c \in Clients, Resolve(c) PROVE CastsFollow'
  <2>1. PICK p \in {"call", "snapshot", "settings", "claim", "durable"} :
          at' = [at EXCEPT ![c] = p] /\ (p \in {"call", "snapshot", "settings"} <=> route # NoVM)
    BY <1>2, ResolveGoes
  <2>2. /\ at[c] = "resolve" /\ tgt' = [tgt EXCEPT ![c] = route] /\ fresh' = fresh \cup {c}
        /\ UNCHANGED <<registryVars, hostVars>>
    BY <1>2 DEF Resolve
  <2> QED
    BY <2>1, <2>2 DEF LastCast
<1>3. ASSUME NEW c \in Clients, LookupDurable(c) PROVE CastsFollow'
  BY <1>3 DEF LookupDurable, LastCast
<1>4. ASSUME NEW c \in Clients, StepAnswered(c) PROVE CastsFollow'
  BY <1>4 DEF StepAnswered, LastCast
<1>5. ASSUME NEW c \in Clients, StepFails(c) PROVE CastsFollow'
  BY <1>5 DEF StepFails, LastCast
<1>6. ASSUME NEW c \in Clients, StepTimeout(c) PROVE CastsFollow'
  BY <1>6 DEF StepTimeout, LastCast
<1>7. ASSUME NEW c \in Clients, ClaimRestore(c) PROVE CastsFollow'
  BY <1>7 DEF ClaimRestore, LastCast
<1>8. ASSUME NEW c \in Clients, ClaimInProgress(c) PROVE CastsFollow'
  BY <1>8 DEF ClaimInProgress, LastCast
<1>9. ASSUME NEW c \in Clients, WaitFound(c) PROVE CastsFollow'
  BY <1>9 DEF WaitFound, LastCast
<1>10. ASSUME NEW c \in Clients, WaitDeadline(c) PROVE CastsFollow'
  BY <1>10 DEF WaitDeadline, LastCast
<1>11. ASSUME NEW c \in Clients, FetchSettings(c) PROVE CastsFollow'
  BY <1>11 DEF FetchSettings, LastCast
<1>12. ASSUME NEW c \in Clients, AcquireVM(c) PROVE CastsFollow'
  BY <1>12 DEF AcquireVM, LastCast
<1>13. ASSUME NEW c \in Clients, AcquireFails(c) PROVE CastsFollow'
  BY <1>13 DEF AcquireFails, LastCast
<1>14. ASSUME NEW c \in Clients, StartWorker(c) PROVE CastsFollow'
  BY <1>14 DEF StartWorker, LastCast
<1>15. ASSUME NEW c \in Clients, StartFails(c) PROVE CastsFollow'
  BY <1>15 DEF StartFails, LastCast
<1>16. ASSUME NEW c \in Clients, StartsLate(c) PROVE CastsFollow'
  BY <1>16 DEF StartsLate, LastCast
<1>17. ASSUME NEW c \in Clients, InsertRoute(c) PROVE CastsFollow'
  BY <1>17 DEF InsertRoute, LastCast
<1>18. ASSUME NEW c \in Clients, CastPersist(c) PROVE CastsFollow'
  <2>1. LastCast' = route
    BY <1>18, CastQueued DEF CastPersist
  <2> QED
    BY <1>18, <2>1 DEF CastPersist
<1>19. ASSUME NEW c \in Clients, RestoreDone(c) PROVE CastsFollow'
  BY <1>19 DEF RestoreDone, LastCast
<1>20. ASSUME NEW c \in Clients, Snapshot(c) PROVE CastsFollow'
  BY <1>20 DEF Snapshot, LastCast
<1>21. ASSUME NEW c \in Clients, LookupSettings(c) PROVE CastsFollow'
  BY <1>21 DEF LookupSettings, LastCast
<1>22. ASSUME NEW c \in Clients, ForgetRoute(c) PROVE CastsFollow'
  BY <1>22 DEF ForgetRoute, LastCast
<1>23. ASSUME NEW c \in Clients, CastUnpersist(c) PROVE CastsFollow'
  <2>1. LastCast' = route
    BY <1>23, CastQueued DEF CastUnpersist
  <2> QED
    BY <1>23, <2>1 DEF CastUnpersist
<1>24. ASSUME NEW c \in Clients, CloseAndRelease(c) PROVE CastsFollow'
  BY <1>24 DEF CloseAndRelease, LastCast
<1>25. ASSUME NEW c \in Clients, CloseByStop(c) PROVE CastsFollow'
  BY <1>25 DEF CloseByStop, LastCast
<1>26. ASSUME NEW c \in Clients, RemoveEpisode(c) PROVE CastsFollow'
  BY <1>26 DEF RemoveEpisode, LastCast
<1>27. ASSUME NEW v \in VMs, EngineCrash(v) PROVE CastsFollow'
  BY <1>27 DEF EngineCrash, LastCast
<1>28. ASSUME NEW v \in VMs, ServerRestart(v) PROVE CastsFollow'
  BY <1>28 DEF ServerRestart, LastCast
<1>29. CASE HandleCast
  <2>1. LastCast' = LastCast
    BY <1>29, CastHandled DEF HandleCast
  <2> QED
    BY <1>29, <2>1 DEF HandleCast
<1>30. CASE RestoreTimeout
  BY <1>30 DEF RestoreTimeout, LastCast
<1>31. CASE NodeRestart
  BY <1>31 DEF NodeRestart, LastCast
<1>32. CASE UNCHANGED episodeVars
  BY <1>32 DEF episodeVars, LastCast
<1> HIDE DEF CastsFollow
<1> QED
  BY <1>1, <1>2, <1>3, <1>4, <1>5, <1>6, <1>7, <1>8, <1>9, <1>10, <1>11, <1>12, <1>13, <1>14,
     <1>15, <1>16, <1>17, <1>18, <1>19, <1>20, <1>21, <1>22, <1>23, <1>24, <1>25, <1>26, <1>27,
     <1>28, <1>29, <1>30, <1>31, <1>32
  DEF EpisodesNext, RequestStep, StepRequest, TeardownRequest

-----------------------------------------------------------------------------
(* An episode as create/2 leaves it, or paused, is calm.                   *)
LEMMA InitHasEpisodesInv == EpisodesInit => EpisodesInv
<1> SUFFICES ASSUME EpisodesInit PROVE EpisodesInv
  OBVIOUS
<1>1. /\ vmState \in [VMs -> {"idle", "lent", "down", "zombie", "gone"}]
      /\ worker \subseteq {v \in VMs : vmState[v] \in {"lent", "idle"}}
      /\ casts \in Seq(VMs \cup {NoVM})
  BY DEF EpisodesInit
<1>2. EpisodesShape
  BY <1>1 DEF EpisodesInit, EpisodesShape, EpisodesTypeOK, Targets
<1>3. RestoreExclusive
  BY DEF EpisodesInit, RestoreExclusive, Restoring
<1>4. Calm
  BY DEF EpisodesInit, Calm, OneWriter, FreshTargets, LentReached, DeadRoute, WorkerPlaced,
         CastsFollow, LastCast, Lent, Writing, Closing, Starting
<1> QED
  BY <1>2, <1>3, <1>4 DEF EpisodesInv

(* What happened is not forgotten.                                         *)
LEMMA MishapsStay == [EpisodesNext]_episodeVars => mishaps \subseteq mishaps'
BY ZenonT(30) DEF EpisodesNext, RequestStep, StepRequest, TeardownRequest, episodeVars,
  Begin, Resolve, LookupDurable, StepAnswered, StepFails, StepTimeout, ClaimRestore,
  ClaimInProgress, WaitFound, WaitDeadline, FetchSettings, AcquireVM, AcquireFails, StartWorker,
  StartFails, StartsLate, InsertRoute, CastPersist, RestoreDone, Snapshot, LookupSettings,
  ForgetRoute, CastUnpersist, CloseAndRelease, CloseByStop, RemoveEpisode, EngineCrash,
  ServerRestart, HandleCast, RestoreTimeout, NodeRestart

(* EpisodesInv is an invariant of the registry and its requests.           *)
LEMMA EpisodesInvariant == EpisodesSpec => []EpisodesInv
<1>1. EpisodesInv /\ [EpisodesNext]_episodeVars => EpisodesInv'
  <2> SUFFICES ASSUME EpisodesInv, [EpisodesNext]_episodeVars PROVE EpisodesInv'
    OBVIOUS
  <2>1. EpisodesShape' /\ RestoreExclusive'
    BY NextKeepsShape, NextKeepsExclusive DEF EpisodesInv
  <2>2. ASSUME mishaps' = {} PROVE Calm'
    <3>1. mishaps = {} /\ EpisodesShape /\ RestoreExclusive /\ Calm
      BY <2>2, MishapsStay DEF EpisodesInv
    <3> QED
      BY <2>2, <3>1, NextKeepsOneWriter, NextKeepsFreshTargets, NextKeepsLentReached,
         NextKeepsDeadRoute, NextKeepsWorkerPlaced, NextKeepsCastsFollow DEF Calm
  <2> QED
    BY <2>1, <2>2 DEF EpisodesInv
<1> QED
  BY InitHasEpisodesInv, <1>1, PTL DEF EpisodesSpec

(* Routes, claims, VMs and requests keep their types, and a worker lives   *)
(* only on a VM whose engine does.                                         *)
THEOREM EpisodesTyped == EpisodesSpec => []EpisodesTypeOK
<1>1. EpisodesInv => EpisodesTypeOK
  BY DEF EpisodesInv, EpisodesShape
<1> QED
  BY EpisodesInvariant, <1>1, PTL

(* However many requests find the episode's VM dead, one at a time         *)
(* restores it (claim_restore, restore_done), until a claim's TTL runs out *)
(* under its owner.                                                        *)
THEOREM EpisodesExclusive == EpisodesSpec => []RestoreExclusive
<1>1. EpisodesInv => RestoreExclusive
  BY DEF EpisodesInv
<1> QED
  BY EpisodesInvariant, <1>1, PTL

(* All workers are on one VM: of the request that inserts, of the one that *)
(* closes, or else the route.                                              *)
LEMMA WorkersTogether ==
  ASSUME EpisodesShape, Calm
  PROVE  \E v \in VMs \cup {NoVM} : worker \subseteq {v}
<1> USE DEF EpisodesShape, EpisodesTypeOK, Targets, Calm, WorkerPlaced, LentReached, OneWriter,
            Starting, Closing, Writing, HasTarget
<1>1. CASE \E c \in Clients : at[c] \in Starting
  BY <1>1
<1>2. CASE ~ \E c \in Clients : at[c] \in Starting
  <2>1. CASE \E c \in Clients : at[c] \in Closing
    <3>1. PICK c \in Clients : at[c] \in Closing
      BY <2>1
    <3>2. \A v \in worker : v = tgt[c]
      BY <1>2, <3>1 DEF Lent
    <3> QED
      BY <3>1, <3>2
  <2>2. CASE ~ \E c \in Clients : at[c] \in Closing
    <3>1. \A v \in worker : v = route
      BY <1>2, <2>2 DEF Lent
    <3> QED
      BY <3>1
  <2> QED
    BY <2>1, <2>2
<1> QED
  BY <1>1, <1>2

(* Until a request acts on a route that was written since it read it, or a *)
(* timeout hides a worker, the episode has at most one worker and no VM    *)
(* lent to it is lost (step_with_resurrection, resurrect_episode,          *)
(* release_episode_vm).                                                    *)
THEOREM EpisodesOneWorker == EpisodesSpec => []OneWorker
<1>1. EpisodesInv => OneWorker
  <2> SUFFICES ASSUME EpisodesShape, Calm
               PROVE  /\ Cardinality(worker) <= 1
                      /\ \A v \in VMs : vmState[v] = "lent" =>
                           route = v \/ \E c \in Clients : at[c] # "end" /\ tgt[c] = v
    BY DEF EpisodesInv, OneWorker
  <2>1. Cardinality(worker) <= 1
    <3>1. PICK v \in VMs \cup {NoVM} : worker \subseteq {v}
      BY WorkersTogether
    <3>2. worker = {} \/ worker = {v}
      BY <3>1
    <3>3. Cardinality({}) = 0 /\ Cardinality({v}) = 1
      BY FS_EmptySet, FS_Singleton
    <3> QED
      BY <3>2, <3>3
  <2>2. \A v \in VMs : vmState[v] = "lent" =>
          route = v \/ \E c \in Clients : at[c] # "end" /\ tgt[c] = v
    BY DEF Calm, LentReached, Lent, Starting, Closing
  <2> QED
    BY <2>1, <2>2
<1> QED
  BY EpisodesInvariant, <1>1, PTL

(* Under the same condition the DETS copy follows the ETS row: a restart   *)
(* after the casts brings back the route (register/5, forget/1).           *)
THEOREM EpisodesDurable == EpisodesSpec => []DurableRoute
<1>1. EpisodesInv => DurableRoute
  BY DEF EpisodesInv, DurableRoute, Calm, CastsFollow, LastCast
<1> QED
  BY EpisodesInvariant, <1>1, PTL
=============================================================================
