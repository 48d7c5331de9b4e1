----------------------------- MODULE Admission ------------------------------
(***************************************************************************)
(* The two budgets of a workspace together, as its requests meet them: the *)
(* RateLimit plug takes a token for every POST, PUT and DELETE except the  *)
(* stepping endpoints, and Pool.Manager.acquire then reserves a slot.  A   *)
(* step that must resurrect a lost episode reserves without a token.       *)
(***************************************************************************)
EXTENDS QuotaTracker, RateLimiter

VARIABLE passed   \* requests the plug let through, not yet at reserve/1

admissionVars == <<in_flight, slot, clock, tokens, last_ts, opened, granted, passed>>

AdmissionInit == QuotaInit /\ RateInit /\ passed = {}

(* RateLimit.check: a token was left.                                      *)
PassRateLimit(r) ==
  /\ slot[r] = "none" /\ r \notin passed
  /\ TakeToken
  /\ passed' = passed \cup {r}
  /\ UNCHANGED quotaVars

(* RateLimit.check: 429, the connection is halted.                         *)
HaltRequest(r) ==
  /\ slot[r] = "none" /\ r \notin passed
  /\ RateLimited
  /\ UNCHANGED <<in_flight, slot, passed>>

(* A request the plug let through reserves.                                *)
Reserve(r) ==
  /\ r \in passed
  /\ ReserveBump(r)
  /\ passed' = passed \ {r}
  /\ UNCHANGED rateVars

(* hot_path?: RL step and steps reach reserve/1 (to resurrect an episode)  *)
(* with no token taken.                                                    *)
HotPathReserve(r) ==
  /\ r \notin passed
  /\ ReserveBump(r)
  /\ UNCHANGED <<rateVars, passed>>

SlotStep(r) ==
  /\ ReserveUndo(r) \/ BalancedRelease(r)
  /\ UNCHANGED <<rateVars, passed>>

BucketStep ==
  /\ Tick \/ OpenWindow
  /\ UNCHANGED <<quotaVars, passed>>

AdmissionNext ==
  \/ \E r \in Requests :
       \/ PassRateLimit(r)
       \/ HaltRequest(r)
       \/ Reserve(r)
       \/ HotPathReserve(r)
       \/ SlotStep(r)
  \/ BucketStep

AdmissionSpec == AdmissionInit /\ [][AdmissionNext]_admissionVars
=============================================================================
