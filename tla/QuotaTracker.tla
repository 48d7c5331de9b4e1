---------------------------- MODULE QuotaTracker ----------------------------
(***************************************************************************)
(* The concurrency budget of one workspace (lib/rockbox/quota_tracker.ex). *)
(*                                                                         *)
(* The budget is one ETS counter.  `reserve` bumps it and compares the     *)
(* value update_counter returned with the cap; a caller over the cap takes *)
(* its bump back with a second, separate update_counter.  Between the two  *)
(* the counter is too high, and every other caller sees that.              *)
(*                                                                         *)
(* `slot` is where each caller stands, not a table of the program: the     *)
(* caller has no reservation, has bumped the counter past the cap and not  *)
(* yet undone it, or was admitted and owes a release.                      *)
(***************************************************************************)
EXTENDS Integers, FiniteSets

CONSTANTS
  Requests,   \* the callers that may reserve at the same time
  Cap         \* workspace_concurrency_default

ASSUME RequestsAssumption == IsFiniteSet(Requests)
ASSUME CapAssumption == Cap \in Nat

VARIABLES
  in_flight,  \* the {:in_flight, workspace} counter
  slot        \* what each caller's reservation is

quotaVars == <<in_flight, slot>>

SlotStates == {"none", "over", "admitted"}

Reserved == {r \in Requests : slot[r] # "none"}
Admitted == {r \in Requests : slot[r] = "admitted"}
-----------------------------------------------------------------------------
QuotaInit ==
  /\ in_flight = 0
  /\ slot = [r \in Requests |-> "none"]

(* Mutant: the value before the bump is compared with the cap.             *)
ReserveBumpStale(r) ==
  /\ slot[r] = "none"
  /\ in_flight' = in_flight + 1
  /\ slot' = [slot EXCEPT ![r] = IF in_flight > Cap THEN "over" ELSE "admitted"]

(* reserve/1: the atomic bump, and what its result means for the caller.   *)
ReserveBump(r) ==
  /\ slot[r] = "none"
  /\ in_flight' = in_flight + 1
  /\ slot' = [slot EXCEPT ![r] = IF in_flight + 1 > Cap THEN "over" ELSE "admitted"]

(* Mutant: a refused caller leaves its bump behind.                        *)
ReserveUndoForgotten(r) ==
  /\ slot[r] = "over"
  /\ slot' = [slot EXCEPT ![r] = "none"]
  /\ UNCHANGED in_flight

(* reserve/1, refused: the second update_counter, without a floor.         *)
ReserveUndo(r) ==
  /\ slot[r] = "over"
  /\ in_flight' = in_flight - 1
  /\ slot' = [slot EXCEPT ![r] = "none"]

(* update_counter(..., {2, -1, 0, 0}): a decrement that stops at zero.     *)
Decrement(n) == IF n > 0 THEN n - 1 ELSE 0

(* release/1 checks nothing: it is up to the caller to hold a slot.        *)
Release(r) ==
  /\ in_flight' = Decrement(in_flight)
  /\ slot' = [slot EXCEPT ![r] = "none"]

(* "Caller MUST balance with release/1": one release per admission.        *)
BalancedRelease(r) == slot[r] = "admitted" /\ Release(r)

QuotaNext ==
  \E r \in Requests : ReserveBump(r) \/ ReserveUndo(r) \/ BalancedRelease(r)

QuotaSpec == QuotaInit /\ [][QuotaNext]_quotaVars
-----------------------------------------------------------------------------
(* The counter is a natural number: no undo or release of concurrent       *)
(* callers takes it below zero (reserve/1, release/1).                     *)
QuotaTypeOK ==
  /\ in_flight \in Nat
  /\ slot \in [Requests -> SlotStates]

(* However the bumps and the undos of concurrent callers interleave, never *)
(* more callers are admitted than the cap (reserve/1's `current > cap`).   *)
CapRespected == Cardinality(Admitted) <= Cap

(* The counter is exactly the number of reservations, the transient ones   *)
(* of refused callers included: no release is lost and none hits the floor *)
(* of release/1, so when the callers are gone the workspace is at zero.    *)
CounterExact == in_flight = Cardinality(Reserved)
=============================================================================
