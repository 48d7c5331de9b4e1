-------------------------- MODULE AdmissionProofs ---------------------------
(***************************************************************************)
(* Proofs about QuotaTracker, RateLimiter and their composition Admission, *)
(* for every finite set of callers, every cap, every bucket size and every *)
(* refill rate.                                                            *)
(*                                                                         *)
(* CounterExact is what makes CapRespected inductive: a caller is admitted *)
(* on the value of the counter, so the counter must never be below the     *)
(* number of reservations.  WindowBudget is not inductive either: it       *)
(* forgets what is left in the bucket.  BucketPays counts the tokens still *)
(* there with the grants, at the time of the last refill.                  *)
(***************************************************************************)
EXTENDS Admission, FiniteSetTheorems, TLAPS

QuotaInv == QuotaTypeOK /\ CounterExact /\ CapRespected

(* Reserved and Admitted are finite, so their cardinalities are naturals.  *)
LEMMA CallersFinite ==
  /\ IsFiniteSet(Reserved) /\ Cardinality(Reserved) \in Nat
  /\ IsFiniteSet(Admitted) /\ Cardinality(Admitted) \in Nat
  /\ Cardinality(Admitted) <= Cardinality(Reserved)
<1>1. Reserved \subseteq Requests /\ Admitted \subseteq Reserved
  BY DEF Reserved, Admitted
<1>2. IsFiniteSet(Reserved)
  BY <1>1, FS_Subset, RequestsAssumption
<1>3. IsFiniteSet(Admitted) /\ Cardinality(Admitted) <= Cardinality(Reserved)
  BY <1>1, <1>2, FS_Subset
<1> QED
  BY <1>2, <1>3, FS_CardinalityType

(* A bump adds its caller to the reservations, and to the admitted ones    *)
(* only below the cap (reserve/1).                                         *)
LEMMA BumpKeepsInv ==
  ASSUME QuotaInv, NEW r \in Requests, ReserveBump(r)
  PROVE  QuotaInv'
<1> USE DEF QuotaInv
<1>1. r \notin Reserved /\ Reserved' = Reserved \cup {r}
  BY DEF ReserveBump, Reserved, QuotaTypeOK, SlotStates
<1>2. Cardinality(Reserved') = Cardinality(Reserved) + 1
  BY <1>1, CallersFinite, FS_AddElement
<1>3. in_flight' = in_flight + 1 /\ in_flight \in Nat
  BY DEF ReserveBump, QuotaTypeOK
<1>4. QuotaTypeOK'
  BY <1>3 DEF ReserveBump, QuotaTypeOK, SlotStates
<1>5. CounterExact'
  BY <1>2, <1>3 DEF CounterExact
<1>6. CapRespected'
  <2>1. CASE in_flight + 1 > Cap
    <3>1. Admitted' = Admitted
      BY <2>1 DEF ReserveBump, Admitted, QuotaTypeOK
    <3> QED  BY <3>1 DEF CapRespected
  <2>2. CASE ~(in_flight + 1 > Cap)
    <3>1. r \notin Admitted /\ Admitted' = Admitted \cup {r}
      BY <2>2 DEF ReserveBump, Admitted, QuotaTypeOK
    <3>2. Cardinality(Admitted') = Cardinality(Admitted) + 1
      BY <3>1, CallersFinite, FS_AddElement
    <3> QED
      BY <2>2, <3>2, <1>3, CallersFinite, CapAssumption DEF CapRespected, CounterExact
  <2> QED  BY <2>1, <2>2
<1> QED  BY <1>4, <1>5, <1>6

(* Giving a reservation back, refused or admitted, takes one caller out.   *)
LEMMA GiveBackKeepsInv ==
  ASSUME QuotaInv, NEW r \in Requests, ReserveUndo(r) \/ BalancedRelease(r)
  PROVE  QuotaInv'
<1> USE DEF QuotaInv
<1>1. r \in Reserved /\ Reserved' = Reserved \ {r}
  BY DEF ReserveUndo, BalancedRelease, Release, Reserved, QuotaTypeOK, SlotStates
<1>2. Cardinality(Reserved') = Cardinality(Reserved) - 1
  BY <1>1, CallersFinite, FS_RemoveElement
<1>3. Cardinality(Reserved) >= 1
  BY <1>1, CallersFinite, FS_EmptySet
<1>4. in_flight' = in_flight - 1
  BY <1>3, CallersFinite DEF ReserveUndo, BalancedRelease, Release, Decrement, CounterExact
<1>5. QuotaTypeOK'
  BY <1>3, <1>4, CallersFinite DEF ReserveUndo, BalancedRelease, Release, QuotaTypeOK, SlotStates, CounterExact
<1>6. CounterExact'
  BY <1>2, <1>4 DEF CounterExact
<1>7. CapRespected'
  <2>1. Admitted' \subseteq Admitted
    BY DEF ReserveUndo, BalancedRelease, Release, Admitted, QuotaTypeOK
  <2>2. Cardinality(Admitted') <= Cardinality(Admitted) /\ Cardinality(Admitted') \in Nat
    BY <2>1, CallersFinite, FS_Subset, FS_CardinalityType
  <2> QED
    BY <2>2, CallersFinite, CapAssumption DEF CapRespected
<1> QED  BY <1>5, <1>6, <1>7

(* No caller and no reservation at the start.                              *)
LEMMA QuotaInitInv == QuotaInit => QuotaInv
<1> SUFFICES ASSUME QuotaInit PROVE QuotaInv
  OBVIOUS
<1>1. Reserved = {} /\ Admitted = {}
  BY DEF QuotaInit, Reserved, Admitted
<1>2. Cardinality(Reserved) = 0 /\ Cardinality(Admitted) = 0
  BY <1>1, FS_EmptySet
<1> QED
  BY <1>2, CapAssumption
  DEF QuotaInit, QuotaInv, QuotaTypeOK, CounterExact, CapRespected, SlotStates

(* Every step of concurrent callers keeps QuotaInv.                        *)
LEMMA QuotaNextInv == QuotaInv /\ [QuotaNext]_quotaVars => QuotaInv'
<1> SUFFICES ASSUME QuotaInv, [QuotaNext]_quotaVars PROVE QuotaInv'
  OBVIOUS
<1>1. CASE QuotaNext
  BY <1>1, BumpKeepsInv, GiveBackKeepsInv DEF QuotaNext
<1>2. CASE UNCHANGED quotaVars
  BY <1>2 DEF quotaVars, QuotaInv, QuotaTypeOK, CounterExact, CapRespected, Reserved, Admitted
<1> QED  BY <1>1, <1>2

(* The counter of a workspace is always exactly the number of reservations *)
(* made and not yet given back (reserve/1, release/1), and the admitted    *)
(* callers never exceed the cap.                                           *)
THEOREM QuotaSafe == QuotaSpec => [](QuotaTypeOK /\ CounterExact /\ CapRespected)
<1>1. QuotaInv => QuotaTypeOK /\ CounterExact /\ CapRespected
  BY DEF QuotaInv
<1> QED
  BY QuotaInitInv, QuotaNextInv, <1>1, PTL DEF QuotaSpec
-----------------------------------------------------------------------------
BucketPays ==
  IF last_ts >= opened
  THEN granted * Token + tokens <= Full + (last_ts - opened) * PerS
  ELSE granted = 0

RateInv == RateTypeOK /\ BucketPays

(* Milliseconds times a rate: a natural, additive and monotone in time.    *)
LEMMA RateArith ==
  ASSUME NEW a \in Nat, NEW b \in Nat
  PROVE  /\ a * PerS \in Nat
         /\ (a + b) * PerS = a * PerS + b * PerS
         /\ a * PerS <= (a + b) * PerS
<1>1. a * PerS \in Nat /\ b * PerS \in Nat
  BY PerSAssumption, SMT
<1>2. (a + b) * PerS = a * PerS + b * PerS
  BY PerSAssumption, SMT
<1> QED  BY <1>1, <1>2

(* A full bucket holds at least one token.                                 *)
LEMMA FullType == Full \in Nat /\ Full >= Token /\ Token = 1000
BY BurstAssumption DEF Full, Token

(* What refill/4 returns: at least the old level, at most the bucket's     *)
(* size, and never more than the elapsed time pays for.                    *)
LEMMA RefillBounds ==
  ASSUME RateTypeOK
  PROVE  LET t == Refill(tokens, last_ts, clock) IN
         /\ t \in 0..Full
         /\ t >= tokens
         /\ t <= tokens + (clock - last_ts) * PerS
<1>1. clock - last_ts \in Nat /\ (clock - last_ts) * PerS \in Nat
  <2>1. clock - last_ts \in Nat
    BY DEF RateTypeOK
  <2> QED  BY <2>1, RateArith
<1> DEFINE p == (clock - last_ts) * PerS
<1>2. Refill(tokens, last_ts, clock) = IF tokens + p > Full THEN Full ELSE tokens + p
  BY DEF Refill, RateTypeOK
<1>3. p \in Nat /\ tokens \in 0..Full
  BY <1>1 DEF RateTypeOK
<1> HIDE DEF p
<1>4. LET t == Refill(tokens, last_ts, clock) IN t \in 0..Full /\ t >= tokens /\ t <= tokens + p
  BY <1>2, <1>3, FullType
<1> QED  BY <1>4 DEF p

(* The grants and the level stay paid for when the bucket is refilled at   *)
(* `clock` to level t and n more takes are granted from it.                *)
LEMMA RefillPays ==
  ASSUME RateInv, NEW t \in 0..Full, t <= tokens + (clock - last_ts) * PerS
  PROVE  granted * Token + t <= Full + (clock - opened) * PerS
<1> USE DEF RateInv
<1>0. /\ clock \in Nat /\ last_ts \in Nat /\ opened \in Nat /\ granted \in Nat
      /\ tokens \in 0..Full /\ last_ts <= clock /\ opened <= clock
  BY DEF RateTypeOK
<1>1. CASE last_ts >= opened
  <2>1. clock - last_ts \in Nat /\ last_ts - opened \in Nat
    BY <1>0, <1>1
  <2> DEFINE p == (clock - last_ts) * PerS
             q == (last_ts - opened) * PerS
  <2>2. (clock - opened) * PerS = p + q
    <3>1. clock - opened = (clock - last_ts) + (last_ts - opened)
      BY <1>0
    <3> QED  BY <2>1, <3>1, RateArith
  <2>3. p \in Nat /\ q \in Nat
    BY <2>1, RateArith
  <2>4. granted * Token + tokens <= Full + q
    BY <1>1 DEF BucketPays
  <2>5. granted * Token \in Nat
    BY <1>0 DEF Token
  <2>6. t <= tokens + p
    OBVIOUS
  <2> HIDE DEF p, q
  <2> QED  BY <1>0, <2>2, <2>3, <2>4, <2>5, <2>6, FullType
<1>2. CASE ~(last_ts >= opened)
  <2>1. granted = 0
    BY <1>2 DEF BucketPays
  <2>2. clock - opened \in Nat
    BY <1>0
  <2>3. (clock - opened) * PerS \in Nat
    BY <2>2, RateArith
  <2> QED  BY <2>1, <2>3, FullType DEF Token
<1> QED  BY <1>1, <1>2

(* A take is paid from the bucket, refilled first; a refused one stores    *)
(* the refill only.                                                        *)
LEMMA TakePreserves ==
  ASSUME RateInv, TakeToken \/ RateLimited
  PROVE  RateInv'
<1> DEFINE t == Refill(tokens, last_ts, clock)
           d == (clock - opened) * PerS
<1>0. RateTypeOK
  BY DEF RateInv
<1>1. t \in 0..Full /\ t >= tokens /\ t <= tokens + (clock - last_ts) * PerS
  BY <1>0, RefillBounds
<1>2. granted * Token + t <= Full + d
  BY <1>1, RefillPays
<1>3. clock \in Nat /\ opened \in Nat /\ opened <= clock /\ granted \in Nat
  BY <1>0 DEF RateTypeOK
<1>4. d \in Nat
  <2>1. clock - opened \in Nat
    BY <1>3
  <2> QED  BY <2>1, RateArith
<1>5. /\ clock' = clock /\ opened' = opened /\ last_ts' = clock
      /\ \/ t >= Token /\ tokens' = t - Token /\ granted' = granted + 1
         \/ tokens' = t /\ granted' = granted
  BY DEF TakeToken, RateLimited
<1> HIDE DEF t
<1>6. RateTypeOK'
  BY <1>1, <1>3, <1>5, FullType DEF RateTypeOK, Full
<1>7. granted' * Token + tokens' <= Full + d
  BY <1>1, <1>2, <1>3, <1>4, <1>5, FullType
<1>8. BucketPays'
  BY <1>3, <1>5, <1>7 DEF BucketPays, Full
<1> QED  BY <1>6, <1>8 DEF RateInv

(* Time passing and a new observer leave the bucket paid for.              *)
LEMMA OtherPreserves ==
  ASSUME RateInv, Tick \/ OpenWindow \/ UNCHANGED rateVars
  PROVE  RateInv'
<1>0. /\ clock \in Nat /\ last_ts \in Nat /\ opened \in Nat /\ granted \in Nat
      /\ tokens \in 0..Full /\ last_ts <= clock /\ opened <= clock /\ BucketPays
  BY DEF RateInv, RateTypeOK
<1>1. CASE Tick
  <2>1. PICK u \in (clock + 1)..MaxTime : clock' = u
    BY <1>1 DEF Tick
  <2>2. clock' \in Nat /\ clock' >= clock
    BY <2>1, <1>0, MaxTimeAssumption
  <2> QED
    BY <1>0, <1>1, <2>2 DEF Tick, RateInv, RateTypeOK, BucketPays, Full
<1>2. CASE OpenWindow
  <2>1. opened' = clock /\ granted' = 0 /\ UNCHANGED <<clock, tokens, last_ts>>
    BY <1>2 DEF OpenWindow
  <2>2. RateTypeOK'
    BY <1>0, <2>1 DEF RateTypeOK, Full
  <2>3. BucketPays'
    <3>1. CASE last_ts >= clock
      <4>1. last_ts = clock
        BY <1>0, <3>1
      <4>2. (last_ts - clock) * PerS = 0
        BY <1>0, <4>1, PerSAssumption
      <4> QED
        BY <1>0, <2>1, <4>2, FullType DEF BucketPays
    <3>2. CASE ~(last_ts >= clock)
      BY <2>1, <3>2 DEF BucketPays
    <3> QED  BY <3>1, <3>2
  <2> QED  BY <2>2, <2>3 DEF RateInv
<1>3. CASE UNCHANGED rateVars
  BY <1>0, <1>3 DEF rateVars, RateInv, RateTypeOK, BucketPays, Full
<1> QED  BY <1>1, <1>2, <1>3

(* A full bucket pays for a burst.                                         *)
LEMMA RateInitInv == RateInit => RateInv
<1> SUFFICES ASSUME RateInit PROVE RateInv
  OBVIOUS
<1>1. (last_ts - opened) * PerS = 0
  BY PerSAssumption DEF RateInit
<1> QED
  BY <1>1, FullType DEF RateInit, RateInv, RateTypeOK, BucketPays

(* What is paid for with the tokens in the bucket is within the budget.    *)
LEMMA RateInvBudget == RateInv => RateTypeOK /\ WindowBudget
<1> SUFFICES ASSUME RateInv PROVE WindowBudget
  BY DEF RateInv
<1>1. /\ clock \in Nat /\ last_ts \in Nat /\ opened \in Nat /\ granted \in Nat
      /\ tokens \in 0..Full /\ last_ts <= clock /\ opened <= clock
  BY DEF RateInv, RateTypeOK
<1>2. clock - last_ts \in Nat /\ (clock - last_ts) * PerS \in Nat
  <2>1. clock - last_ts \in Nat
    BY <1>1
  <2> QED  BY <2>1, RateArith
<1>3. tokens <= tokens + (clock - last_ts) * PerS
  BY <1>1, <1>2, FullType
<1>4. granted * Token + tokens <= Full + (clock - opened) * PerS
  BY <1>1, <1>3, RefillPays
<1>5. clock - opened \in Nat
  BY <1>1
<1>6. (clock - opened) * PerS \in Nat
  BY <1>5, RateArith
<1> QED
  BY <1>1, <1>4, <1>6, FullType DEF WindowBudget

(* However takes, refusals and pauses follow each other, no window of any  *)
(* length grants more than a burst plus the refill (the {:take, wid}       *)
(* handler and refill/4).                                                  *)
THEOREM RateSafe == RateSpec => [](RateTypeOK /\ WindowBudget)
<1>1. RateInv /\ [RateNext]_rateVars => RateInv'
  BY TakePreserves, OtherPreserves DEF RateNext
<1> QED
  BY RateInitInv, RateInvBudget, <1>1, PTL DEF RateSpec
-----------------------------------------------------------------------------
(* The requests of a workspace meet both budgets: each step of Admission   *)
(* is a step of one tracker and leaves the other alone, or is one of both  *)
(* (the plug's take, then reserve/1).                                      *)
LEMMA AdmissionSteps ==
  [AdmissionNext]_admissionVars =>
    /\ [QuotaNext]_quotaVars
    /\ [RateNext]_rateVars
<1> USE DEF quotaVars, rateVars
<1> SUFFICES ASSUME [AdmissionNext]_admissionVars
             PROVE  [QuotaNext]_quotaVars /\ [RateNext]_rateVars
  OBVIOUS
<1>1. ASSUME NEW r \in Requests, PassRateLimit(r) \/ HaltRequest(r)
      PROVE  UNCHANGED quotaVars /\ RateNext
  BY <1>1 DEF PassRateLimit, HaltRequest, RateNext
<1>2. ASSUME NEW r \in Requests, Reserve(r) \/ HotPathReserve(r) \/ SlotStep(r)
      PROVE  QuotaNext /\ UNCHANGED rateVars
  BY <1>2 DEF Reserve, HotPathReserve, SlotStep, QuotaNext
<1>3. CASE BucketStep
  BY <1>3 DEF BucketStep, RateNext
<1>4. CASE UNCHANGED admissionVars
  BY <1>4 DEF admissionVars
<1> QED
  BY <1>1, <1>2, <1>3, <1>4 DEF AdmissionNext

(* Requests that pass the plug, requests it halts and steps that reserve   *)
(* without a token together: the admitted ones never exceed the cap.       *)
THEOREM AdmissionCapped == AdmissionSpec => []CapRespected
<1>1. AdmissionSpec => QuotaSpec
  BY AdmissionSteps, PTL DEF AdmissionSpec, AdmissionInit, QuotaSpec
<1> QED
  BY QuotaSafe, <1>1, PTL

(* The same for the counter: no interleaving of the plug with reserve/1    *)
(* and release/1 loses or doubles a bump.                                  *)
THEOREM AdmissionExact == AdmissionSpec => []CounterExact
<1>1. AdmissionSpec => QuotaSpec
  BY AdmissionSteps, PTL DEF AdmissionSpec, AdmissionInit, QuotaSpec
<1> QED
  BY QuotaSafe, <1>1, PTL

(* And the requests that pass the plug stay within the rate budget of      *)
(* every window, whatever the slots do.                                    *)
THEOREM AdmissionMetered == AdmissionSpec => []WindowBudget
<1>1. AdmissionSpec => RateSpec
  BY AdmissionSteps, PTL DEF AdmissionSpec, AdmissionInit, RateSpec
<1> QED
  BY RateSafe, <1>1, PTL
=============================================================================
