---------------------------- MODULE RateLimiter -----------------------------
(***************************************************************************)
(* The token bucket of one workspace: QuotaTracker's {:take, wid} handler  *)
(* (lib/rockbox/quota_tracker.ex), reached through take_token/1 from the   *)
(* RateLimit plug.  The handler runs inside one GenServer, so a take is    *)
(* atomic; time passes between takes.                                      *)
(*                                                                         *)
(* The code keeps tokens as a float and time in milliseconds.  Here a      *)
(* token is Token = 1000 thousandths, so that `elapsed / 1000.0 * per_s`   *)
(* is the integer `elapsed * PerS` and nothing is rounded.                 *)
(***************************************************************************)
EXTENDS Integers

CONSTANTS
  Burst,     \* rate_burst: the bucket's size in tokens
  PerS,      \* rate_per_s: tokens added per second
  MaxTime    \* bound on the clock, in milliseconds

ASSUME BurstAssumption == Burst \in Nat \ {0}
ASSUME PerSAssumption == PerS \in Nat
ASSUME MaxTimeAssumption == MaxTime \in Nat

Token == 1000
Full == Burst * Token

VARIABLES
  clock,     \* System.monotonic_time(:millisecond)
  tokens,    \* the bucket's level, in thousandths of a token
  last_ts,   \* when the bucket was last refilled
  opened,    \* start of the window the grants are counted in
  granted    \* takes answered :ok since then

rateVars == <<clock, tokens, last_ts, opened, granted>>

(* A workspace's first take starts from {tokens_max, now}: a full bucket,  *)
(* which a refill leaves full.                                             *)
RateInit ==
  /\ clock = 0
  /\ tokens = Full
  /\ last_ts = 0
  /\ opened = 0
  /\ granted = 0

(* Mutant: the refill is not capped at the bucket's size.                  *)
RefillUncapped(level, since, now) ==
  level + (IF now >= since THEN now - since ELSE 0) * PerS

(* refill/4 *)
Refill(level, since, now) ==
  LET elapsed  == IF now >= since THEN now - since ELSE 0
      refilled == level + elapsed * PerS
  IN  IF refilled > Full THEN Full ELSE refilled

(* handle_call({:take, wid}, ...) when the refilled bucket has a token.    *)
TakeToken ==
  /\ Refill(tokens, last_ts, clock) >= Token
  /\ tokens' = Refill(tokens, last_ts, clock) - Token
  /\ last_ts' = clock
  /\ granted' = granted + 1
  /\ UNCHANGED <<clock, opened>>

(* ... and when it has not: {:error, :rate_limited}, the refilled bucket   *)
(* is stored all the same.                                                 *)
RateLimited ==
  /\ Refill(tokens, last_ts, clock) < Token
  /\ tokens' = Refill(tokens, last_ts, clock)
  /\ last_ts' = clock
  /\ UNCHANGED <<clock, opened, granted>>

(* Any amount of time passes between two takes.                            *)
Tick ==
  /\ \E t \in (clock + 1)..MaxTime : clock' = t
  /\ UNCHANGED <<tokens, last_ts, opened, granted>>

(* An observer starts to count at any moment.                              *)
OpenWindow ==
  /\ opened' = clock
  /\ granted' = 0
  /\ UNCHANGED <<clock, tokens, last_ts>>

RateNext == TakeToken \/ RateLimited \/ Tick \/ OpenWindow

RateSpec == RateInit /\ [][RateNext]_rateVars
-----------------------------------------------------------------------------
(* The bucket stays between empty and full, and its timestamp is never     *)
(* ahead of the clock (the :take handler).                                 *)
RateTypeOK ==
  /\ clock \in Nat
  /\ tokens \in 0..Full
  /\ last_ts \in Nat /\ last_ts <= clock
  /\ opened \in Nat /\ opened <= clock
  /\ granted \in Nat

(* In every window, wherever it starts, a workspace is granted at most the *)
(* burst plus what the refill rate adds over the window: an idle bucket    *)
(* saves up no more than one burst, and a refused take earns nothing       *)
(* (refill/4's `min(max, ...)` and the stored timestamp).                  *)
WindowBudget == granted * Token <= Full + (clock - opened) * PerS
=============================================================================
