------------------------------ MODULE Governor ------------------------------
(***************************************************************************)
(* The quota governor, src/pinner/governor/quotas.py: pure functions from  *)
(* an account document and the time to a decision.                         *)
(*                                                                         *)
(* Times are kept relative to now: an account carries the age of its       *)
(* warm-up, whether its stored counter is dated today, and the time since  *)
(* its last pin.  Both ages stop growing where no rule tells them apart    *)
(* any more; a last_pin_at that is not set is one long past.               *)
(***************************************************************************)
EXTENDS Integers

CONSTANTS WARMUP_CAP_EARLY, WARMUP_CAP_LATE,      \* pins a day, first and later warm-up
          WARMUP_EARLY_DAYS, WARMUP_TOTAL_DAYS,
          PINS_DAILY_CAP,                         \* quotas.pins_daily_cap of the account
          CAP_OVERRIDE,                           \* --daily-cap-override of a launch wave
          MIN_PIN_INTERVAL,                       \* quotas.min_pin_interval_min, in ticks
          DAY                                     \* a day, in ticks

ASSUME GovernorAssumption ==
  /\ WARMUP_CAP_EARLY \in Nat /\ WARMUP_CAP_LATE \in Nat /\ PINS_DAILY_CAP \in Nat
  /\ CAP_OVERRIDE \in Nat
  /\ WARMUP_CAP_EARLY <= WARMUP_CAP_LATE /\ WARMUP_CAP_LATE <= PINS_DAILY_CAP
  /\ WARMUP_EARLY_DAYS \in Nat /\ WARMUP_TOTAL_DAYS \in Nat
  /\ WARMUP_EARLY_DAYS <= WARMUP_TOTAL_DAYS
  /\ MIN_PIN_INTERVAL \in Nat
  /\ DAY \in Nat \ {0}

FullAge == WARMUP_TOTAL_DAYS * DAY

AccountStatus == {"WARMUP", "ACTIVE", "PAUSED"}

LargestCap == IF CAP_OVERRIDE > PINS_DAILY_CAP THEN CAP_OVERRIDE ELSE PINS_DAILY_CAP

Stats == [ pins_today : 0 .. LargestCap, is_today : BOOLEAN, since_pin : 0 .. MIN_PIN_INTERVAL ]

\* As seeds.py creates an account.
NewStats == [ pins_today |-> 0, is_today |-> FALSE, since_pin |-> MIN_PIN_INTERVAL ]

WarmupDay(account) == account.age \div DAY + 1

DailyCap(account) ==
  CASE account.status = "WARMUP" /\ WarmupDay(account) <= WARMUP_EARLY_DAYS -> WARMUP_CAP_EARLY
    [] account.status = "WARMUP" /\ WarmupDay(account) \in
         WARMUP_EARLY_DAYS + 1 .. WARMUP_TOTAL_DAYS                         -> WARMUP_CAP_LATE
    [] OTHER                                                                -> PINS_DAILY_CAP

ShouldGraduate(account) ==
  account.status = "WARMUP" /\ WarmupDay(account) > WARMUP_TOTAL_DAYS

\* Zero when the stored counter belongs to a previous UTC day.
EffectivePinsToday(stats) == IF stats.is_today THEN stats.pins_today ELSE 0

\* decide: gemini_left says that the shared Gemini budget is not used up, boost
\* that the cap is overridden, which the spacing is not.  An override of 0 is none.
Decide(account, gemini_left, boost) ==
  /\ account.status # "PAUSED"
  /\ EffectivePinsToday(account.stats)
       < IF boost /\ CAP_OVERRIDE # 0 THEN CAP_OVERRIDE ELSE DailyCap(account)
  /\ account.stats.since_pin >= MIN_PIN_INTERVAL
  /\ gemini_left

BumpPinStats_KeepsDate(stats) ==
  [ pins_today |-> EffectivePinsToday(stats) + 1, is_today |-> stats.is_today, since_pin |-> 0 ]

BumpPinStats(stats) ==
  [ pins_today |-> EffectivePinsToday(stats) + 1, is_today |-> TRUE, since_pin |-> 0 ]

-----------------------------------------------------------------------------
(* The passing of one tick, at the end of a UTC day or within it.          *)

UpTo(limit, n) == IF n < limit THEN n ELSE limit

OlderStats(stats, midnight) ==
  [ stats EXCEPT !.is_today = @ /\ ~midnight,
                 !.since_pin = UpTo(MIN_PIN_INTERVAL, @ + 1) ]

OlderAccount(account, midnight) ==
  [ account EXCEPT !.age = UpTo(FullAge, @ + 1), !.stats = OlderStats(@, midnight) ]
=============================================================================
