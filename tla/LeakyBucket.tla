---------------------------- MODULE LeakyBucket ----------------------------
(***************************************************************************)
(* sfc_leaky_bucket.c: the rate limiter of HTTP requests.  The bucket is   *)
(* filled only when somebody asks for a token, from the time that has gone *)
(* by since the last filling, so time and asking are separate steps here.  *)
(*                                                                         *)
(* since, granted and refused observe: the requests granted since some     *)
(* moment, and the first refusal since the last grant.                     *)
(***************************************************************************)
EXTENDS Integers

CONSTANTS
  Rate,     \* refill_rate, tokens per second
  Size,     \* bucket_size
  Second,   \* ticks of the timer per second; 1000 in the code
  Horizon   \* the timer stops here

ASSUME RateAssumption    == Rate \in Nat
ASSUME SizeAssumption    == Size \in Nat
ASSUME SecondAssumption  == Second \in Nat \ {0}
ASSUME HorizonAssumption == Horizon \in Nat

VARIABLES
  now,             \* what get_timer returns
  tokens,
  lastRefillTime,
  since, granted, refused

vars == <<now, tokens, lastRefillTime, since, granted, refused>>

Never == -1

-----------------------------------------------------------------------------
\* sfc_leaky_bucket_create clears everything, whatever the timer shows.
Init ==
  /\ now \in 0..Horizon
  /\ tokens = 0
  /\ lastRefillTime = 0
  /\ since = now
  /\ granted = 0
  /\ refused = Never

TimeSinceLastRefill == IF now > lastRefillTime THEN now - lastRefillTime ELSE 0

\* (Mutant: rounded up.)
IncrementUp == (TimeSinceLastRefill * Rate + Second - 1) \div Second
Increment   == (TimeSinceLastRefill * Rate) \div Second

\* The tokens there are for whoever asks now.  (Mutant: no cap.)
AvailableUncapped == tokens + Increment
Available == IF tokens + Increment > Size THEN Size ELSE tokens + Increment

\* (Mutants: the time moves on even when no token came in; it never does.)
RefillTimeAlways == lastRefillTime' = now
RefillTimeNever  == UNCHANGED lastRefillTime
RefillTime       == lastRefillTime' = IF Increment > 0 THEN now ELSE lastRefillTime

\* What a grant leaves in the bucket.  (Mutant: nothing.)
LeftEmpty == 0
Left      == Available - 1

\* sfc_leaky_bucket_acquire_token returns 1.  When nothing came in, the tokens
\* are left as they are, and they are never more than Size.
Granted ==
  /\ Available > 0
  /\ tokens'  = Left
  /\ RefillTime
  /\ granted' = granted + 1
  /\ refused' = Never
  /\ UNCHANGED <<now, since>>

\* It returns 0.
Refused ==
  /\ Available = 0
  /\ tokens'  = 0
  /\ RefillTime
  /\ refused' = IF refused = Never THEN now ELSE refused
  /\ UNCHANGED <<now, since, granted>>

\* The monotonic clock of sfc_app_default_get_timer advances.
Tick ==
  /\ now' \in (now + 1)..Horizon
  /\ UNCHANGED <<tokens, lastRefillTime, since, granted, refused>>

\* The observer starts to count here.
Observe ==
  /\ since'   = now
  /\ granted' = 0
  /\ UNCHANGED <<now, tokens, lastRefillTime, refused>>

Next == Granted \/ Refused \/ Tick \/ Observe

Spec == Init /\ [][Next]_vars

-----------------------------------------------------------------------------
(* Properties. *)

\* Every variable has its type; the bucket never holds more than its size.
TypeOK ==
  /\ now \in 0..Horizon
  /\ tokens \in 0..Size
  /\ lastRefillTime \in 0..now
  /\ since \in 0..now
  /\ granted \in Nat
  /\ refused \in 0..now \cup {Never}

\* In every stretch of time, at most a full bucket, one token for a fraction that
\* was under way, and what comes in at Rate are granted.
WindowBound ==
  Second * granted <= Second * Size + Second - 1 + Rate * (now - since)

\* Whoever keeps asking is not refused for longer than one token takes to come
\* in, however often he asks: asking does not restart the clock.
RefusalsAreShort ==
  refused # Never /\ Size > 0 /\ Available = 0 => Rate * (now - refused) < Second

\* The bucket is a TokenPool of the tokens available.
Pool == INSTANCE TokenPool WITH tokens <- Available
IsTokenPool == Pool!Spec
=============================================================================
