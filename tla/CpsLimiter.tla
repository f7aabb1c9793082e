----------------------------- MODULE CpsLimiter -----------------------------
(***************************************************************************)
(* The calls-per-second limiter (internal/cps/limiter.go) for one of its   *)
(* keys, cps:global or cps:carrier:{id}, under the dialer that uses it.    *)
(*                                                                         *)
(* The counter of a window lives under the key of a second: the second of  *)
(* the time the caller passes.  Originate reads the clock once             *)
(* (manual.go:135) and may ask a carrier's limiter much later, after other *)
(* carriers have rung out, so a window may be asked for after its key has  *)
(* expired.  Time is in whole seconds; within a second anything can        *)
(* happen in any order.                                                    *)
(***************************************************************************)
EXTENDS Integers

CONSTANTS Originates, \* originates in progress
          MaxCPS,     \* the cap, as configured
          LastSecond  \* bound: the clock stops there

ASSUME MaxCPSAssumption == MaxCPS \in Int
ASSUME LastSecondAssumption == LastSecond \in Nat

VARIABLES clock,    \* the current second
          count,    \* count[s]: the counter of window s, 0 when there is none
          expires,  \* expires[s]: the second in which its TTL ends
          stamp,    \* stamp[r]: the second r captured, or -1
          granted   \* granted[s][t]: grants in window s made in second t

limiterVars == <<clock, count, expires, stamp, granted>>

(* Mutant: a window whose TTL can end within the second after its own.     *)
OneSecond == 1

windowTTLSeconds == 2

Seconds == 0 .. LastSecond

LimiterTypeOK ==
  /\ clock \in Seconds
  /\ count \in [Seconds -> Nat]
  /\ expires \in [Seconds -> Nat]
  /\ stamp \in [Originates -> Seconds \cup {-1}]
  /\ granted \in [Seconds -> [Seconds -> Nat]]

LimiterInit ==
  /\ clock = 0
  /\ count = [s \in Seconds |-> 0]
  /\ expires = [s \in Seconds |-> 0]
  /\ stamp = [r \in Originates |-> -1]
  /\ granted = [s \in Seconds |-> [t \in Seconds |-> 0]]

(* Mutant: the time is rounded up to the next second.                      *)
CaptureRoundedUp(r) ==
  /\ stamp[r] = -1
  /\ stamp' = [stamp EXCEPT ![r] = clock + 1]
  /\ UNCHANGED <<clock, count, expires, granted>>

(* Originate captures the time it will use for every limiter it asks. *)
Capture(r) ==
  /\ stamp[r] = -1
  /\ stamp' = [stamp EXCEPT ![r] = clock]
  /\ UNCHANGED <<clock, count, expires, granted>>

(* It never gets to ask this one. *)
Forgo(r) ==
  /\ stamp[r] # -1
  /\ stamp' = [stamp EXCEPT ![r] = -1]
  /\ UNCHANGED <<clock, count, expires, granted>>

(* The script, atomic in Redis: INCR, EXPIRE when the key is new, and DECR *)
(* when the cap is passed.  It also runs, and uses up a grant, when its    *)
(* reply is lost.                                                          *)
Allow(r) ==
  /\ stamp[r] # -1 /\ MaxCPS > 0
  /\ LET s == stamp[r] IN
       IF count[s] + 1 > MaxCPS
       THEN UNCHANGED <<count, expires, granted>>
       ELSE /\ count' = [count EXCEPT ![s] = @ + 1]
            /\ expires' = IF count[s] = 0
                          THEN [expires EXCEPT ![s] = clock + windowTTLSeconds]
                          ELSE expires
            /\ granted' = [granted EXCEPT ![s][clock] = @ + 1]
  /\ stamp' = [stamp EXCEPT ![r] = -1]
  /\ UNCHANGED clock

(* A key dies at some point of the second in which its TTL ends. *)
Expire(s) ==
  /\ count[s] > 0 /\ expires[s] = clock
  /\ count' = [count EXCEPT ![s] = 0]
  /\ UNCHANGED <<clock, expires, stamp, granted>>

Tick ==
  /\ clock < LastSecond
  /\ \A s \in Seconds : count[s] > 0 => clock < expires[s]
  /\ clock' = clock + 1
  /\ UNCHANGED <<count, expires, stamp, granted>>

LimiterNext ==
  \/ \E r \in Originates : Capture(r) \/ Forgo(r) \/ Allow(r)
  \/ \E s \in Seconds : Expire(s)
  \/ Tick

LimiterSpec == LimiterInit /\ [][LimiterNext]_limiterVars

-----------------------------------------------------------------------------
(* A second's window grants no more than the cap to the callers that ask   *)
(* within that second or the next one, whatever stale requests of earlier  *)
(* seconds do and although every key expires: TestAllowConcurrentAtCap     *)
(* (limiter_test.go:39) over time.  A caller that asks later than that     *)
(* finds an empty window.                                                  *)
Prompt(s) == granted[s][s] + (IF s < LastSecond THEN granted[s][s + 1] ELSE 0)

PromptGrantsCapped ==
  \A s \in Seconds : Prompt(s) <= (IF MaxCPS > 0 THEN MaxCPS ELSE 0)
=============================================================================
