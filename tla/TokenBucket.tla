---------------------------- MODULE TokenBucket ----------------------------
(***************************************************************************)
(* RateLimiter of src/services/email/queue_manager.py, shared by the tasks *)
(* of one batch: each calls wait_for_token() before provider.send().       *)
(* Time is counted in ticks and the bucket in ticks as well: one tick      *)
(* refills one unit and a token is worth Grain units (1/rate seconds).     *)
(* The Faulty... operators are mistakes the properties must notice.        *)
(***************************************************************************)
EXTENDS Integers, FiniteSets

CONSTANTS Senders,   \* the tasks that send one after another
          Grain,     \* units of a token: ticks the bucket takes to refill one
          Capacity,  \* RateLimiter.capacity, in units (Grain times the rate per second)
          MaxTime    \* bound on the clock

ASSUME BucketAssumption ==
    /\ IsFiniteSet(Senders) /\ Senders # {}
    /\ Grain \in Nat \ {0}
    /\ Capacity \in Nat \ {0}
    /\ MaxTime \in Nat

VARIABLES now,         \* time.monotonic()
          tokens,      \* RateLimiter.tokens, in units, as of last_update
          last_update, \* RateLimiter.last_update
          wakes,       \* wakes[s]: when the asyncio.sleep of s ends, Awake when s does not sleep
          sent         \* history: how many waits have ended, each with a send

bucketVars == <<now, tokens, last_update, wakes, sent>>

Awake == MaxTime + Grain + 1   \* no sleep ends that late

BucketTypeOK == /\ now \in 0..MaxTime
                /\ tokens \in 0..Capacity
                /\ last_update \in 0..MaxTime
                /\ wakes \in [Senders -> 0..Awake]
                /\ sent \in Nat

BucketInit == /\ now = 0
              /\ tokens = Capacity
              /\ last_update = 0
              /\ wakes = [s \in Senders |-> Awake]
              /\ sent = 0

\* acquire(): refill for the time elapsed, then take a token if there is one.
\* Without one the refill is kept and the caller is told how long to wait.
Smaller(a, b) == IF a < b THEN a ELSE b
FaultyRefilled == tokens + (now - last_update)   \* not capped
Refilled == Smaller(Capacity, tokens + (now - last_update))
FaultyAcquire(taken) ==   \* a refill without a token is kept, and counted again
    /\ taken <=> Refilled >= Grain
    /\ tokens' = IF taken THEN Refilled - Grain ELSE Refilled
    /\ last_update' = IF taken THEN now ELSE last_update
Acquire(taken) == /\ taken <=> Refilled >= Grain
                  /\ tokens' = IF taken THEN Refilled - Grain ELSE Refilled
                  /\ last_update' = now

\* wait_for_token() that returns at once.
TakeNow(s) == /\ wakes[s] = Awake
              /\ Acquire(TRUE)
              /\ sent' = sent + 1
              /\ UNCHANGED <<now, wakes>>

\* wait_for_token() that has to sleep for wait_time.
FallAsleep(s) == /\ wakes[s] = Awake
                 /\ Acquire(FALSE)
                 /\ wakes' = [wakes EXCEPT ![s] = now + (Grain - Refilled)]
                 /\ UNCHANGED <<now, sent>>

\* The sleep is over; the second acquire() takes a token if there is one, and
\* wait_for_token() returns whatever it answers.
WakeUp(s) == /\ wakes[s] <= now
             /\ \E taken \in BOOLEAN : Acquire(taken)
             /\ wakes' = [wakes EXCEPT ![s] = Awake]
             /\ sent' = sent + 1
             /\ UNCHANGED now

BucketTick == /\ now < MaxTime
              /\ now' = now + 1
              /\ UNCHANGED <<tokens, last_update, wakes, sent>>

BucketNext == \/ \E s \in Senders : TakeNow(s) \/ FallAsleep(s) \/ WakeUp(s)
              \/ BucketTick

BucketSpec == BucketInit /\ [][BucketNext]_bucketVars

-----------------------------------------------------------------------------
\* The rate the limiter gives: what the bucket held at the start, and the
\* refill rate once per task that waits for it.  (A woken task sends without a
\* token when another task took it, so each task keeps the rate on its own.)
\* Where the capacity is no whole number of tokens, each other task has what is
\* left of it once more: they all sleep for the rest of the same token.
\* A bucket that holds less than a token, at a rate below one per second, is
\* never full enough, and then every wait ends without a token.
SentWithinShares ==
    Capacity >= Grain =>
        sent * Grain <= Capacity + Cardinality(Senders) * now
                            + (Cardinality(Senders) - 1) * (Capacity % Grain)

\* The rate the limiter is there for, capacity + rate * time, whichever tasks
\* share it.
SentWithinRate == sent * Grain <= Capacity + now
=============================================================================
