---------------------------- MODULE WalletLease ----------------------------
(***************************************************************************)
(* The durable round lease of one wallet, src/platform/desktop/            *)
(* fusionWalletLease.ts: a localStorage record {owner, at} that every      *)
(* window of the wallet may read, and that is written inside a Web Lock.   *)
(* A round attempt asks for the lease, refreshes it on an interval while   *)
(* it runs, aborts when a refresh fails, and drops the record at the end.  *)
(*                                                                         *)
(* Time.  The code compares timestamps only as ages, nowMs - at, so the    *)
(* model keeps the age of every timestamp instead of a clock: Tick makes   *)
(* all of them older, ClockStepsBack (Date.now() is a wall clock) makes    *)
(* all of them younger.  An age stops growing at AgeCap: no comparison of  *)
(* the code can tell it apart from a larger one.                           *)
(***************************************************************************)
EXTENDS Integers

CONSTANTS
  Attempts,     \* round attempts of all windows; the attempt stands for its random owner token
  StaleAfter,   \* LEASE_STALE_MS: a record this old has a dead holder
  LeaseTTL,     \* LEASE_TTL_MS: absolute backstop
  MaxBack,      \* how far the wall clock may step back; 0: it never does
  Timings,      \* values of timely to start with
  None          \* no record, no pending request

ASSUME LeaseAssumption ==
  /\ StaleAfter \in Nat \ {0}
  /\ LeaseTTL \in Nat /\ StaleAfter <= LeaseTTL
  /\ MaxBack \in Nat
  /\ Timings \subseteq BOOLEAN
  /\ None \notin Int /\ None \notin [owner : Attempts, age : Int]

VARIABLES
  timely,  \* TRUE: no running window is frozen for StaleAfter (see Tick)
  lease,   \* the record of LEASE_PREFIX: None or [owner, age]
  locks,   \* navigator.locks is available
  phase,   \* phase[a]: where attempt a stands
  asked,   \* asked[a]: age of the nowMs of a pending acquireRoundLease, or None
  beat     \* beat[a]: age of the nowMs of a pending touchRoundLease, or None

leaseVars == <<timely, lease, locks, phase, asked, beat>>

\* The oldest age compared is that of a record, seen from a request that has
\* itself waited up to LeaseTTL.
AgeCap == 2 * LeaseTTL
Age == (-MaxBack)..AgeCap
Record == [owner : Attempts, age : Age]

\* "asking": waits for the Web Lock; "held": runs a round under the lease;
\* "aborted": its AbortController fired, the round is unwinding;
\* "closing": past clearInterval, waits to drop the record.
Phase == {"idle", "asking", "held", "aborted", "closing"}

LeaseTypeOK ==
  /\ timely \in BOOLEAN
  /\ lease \in Record \cup {None}
  /\ locks \in BOOLEAN
  /\ phase \in [Attempts -> Phase]
  /\ asked \in [Attempts -> Age \cup {None}]
  /\ beat \in [Attempts -> Age \cup {None}]
  \* a pending request belongs to a caller that waits for its answer
  /\ \A a \in Attempts :
       /\ asked[a] # None <=> phase[a] = "asking"
       /\ beat[a] # None => phase[a] \in {"held", "aborted", "closing"}

LeaseInit ==
  /\ timely \in Timings
  /\ lease = None
  /\ locks \in BOOLEAN
  /\ phase = [a \in Attempts |-> "idle"]
  /\ asked = [a \in Attempts |-> None]
  /\ beat = [a \in Attempts |-> None]

-----------------------------------------------------------------------------
leaseIsLive_forever(held) == held # None
leaseIsLive_skewDead(held) == held # None /\ held.age >= 0 /\ held.age < StaleAfter

\* A negative age is a clock that stepped back: treated as held, fail closed.
leaseIsLive(held) ==
  held # None /\ (held.age < 0 \/ (held.age < LeaseTTL /\ held.age < StaleAfter))

OwnedBy(a) == lease # None /\ lease.owner = a

\* What a conditional, owner-only drop leaves behind.
WithoutOwn(a) == IF OwnedBy(a) THEN None ELSE lease

\* acquireRoundLease captures nowMs and asks for the Web Lock; without a lock
\* manager it answers null and the attempt ends.
RequestLease(a) ==
  /\ phase[a] = "idle" /\ locks
  /\ phase' = [phase EXCEPT ![a] = "asking"]
  /\ asked' = [asked EXCEPT ![a] = 0]
  /\ UNCHANGED <<timely, lease, locks, beat>>

TakeLease_unchecked(a) ==
  /\ phase[a] = "asking" /\ locks
  /\ asked' = [asked EXCEPT ![a] = None]
  /\ lease' = [owner |-> a, age |-> asked[a]]
  /\ phase' = [phase EXCEPT ![a] = "held"]
  /\ UNCHANGED <<timely, locks, beat>>

\* The record as the captured nowMs of a sees it: younger by what a waited.
AsCaptured(a) ==
  IF lease = None THEN None ELSE [owner |-> lease.owner, age |-> lease.age - asked[a]]

\* takeLeaseIfFree inside the lock, with the captured nowMs.  The write may
\* fail (the read-back differs) and answers null.
TakeLease(a) ==
  /\ phase[a] = "asking"
  /\ asked' = [asked EXCEPT ![a] = None]
  /\ \/ /\ locks /\ ~leaseIsLive(AsCaptured(a))
        /\ lease' = [owner |-> a, age |-> asked[a]]
        /\ phase' = [phase EXCEPT ![a] = "held"]
     \/ \* live holder, failed write, or the lock manager went away
        /\ lease' = lease
        /\ phase' = [phase EXCEPT ![a] = "idle"]
  /\ UNCHANGED <<timely, locks, beat>>

RequestTouch_notCleared(a) ==
  /\ beat[a] = None /\ beat' = [beat EXCEPT ![a] = 0]
  /\ UNCHANGED <<timely, lease, locks, phase, asked>>

\* The interval fires: touchRoundLease captures nowMs and asks for the lock.
RequestTouch(a) ==
  /\ phase[a] \in {"held", "aborted"} /\ beat[a] = None
  /\ beat' = [beat EXCEPT ![a] = 0]
  /\ UNCHANGED <<timely, lease, locks, phase, asked>>

Abort(a) == phase' = [phase EXCEPT ![a] = IF @ = "held" THEN "aborted" ELSE @]

TouchLease_anyOwner(a) ==
  /\ beat[a] # None
  /\ beat' = [beat EXCEPT ![a] = None]
  /\ \/ locks /\ lease' = [owner |-> a, age |-> beat[a]] /\ phase' = phase
     \/ lease' = lease /\ phase' = [phase EXCEPT ![a] = IF @ = "held" THEN "aborted" ELSE @]
  /\ UNCHANGED <<timely, locks, asked>>

\* The critical section of touchRoundLease and the abort its answer causes.
TouchLease(a) ==
  /\ beat[a] # None
  /\ beat' = [beat EXCEPT ![a] = None]
  /\ \/ /\ locks /\ OwnedBy(a)
        /\ lease' = [owner |-> a, age |-> beat[a]]
        /\ phase' = phase
     \/ \* lost to another owner or reclaimed, failed write, or no lock manager
        /\ lease' = lease
        /\ Abort(a)
  /\ UNCHANGED <<timely, locks, asked>>

\* abortFusionRound, a caller's abort or a session change.
CancelRound(a) ==
  /\ phase[a] = "held"
  /\ Abort(a)
  /\ UNCHANGED <<timely, lease, locks, asked, beat>>

\* finally: clearInterval; a touch asked for before still runs first, the
\* lock queue is first come first served.
FinishRound(a) ==
  /\ phase[a] \in {"held", "aborted"}
  /\ phase' = [phase EXCEPT ![a] = "closing"]
  /\ UNCHANGED <<timely, lease, locks, asked, beat>>

\* releaseRoundLease, with the lock or without it.
ReleaseLease(a) ==
  /\ phase[a] = "closing" /\ beat[a] = None
  /\ lease' = WithoutOwn(a)
  /\ phase' = [phase EXCEPT ![a] = "idle"]
  /\ UNCHANGED <<timely, locks, asked, beat>>

ReclaimStale_noReread ==
  /\ locks /\ lease # None /\ lease' = None
  /\ UNCHANGED <<timely, locks, phase, asked, beat>>

\* reclaimStaleRoundState: re-reads the record inside the lock.
ReclaimStale ==
  /\ locks /\ lease # None /\ ~leaseIsLive(lease)
  /\ lease' = None
  /\ UNCHANGED <<timely, locks, phase, asked, beat>>

PageHide_noAbort(a) ==
  /\ phase[a] \in {"held", "aborted"}
  /\ lease' = WithoutOwn(a)
  /\ UNCHANGED <<timely, locks, phase, asked, beat>>

\* pagehide / beforeunload: abort, then drop the own record without the lock.
PageHide(a) ==
  /\ phase[a] \in {"held", "aborted"}
  /\ Abort(a)
  /\ lease' = WithoutOwn(a)
  /\ UNCHANGED <<timely, locks, asked, beat>>

\* The process is killed, or HMR replaces the module: the record survives.
Crash(a) ==
  /\ phase[a] # "idle"
  /\ phase' = [phase EXCEPT ![a] = "idle"]
  /\ asked' = [asked EXCEPT ![a] = None]
  /\ beat' = [beat EXCEPT ![a] = None]
  /\ UNCHANGED <<timely, lease, locks>>

LocksGoAway == locks /\ locks' = FALSE /\ UNCHANGED <<timely, lease, phase, asked, beat>>

-----------------------------------------------------------------------------
Older(t) == IF t < AgeCap THEN t + 1 ELSE AgeCap
Shift(f(_)) ==
  /\ lease' = IF lease = None THEN None ELSE [owner |-> lease.owner, age |-> f(lease.age)]
  /\ asked' = [a \in Attempts |-> IF asked[a] = None THEN None ELSE f(asked[a])]
  /\ beat' = [a \in Attempts |-> IF beat[a] = None THEN None ELSE f(beat[a])]
  /\ UNCHANGED <<timely, locks, phase>>

\* Bound: nobody waits for the Web Lock longer than LeaseTTL.
LockComes(a) == asked[a] # None => asked[a] < LeaseTTL

\* No running attempt lets its record, or a timestamp it captured and is about
\* to write, reach StaleAfter: with a heartbeat of 12 s and StaleAfter of 45 s
\* the window is not frozen for 33 s.
InTime(a) ==
  /\ phase[a] = "held" /\ OwnedBy(a) => lease.age + 1 < StaleAfter
  /\ asked[a] # None => asked[a] + 1 < StaleAfter
  /\ beat[a] # None => beat[a] + 1 < StaleAfter

Tick ==
  /\ \A a \in Attempts : LockComes(a) /\ (timely => InTime(a))
  /\ Shift(Older)

Ages == (IF lease = None THEN {} ELSE {lease.age})
        \cup {asked[a] : a \in Attempts} \cup {beat[a] : a \in Attempts}

Younger(t) == t - 1
ClockStepsBack ==
  /\ MaxBack > 0 /\ \A t \in Ages \ {None} : t > -MaxBack
  /\ Shift(Younger)

AttemptStep(a) ==
  \/ RequestLease(a) \/ TakeLease(a) \/ RequestTouch(a) \/ TouchLease(a)
  \/ CancelRound(a) \/ FinishRound(a) \/ ReleaseLease(a)
  \/ PageHide(a) \/ Crash(a)

LeaseNext ==
  \/ \E a \in Attempts : AttemptStep(a)
  \/ ReclaimStale \/ LocksGoAway \/ Tick \/ ClockStepsBack

LeaseSpec == LeaseInit /\ [][LeaseNext]_leaseVars

\* Scheduling: timers fire, the lock queue moves, time passes, and the clock is
\* not corrected for ever.  Nothing makes a round finish.
LeaseFairSpec ==
  /\ LeaseSpec
  /\ <>[][~ClockStepsBack]_leaseVars
  /\ WF_leaseVars(Tick)
  /\ \A a \in Attempts :
       /\ WF_leaseVars(TakeLease(a)) /\ WF_leaseVars(ReleaseLease(a))
       /\ WF_leaseVars(RequestTouch(a)) /\ WF_leaseVars(TouchLease(a))

-----------------------------------------------------------------------------
(* Properties *)

Running == {a \in Attempts : phase[a] = "held"}

\* The assumption on timers: windows beat in time, and no clock correction
\* that happens while a call waits for the lock is as large as StaleAfter.  (A
\* larger one lets a captured nowMs judge a record written meanwhile stale.)
InGoodTime == timely /\ MaxBack < StaleAfter

\* Two attempts never run a round of one wallet at once: the purpose of the
\* module ("cross-window mutual exclusion for anything that can spend a fusion
\* fee").  OneRound below is the claim without the assumption.
OneRoundWhenTimely == InGoodTime => \A a, b \in Running : a = b

\* Why it holds: a running attempt owns the record; no captured timestamp is
\* old enough to make a fresh write look dead; and no record or timestamp
\* about to be written looks dead to a pending acquire.
HoldersAreFresh == InGoodTime => \A a \in Attempts :
  /\ phase[a] = "held" => OwnedBy(a) /\ lease.age < StaleAfter
  /\ asked[a] # None => asked[a] < StaleAfter
  /\ beat[a] # None => beat[a] < StaleAfter
  /\ asked[a] # None => \A b \in Attempts :
       /\ phase[b] = "held" => lease.age - asked[a] < StaleAfter
       /\ asked[b] # None => asked[b] - asked[a] < StaleAfter
       /\ beat[b] # None => beat[b] - asked[a] < StaleAfter

\* The same claim with no assumption on timers, as the header comment and
\* docs/p2p-cashfusion-protocol.md 8.4 word it.
OneRound == \A a, b \in Running : a = b

\* What the lease promises, as a machine of its own: rounds enter an empty
\* floor one at a time, while windows beat in time.
Floor == INSTANCE FusionFloor WITH floor <- {a \in Running : InGoodTime}
KeepsTheFloor == Floor!FloorSpec

\* A record that is live by any reading of the clock leaves its owner only
\* because the owner itself ends or unloads its round: never through a
\* reclaim, a takeover, or a late release or heartbeat of another attempt,
\* however long those calls waited for the lock.
FreshRecordIsOwners ==
  [][ LET o == lease.owner IN
      lease # None /\ lease.age + MaxBack < StaleAfter
        => \/ lease' # None /\ lease'.owner = o
           \/ /\ lease' = None
              /\ phase[o] \in {"held", "aborted", "closing"} /\ phase'[o] # "held"
              /\ \A a \in Attempts \ {o} : phase'[a] = phase[a] ]_leaseVars

\* An attempt that gave up nothing and lost its record to another owner stops
\* running, since its next refresh fails.
LoserStops == \A a \in Attempts :
  (phase[a] = "held" /\ ~OwnedBy(a)) ~> phase[a] # "held"

\* A dead holder does not lock the wallet for good: again and again the record
\* is either free to take or belongs to an attempt that exists.
NotLockedForGood ==
  []<>(leaseIsLive(lease) => phase[lease.owner] \in {"held", "aborted", "closing"})
=============================================================================
