------------------------- MODULE WalletLease_proofs -------------------------
(***************************************************************************)
(* Type correctness and mutual exclusion of the round lease, for any set   *)
(* of attempts and any StaleAfter, LeaseTTL and MaxBack.                   *)
(***************************************************************************)
EXTENDS WalletLease, TLAPS

\* Shifting every age by one keeps the ages in range.
LEMMA AgeShift ==
  /\ \A t \in Age : Older(t) \in Age
  /\ \A t \in Age : t > -MaxBack => Younger(t) \in Age
  /\ 0 \in Age
BY LeaseAssumption DEF Age, AgeCap, Older, Younger

\* Every step keeps the variables in range and every pending lock request with
\* a caller that waits for it.
LEMMA TypeStep == LeaseTypeOK /\ [LeaseNext]_leaseVars => LeaseTypeOK'
<1> SUFFICES ASSUME LeaseTypeOK, [LeaseNext]_leaseVars PROVE LeaseTypeOK'
  OBVIOUS
<1> USE DEF LeaseTypeOK, Record, Phase
<1>1. ASSUME NEW a \in Attempts, AttemptStep(a) PROVE LeaseTypeOK'
  <2>1. CASE RequestLease(a)
    BY <2>1, AgeShift, LeaseAssumption DEF RequestLease, Age
  <2>2. CASE TakeLease(a)
    BY <2>2, LeaseAssumption DEF TakeLease, Age
  <2>3. CASE RequestTouch(a)
    BY <2>3, AgeShift DEF RequestTouch
  <2>4. CASE TouchLease(a)
    BY <2>4 DEF TouchLease, Abort
  <2>5. CASE CancelRound(a)
    BY <2>5 DEF CancelRound, Abort
  <2>6. CASE FinishRound(a)
    BY <2>6 DEF FinishRound
  <2>7. CASE ReleaseLease(a)
    BY <2>7 DEF ReleaseLease, WithoutOwn
  <2>8. CASE PageHide(a)
    BY <2>8 DEF PageHide, Abort, WithoutOwn
  <2>9. CASE Crash(a)
    BY <2>9 DEF Crash
  <2> QED
    BY <1>1, <2>1, <2>2, <2>3, <2>4, <2>5, <2>6, <2>7, <2>8, <2>9 DEF AttemptStep
<1>2. CASE ReclaimStale
  BY <1>2 DEF ReclaimStale
<1>3. CASE LocksGoAway
  BY <1>3 DEF LocksGoAway
<1>4. CASE Tick
  <2>1. lease' \in Record \cup {None}
    BY <1>4, AgeShift DEF Tick, Shift
  <2>2. asked' \in [Attempts -> Age \cup {None}] /\ beat' \in [Attempts -> Age \cup {None}]
    BY <1>4, AgeShift DEF Tick, Shift
  <2>3. \A a \in Attempts : (asked'[a] = None <=> asked[a] = None)
                            /\ (beat'[a] = None <=> beat[a] = None)
    BY <1>4, AgeShift, LeaseAssumption DEF Tick, Shift, Age
  <2> QED
    BY <1>4, <2>1, <2>2, <2>3 DEF Tick, Shift
<1>5. CASE ClockStepsBack
  <2>0. /\ lease # None => lease.age > -MaxBack
        /\ \A a \in Attempts : (asked[a] # None => asked[a] > -MaxBack)
                               /\ (beat[a] # None => beat[a] > -MaxBack)
    BY <1>5, LeaseAssumption DEF ClockStepsBack, Ages, Age
  <2>1. lease' \in Record \cup {None}
    BY <1>5, <2>0, AgeShift DEF ClockStepsBack, Shift
  <2>2. asked' \in [Attempts -> Age \cup {None}] /\ beat' \in [Attempts -> Age \cup {None}]
    BY <1>5, <2>0, AgeShift DEF ClockStepsBack, Shift
  <2>3. \A a \in Attempts : (asked'[a] = None <=> asked[a] = None)
                            /\ (beat'[a] = None <=> beat[a] = None)
    BY <1>5, <2>0, AgeShift, LeaseAssumption DEF ClockStepsBack, Shift, Age
  <2> QED
    BY <1>5, <2>1, <2>2, <2>3 DEF ClockStepsBack, Shift
<1>6. CASE UNCHANGED leaseVars
  BY <1>6 DEF leaseVars
<1> QED
  BY <1>1, <1>2, <1>3, <1>4, <1>5, <1>6 DEF LeaseNext

\* The lease record, the lock manager flag and the pending requests of every
\* attempt stay well formed in every behaviour of fusionWalletLease.ts.
THEOREM LeaseTypeCorrect == LeaseSpec => []LeaseTypeOK
<1>1. LeaseInit => LeaseTypeOK
  BY LeaseAssumption DEF LeaseInit, LeaseTypeOK, Phase
<1> QED
  BY <1>1, TypeStep, PTL DEF LeaseSpec

-----------------------------------------------------------------------------
\* The inductive invariant: who runs owns a record that everyone judges live.
IInv == LeaseTypeOK /\ HoldersAreFresh

\* One step keeps every running attempt the owner of a live record.  Only Tick
\* ages the record, and InTime bounds it; only TakeLease gives the record
\* away, and it finds a live record of a running attempt live.
LEMMA FreshStep == InGoodTime /\ IInv /\ [LeaseNext]_leaseVars => HoldersAreFresh'
<1> SUFFICES ASSUME InGoodTime, IInv, [LeaseNext]_leaseVars PROVE HoldersAreFresh'
  OBVIOUS
<1> USE LeaseAssumption DEF InGoodTime, IInv, LeaseTypeOK, HoldersAreFresh, OwnedBy, Record, Phase, Age
<1>0. LeaseTypeOK'
  BY TypeStep
<1>1. ASSUME NEW a \in Attempts, AttemptStep(a) PROVE HoldersAreFresh'
  <2>1. CASE RequestLease(a)
    BY <2>1 DEF RequestLease
  <2>2. CASE TakeLease(a)
    <3>1. CASE lease' = lease /\ phase' = [phase EXCEPT ![a] = "idle"]
      BY <2>2, <3>1 DEF TakeLease
    <3>2. CASE lease' # lease \/ phase' # [phase EXCEPT ![a] = "idle"]
      <4>1. \A b \in Attempts : phase[b] # "held"
        BY <2>2, <3>2 DEF TakeLease, leaseIsLive, AsCaptured
      <4>2. lease' = [owner |-> a, age |-> asked[a]] /\ lease' # None
        BY <2>2, <3>2 DEF TakeLease
      <4> QED
        BY <2>2, <3>2, <4>1, <4>2 DEF TakeLease
    <3> QED
      BY <3>1, <3>2
  <2>3. CASE RequestTouch(a)
    BY <2>3 DEF RequestTouch
  <2>4. CASE TouchLease(a)
    <3>1. CASE lease' = lease
      BY <2>4, <3>1 DEF TouchLease, Abort
    <3>2. CASE lease' # lease
      <4>1. lease' = [owner |-> a, age |-> beat[a]] /\ lease' # None /\ lease.owner = a
        BY <2>4, <3>2 DEF TouchLease
      <4> QED
        BY <2>4, <3>2, <4>1 DEF TouchLease
    <3> QED
      BY <3>1, <3>2
  <2>5. CASE CancelRound(a)
    BY <2>5 DEF CancelRound, Abort
  <2>6. CASE FinishRound(a)
    BY <2>6 DEF FinishRound
  <2>7. CASE ReleaseLease(a)
    BY <2>7 DEF ReleaseLease, WithoutOwn
  <2>8. CASE PageHide(a)
    BY <2>8 DEF PageHide, Abort, WithoutOwn
  <2>9. CASE Crash(a)
    BY <2>9 DEF Crash
  <2> QED
    BY <1>1, <2>1, <2>2, <2>3, <2>4, <2>5, <2>6, <2>7, <2>8, <2>9 DEF AttemptStep
<1>2. CASE ReclaimStale
  BY <1>2 DEF ReclaimStale, leaseIsLive
<1>3. CASE LocksGoAway
  BY <1>3 DEF LocksGoAway
<1>4. CASE Tick
  <2> SUFFICES ASSUME NEW a \in Attempts, NEW b \in Attempts
               PROVE  /\ phase'[a] = "held" => OwnedBy(a)' /\ lease'.age < StaleAfter
                      /\ asked'[a] # None => asked'[a] < StaleAfter
                      /\ beat'[a] # None => beat'[a] < StaleAfter
                      /\ asked'[a] # None /\ phase'[b] = "held" => lease'.age - asked'[a] < StaleAfter
                      /\ asked'[a] # None /\ asked'[b] # None => asked'[b] - asked'[a] < StaleAfter
                      /\ asked'[a] # None /\ beat'[b] # None => beat'[b] - asked'[a] < StaleAfter
    BY DEF HoldersAreFresh
  <2>1. InTime(a) /\ LockComes(a) /\ phase' = phase
    BY <1>4 DEF Tick, Shift
  <2>2. \A t \in Int : /\ t + 1 < StaleAfter => Older(t) < StaleAfter
                       /\ Older(t) \in Int /\ Older(t) <= t + 1
                       /\ t < LeaseTTL => Older(t) = t + 1
    BY DEF Older, AgeCap
  <2>3. ASSUME NEW c \in Attempts, phase[c] = "held"
        PROVE  lease' = [owner |-> c, age |-> Older(lease.age)] /\ lease.age \in Int /\ OwnedBy(c)'
    <3>1. lease \in Record /\ lease # None /\ lease.owner = c /\ lease.age \in Int
      BY <2>3
    <3>2. lease' = [owner |-> c, age |-> Older(lease.age)]
      BY <1>4, <3>1 DEF Tick, Shift
    <3>3. lease' # None
      BY <2>2, <3>1, <3>2
    <3> QED
      BY <3>1, <3>2, <3>3
  <2>4. ASSUME NEW c \in Attempts
        PROVE  /\ asked'[c] = (IF asked[c] = None THEN None ELSE Older(asked[c]))
               /\ beat'[c] = (IF beat[c] = None THEN None ELSE Older(beat[c]))
    BY <1>4 DEF Tick, Shift
  <2>5. phase'[a] = "held" => OwnedBy(a)' /\ lease'.age < StaleAfter
    BY <2>1, <2>2, <2>3 DEF InTime
  <2>6. asked'[a] # None => asked'[a] < StaleAfter
    BY <2>1, <2>2, <2>4 DEF InTime
  <2>7. beat'[a] # None => beat'[a] < StaleAfter
    BY <2>1, <2>2, <2>4 DEF InTime
  <2>8. ASSUME asked'[a] # None
        PROVE  asked[a] # None /\ asked[a] \in Int /\ asked'[a] = asked[a] + 1
    BY <2>1, <2>2, <2>4, <2>8 DEF LockComes
  <2>9. asked'[a] # None /\ phase'[b] = "held" => lease'.age - asked'[a] < StaleAfter
    BY <2>1, <2>2, <2>3, <2>8
  <2>10. asked'[a] # None /\ asked'[b] # None => asked'[b] - asked'[a] < StaleAfter
    BY <2>2, <2>4, <2>8
  <2>11. asked'[a] # None /\ beat'[b] # None => beat'[b] - asked'[a] < StaleAfter
    BY <2>2, <2>4, <2>8
  <2> QED
    BY <2>5, <2>6, <2>7, <2>9, <2>10, <2>11
<1>5. CASE ClockStepsBack
  <2> SUFFICES ASSUME NEW a \in Attempts, NEW b \in Attempts
               PROVE  /\ phase'[a] = "held" => OwnedBy(a)' /\ lease'.age < StaleAfter
                      /\ asked'[a] # None => asked'[a] < StaleAfter
                      /\ beat'[a] # None => beat'[a] < StaleAfter
                      /\ asked'[a] # None /\ phase'[b] = "held" => lease'.age - asked'[a] < StaleAfter
                      /\ asked'[a] # None /\ asked'[b] # None => asked'[b] - asked'[a] < StaleAfter
                      /\ asked'[a] # None /\ beat'[b] # None => beat'[b] - asked'[a] < StaleAfter
    BY DEF HoldersAreFresh
  <2>1. phase' = phase
    BY <1>5 DEF ClockStepsBack, Shift
  <2>2. ASSUME NEW c \in Attempts, phase[c] = "held"
        PROVE  lease' = [owner |-> c, age |-> lease.age - 1] /\ lease.age \in Int /\ OwnedBy(c)'
    <3>1. lease \in Record /\ lease # None /\ lease.owner = c /\ lease.age \in Int
      BY <2>2
    <3>2. lease' = [owner |-> c, age |-> lease.age - 1]
      BY <1>5, <3>1 DEF ClockStepsBack, Shift, Younger
    <3>3. lease' # None
      BY <3>1, <3>2
    <3> QED
      BY <3>1, <3>2, <3>3
  <2>3. ASSUME NEW c \in Attempts
        PROVE  /\ asked'[c] = (IF asked[c] = None THEN None ELSE asked[c] - 1)
               /\ beat'[c] = (IF beat[c] = None THEN None ELSE beat[c] - 1)
    BY <1>5 DEF ClockStepsBack, Shift, Younger
  <2>4. phase'[a] = "held" => OwnedBy(a)' /\ lease'.age < StaleAfter
    BY <2>1, <2>2
  <2>5. (asked'[a] # None => asked'[a] < StaleAfter) /\ (beat'[a] # None => beat'[a] < StaleAfter)
    BY <2>3
  <2>6. asked'[a] # None /\ phase'[b] = "held" => lease'.age - asked'[a] < StaleAfter
    BY <2>1, <2>2, <2>3
  <2>7. asked'[a] # None /\ asked'[b] # None => asked'[b] - asked'[a] < StaleAfter
    BY <2>3
  <2>8. asked'[a] # None /\ beat'[b] # None => beat'[b] - asked'[a] < StaleAfter
    BY <2>3
  <2> QED
    BY <2>4, <2>5, <2>6, <2>7, <2>8
<1>6. CASE UNCHANGED leaseVars
  BY <1>6 DEF leaseVars
<1> QED
  BY <1>1, <1>2, <1>3, <1>4, <1>5, <1>6 DEF LeaseNext

\* The assumption holds throughout a behaviour or never.
LEMMA TimelyStays == [LeaseNext]_leaseVars => (InGoodTime <=> InGoodTime')
<1> SUFFICES ASSUME [LeaseNext]_leaseVars PROVE timely' = timely
  BY DEF InGoodTime
<1> QED
  BY DEF LeaseNext, leaseVars, AttemptStep, RequestLease, TakeLease, RequestTouch,
     TouchLease, CancelRound, FinishRound, ReleaseLease, PageHide, Crash,
     ReclaimStale, LocksGoAway, Tick, ClockStepsBack, Shift

\* While windows beat in time, whoever runs a round owns the durable record
\* and every other window sees it live (leaseIsLive).
THEOREM HoldersStayFresh == LeaseSpec => []HoldersAreFresh
<1>1. LeaseInit => HoldersAreFresh
  BY DEF LeaseInit, HoldersAreFresh
<1>2. IInv /\ [LeaseNext]_leaseVars => HoldersAreFresh'
  <2>1. CASE InGoodTime
    BY <2>1, FreshStep
  <2>2. CASE ~InGoodTime
    BY <2>2, TimelyStays DEF HoldersAreFresh
  <2> QED
    BY <2>1, <2>2
<1> QED
  BY <1>1, <1>2, LeaseTypeCorrect, PTL DEF LeaseSpec, IInv

\* While windows beat in time, startFusionRound never runs two rounds of one
\* wallet, whatever acquires, heartbeats, releases, reclaims, crashes and
\* clock steps interleave.
THEOREM AtMostOneRound == LeaseSpec => []OneRoundWhenTimely
<1>1. HoldersAreFresh => OneRoundWhenTimely
  BY DEF HoldersAreFresh, OneRoundWhenTimely, Running, OwnedBy
<1> QED
  BY <1>1, HoldersStayFresh, PTL

\* Who stands on the floor: see KeepsTheFloor.
OnFloor == {a \in Running : InGoodTime}

\* A step enters the empty floor, leaves it, or does not touch it.
LEMMA FloorStep == IInv /\ IInv' /\ [LeaseNext]_leaseVars => [Floor!FloorNext]_OnFloor
<1> SUFFICES ASSUME IInv, IInv', [LeaseNext]_leaseVars, OnFloor' # OnFloor
             PROVE  Floor!FloorNext
  BY DEF OnFloor
<1>0. InGoodTime /\ InGoodTime' /\ OnFloor = Running /\ OnFloor' = Running'
  BY TimelyStays DEF OnFloor
<1>1. \A b, c \in Running : b = c
  BY <1>0 DEF IInv, HoldersAreFresh, Running, OwnedBy
<1>2. PICK a \in Attempts : AttemptStep(a) /\ \A b \in Attempts \ {a} : phase'[b] = phase[b]
  BY <1>0 DEF Running, LeaseNext, leaseVars, AttemptStep, RequestLease, TakeLease, RequestTouch,
     TouchLease, Abort, CancelRound, FinishRound, ReleaseLease, PageHide, Crash,
     ReclaimStale, LocksGoAway, Tick, ClockStepsBack, Shift, IInv, LeaseTypeOK
<1>3. \A b, c \in Running' : b = c
  BY <1>0 DEF IInv, HoldersAreFresh, Running, OwnedBy
<1>4. CASE a \in Running
  <2>1. OnFloor' = {}
    BY <1>0, <1>1, <1>2, <1>3, <1>4 DEF Running
  <2> QED
    BY <1>0, <1>4, <2>1 DEF OnFloor, Floor!FloorNext, Floor!Leave, Running
<1>5. CASE a \notin Running
  <2>1. a \in Running'
    BY <1>0, <1>2, <1>5 DEF Running
  <2>2. Running' = {a} /\ Running = {}
    BY <1>0, <1>2, <1>3, <1>5, <2>1 DEF Running
  <2> QED
    BY <1>0, <2>2 DEF OnFloor, Floor!FloorNext, Floor!Enter
<1> QED
  BY <1>4, <1>5

\* While windows beat in time the lease implements the floor.
THEOREM LeaseKeepsTheFloor == LeaseSpec => KeepsTheFloor
<1>1. LeaseInit => Floor!FloorInit
  BY DEF LeaseInit, Floor!FloorInit, Running
<1>2. IInv /\ IInv' /\ [LeaseNext]_leaseVars => [Floor!FloorNext]_OnFloor
  BY FloorStep
<1> QED
  BY <1>1, <1>2, LeaseTypeCorrect, HoldersStayFresh, PTL
  DEF LeaseSpec, IInv, KeepsTheFloor, Floor!FloorSpec, OnFloor

-----------------------------------------------------------------------------
\* What a step may do to the record o of a live lease.
LeavesByItself(o) ==
  \/ lease' # None /\ lease'.owner = o
  \/ /\ lease' = None
     /\ phase[o] \in {"held", "aborted", "closing"} /\ phase'[o] # "held"
     /\ \A a \in Attempts \ {o} : phase'[a] = phase[a]

LEMMA LiveStep ==
  ASSUME LeaseTypeOK, [LeaseNext]_leaseVars, lease # None, lease.age + MaxBack < StaleAfter
  PROVE  LeavesByItself(lease.owner)
<1> DEFINE o == lease.owner
<1> USE LeaseAssumption DEF LeaseTypeOK, Record, Phase, Age, LeavesByItself
<1>0. o \in Attempts /\ lease.age \in Int /\ lease \in Record
  OBVIOUS
<1>1. CASE UNCHANGED lease
  BY <1>1
<1>2. ASSUME NEW a \in Attempts, AttemptStep(a) PROVE LeavesByItself(o)
  <2>1. CASE TakeLease(a)
    <3>1. asked[a] # None => lease.age - asked[a] < StaleAfter /\ lease.age - asked[a] < LeaseTTL
      BY <1>0
    <3>2. AsCaptured(a) = [owner |-> o, age |-> lease.age - asked[a]]
      BY DEF AsCaptured
    <3>3. asked[a] \in Int
      BY <2>1 DEF TakeLease
    <3>4. AsCaptured(a) # None
      BY <1>0, <3>2, <3>3
    <3>5. leaseIsLive(AsCaptured(a))
      BY <2>1, <3>1, <3>2, <3>3, <3>4 DEF leaseIsLive
    <3> QED
      BY <1>1, <2>1, <3>5 DEF TakeLease
  <2>2. CASE TouchLease(a)
    <3>1. CASE lease' = [owner |-> a, age |-> beat[a]] /\ o = a
      <4>1. lease' # None
        BY <2>2, <3>1 DEF TouchLease
      <4> QED
        BY <3>1, <4>1
    <3> QED
      BY <1>1, <2>2, <3>1 DEF TouchLease, OwnedBy
  <2>3. CASE ReleaseLease(a)
    BY <1>0, <1>1, <2>3 DEF ReleaseLease, WithoutOwn, OwnedBy
  <2>4. CASE PageHide(a)
    BY <1>0, <1>1, <2>4 DEF PageHide, Abort, WithoutOwn, OwnedBy
  <2> QED
    BY <1>1, <1>2, <2>1, <2>2, <2>3, <2>4
    DEF AttemptStep, RequestLease, RequestTouch, CancelRound, FinishRound, Crash
<1>3. CASE ReclaimStale
  BY <1>0, <1>3 DEF ReclaimStale, leaseIsLive
<1>4. CASE Tick \/ ClockStepsBack
  <2>1. PICK t \in Int : lease' = [owner |-> o, age |-> t]
    BY <1>0, <1>4 DEF Tick, ClockStepsBack, Shift, Older, Younger, AgeCap
  <2>2. lease' # None
    BY <1>0, <2>1
  <2> QED
    BY <2>1, <2>2
<1> QED
  BY <1>1, <1>2, <1>3, <1>4 DEF LeaseNext, leaseVars, LocksGoAway

\* A live record leaves its owner by the owner's own hand only: no takeover,
\* reclaim or late call of another attempt removes it.
THEOREM LiveRecordsStay == LeaseSpec => FreshRecordIsOwners
<1>1. LeaseTypeOK /\ [LeaseNext]_leaseVars =>
        [lease # None /\ lease.age + MaxBack < StaleAfter => LeavesByItself(lease.owner)]_leaseVars
  BY LiveStep
<1> QED
  BY <1>1, LeaseTypeCorrect, PTL DEF LeaseSpec, FreshRecordIsOwners, LeavesByItself
=============================================================================
