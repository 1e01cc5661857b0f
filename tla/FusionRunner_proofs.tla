------------------------ MODULE FusionRunner_proofs ------------------------
(***************************************************************************)
(* Proofs about FusionRunner for any number of windows, attempts, coins    *)
(* and transactions.                                                       *)
(***************************************************************************)
EXTENDS FusionRunner, TLAPS

-----------------------------------------------------------------------------
(* The inductive invariant. *)

HasRound == Committed \cup {"prepare"}
Unsigned == {"prepare", "reserved"}
Signed == Committed \ {"reserved"}

\* The steps, snapshots and rounds of the attempts are of their types.
AttemptsTyped ==
  /\ at \in [Attempts -> Steps]
  /\ snap \in [Attempts -> (SUBSET Coins) \cup {None}]
  /\ round \in [Attempts -> Round \cup {None}]
  /\ \A a \in Attempts : at[a] \in HasRound <=> round[a] # None

\* A round that is past its signatures has its own transaction.
RoundsSigned ==
  /\ \A a \in Attempts : at[a] \in Signed =>
       /\ round[a].tx \in Txs /\ tx[round[a].tx] # None
       /\ tx[round[a].tx].spends = round[a].coins
  /\ \A a \in Attempts : at[a] \in Unsigned => round[a].tx = None
  /\ \A a, b \in Attempts :
       at[a] \in Signed /\ at[b] \in Signed /\ round[a].tx = round[b].tx => a = b

SharedTyped ==
  /\ window \in [Attempts -> Windows]
  /\ timely \in BOOLEAN
  /\ lease \in Lease \cup {None}
  /\ held \in [Windows -> Attempts \cup {None}]
  /\ lock \in [Coins -> {"free", "held", "old"}]
  /\ chain \subseteq Coins
  /\ tx \in [Txs -> Tx \cup {None}]

TypeInv == AttemptsTyped /\ RoundsSigned /\ SharedTyped

\* While windows run in time, a round owns the live lease and its window knows.
RoundsAreHeld ==
  /\ \A w \in Windows : held[w] # None => window[held[w]] = w
  /\ timely => \A a \in Attempts : at[a] \in InRound =>
       lease # None /\ lease.live /\ lease.owner = a /\ held[window[a]] = a

\* Nobody is between the tracker and the lease, or in another round, while a
\* transaction is pending.
PendingIsAlone == timely => \A t \in Pending : \A a \in Attempts :
  /\ at[a] \notin Gated
  /\ at[a] \in InRound \ {"closing"} => at[a] \in {"relaying", "completing"} /\ round[a].tx = t

RunnerInv == TypeInv /\ RoundsAreHeld /\ RoundKeepsItsCoins /\ PendingIsAlone

-----------------------------------------------------------------------------
(* Lemmas *)

USE DEF HasRound, Unsigned, Signed, Committed, InRound, Gated, Steps

LEMMA TypeOKFollows == TypeInv => RunnerTypeOK
BY NoneAssumption DEF TypeInv, AttemptsTyped, RoundsSigned, SharedTyped, RunnerTypeOK

LEMMA LocksTyped ==
  ASSUME NEW S
  PROVE  Locks(S) \in [Coins -> {"free", "held", "old"}]
BY DEF Locks

LEMMA SpendableTyped ==
  ASSUME TypeInv
  PROVE  Spendable \subseteq Coins
BY DEF TypeInv, SharedTyped, Spendable

LEMMA RoundTyped ==
  ASSUME NEW S \in SUBSET Coins, NEW m \in Modes, NEW t \in Txs \cup {None}
  PROVE  [coins |-> S, via |-> m, tx |-> t] \in Round
BY DEF Round

LEMMA RoundFields ==
  ASSUME NEW r \in Round
  PROVE  r.coins \in SUBSET Coins /\ r.via \in Modes /\ r.tx \in Txs \cup {None}
BY DEF Round

LEMMA TxFields ==
  ASSUME NEW r \in Tx
  PROVE  r.spends \in SUBSET Coins /\ r.rec \in {"none", "pending", "seen"} /\ r.live \in BOOLEAN
BY DEF Tx

\* Steps that keep the round of a and take no transaction away.
LEMMA GoKeeps ==
  ASSUME TypeInv, NEW a \in Attempts, NEW s \in Steps, Go(a, s),
         s \in HasRound <=> at[a] \in HasRound,
         s \in Signed <=> at[a] \in Signed,
         \A t \in Txs : tx[t] # None => tx'[t] # None /\ tx'[t].spends = tx[t].spends
  PROVE  AttemptsTyped' /\ RoundsSigned'
<1>1. AttemptsTyped'
  BY DEF TypeInv, AttemptsTyped, Go
<1>2. \A b \in Attempts : (at'[b] \in Signed <=> at[b] \in Signed) /\ (at'[b] \in Unsigned <=> at[b] \in Unsigned)
  BY DEF TypeInv, AttemptsTyped, Go
<1>3. RoundsSigned'
  BY <1>2 DEF TypeInv, RoundsSigned, Go
<1> QED BY <1>1, <1>3

LEMMA StopKeeps ==
  ASSUME TypeInv, NEW a \in Attempts, Stop(a), at[a] \notin HasRound, tx' = tx
  PROVE  AttemptsTyped' /\ RoundsSigned'
<1>1. AttemptsTyped'
  BY DEF TypeInv, AttemptsTyped, Stop
<1>2. RoundsSigned'
  BY DEF TypeInv, AttemptsTyped, RoundsSigned, Stop
<1> QED BY <1>1, <1>2

LEMMA EndKeeps ==
  ASSUME TypeInv, NEW a \in Attempts, End(a),
         \A t \in Txs : tx[t] # None /\ (at[a] \in Signed => t # round[a].tx)
           => tx'[t] # None /\ tx'[t].spends = tx[t].spends
  PROVE  AttemptsTyped' /\ RoundsSigned'
<1>1. AttemptsTyped'
  BY DEF TypeInv, AttemptsTyped, End
<1>2. \A b \in Attempts : at'[b] \in HasRound => b # a /\ at'[b] = at[b] /\ round'[b] = round[b]
  BY DEF TypeInv, AttemptsTyped, End
<1>3. RoundsSigned'
  BY <1>2 DEF TypeInv, RoundsSigned
<1> QED BY <1>1, <1>3

\* A record of a transaction changes, not its coins.
LEMMA SettleTyped ==
  ASSUME TypeInv, NEW t \in Txs, tx[t] # None,
         NEW rec \in {"none", "pending", "seen"}, NEW live \in BOOLEAN, Settle(t, rec, live)
  PROVE  /\ tx' \in [Txs -> Tx \cup {None}]
         /\ \A u \in Txs : tx[u] # None => tx'[u] # None /\ tx'[u].spends = tx[u].spends
         /\ \A u \in Txs : u # t => tx'[u] = tx[u]
         /\ tx'[t].rec = rec
<1> DEFINE r == [spends |-> tx[t].spends, rec |-> rec, live |-> live]
<1>1. r \in Tx
  BY TxFields DEF TypeInv, SharedTyped, Tx
<1>2. r # None
  BY <1>1, NoneAssumption
<1>3. tx' = [tx EXCEPT ![t] = r]
  BY DEF Settle
<1>4. r.spends = tx[t].spends /\ r.rec = rec
  OBVIOUS
<1> HIDE DEF r
<1> QED BY <1>1, <1>2, <1>3, <1>4 DEF TypeInv, SharedTyped

LEMMA WithoutTyped ==
  ASSUME TypeInv, NEW t
  PROVE  /\ Without(t) \in [Txs -> Tx \cup {None}]
         /\ \A u \in Txs : u # t => Without(t)[u] = tx[u]
         /\ \A u \in Txs : Without(t)[u] = tx[u] \/ Without(t)[u] = None
BY DEF TypeInv, SharedTyped, Without

LEMMA SelectKeeps ==
  ASSUME TypeInv, NEW a \in Attempts, Select(a)
  PROVE  TypeInv'
<1>1. SharedTyped'
  BY DEF TypeInv, SharedTyped, Select
<1>2. Offered(a) \subseteq Coins
  BY SpendableTyped DEF Offered, TypeInv, AttemptsTyped
<1>3. CASE End(a)
  BY <1>1, <1>3, EndKeeps DEF TypeInv, Select
<1>4. CASE ~End(a)
  <2>1. PICK S \in (SUBSET Offered(a)) \ {{}}, m \in Modes :
          round' = [round EXCEPT ![a] = [coins |-> S, via |-> m, tx |-> None]]
    BY <1>4 DEF Select
  <2>2. snap' = [snap EXCEPT ![a] = None] /\ at' = [at EXCEPT ![a] = "prepare"] /\ tx' = tx
    BY <1>4 DEF Select
  <2> DEFINE r == [coins |-> S, via |-> m, tx |-> None]
  <2>3. r \in Round /\ r # None /\ r.tx = None
    BY <1>2, RoundTyped, NoneAssumption
  <2>4. round' = [round EXCEPT ![a] = r]
    BY <2>1
  <2> HIDE DEF r
  <2>5. AttemptsTyped'
    BY <2>2, <2>3, <2>4 DEF TypeInv, AttemptsTyped
  <2>6. RoundsSigned'
    BY <2>2, <2>3, <2>4 DEF TypeInv, AttemptsTyped, RoundsSigned
  <2> QED BY <1>1, <2>5, <2>6 DEF TypeInv
<1> QED BY <1>3, <1>4

LEMMA ReserveKeeps ==
  ASSUME TypeInv, NEW a \in Attempts, at[a] = "prepare", NEW S \in SUBSET Coins,
         Reserve(a, S), tx' = tx
  PROVE  AttemptsTyped' /\ RoundsSigned'
<1> DEFINE r == [coins |-> S, via |-> round[a].via, tx |-> None]
<1>1. r \in Round /\ r # None /\ r.tx = None
  BY RoundTyped, RoundFields, NoneAssumption DEF TypeInv, AttemptsTyped
<1>2. round' = [round EXCEPT ![a] = r]
  BY DEF Reserve
<1> HIDE DEF r
<1>3. AttemptsTyped'
  BY <1>1, <1>2 DEF TypeInv, AttemptsTyped, Reserve
<1>4. RoundsSigned'
  BY <1>1, <1>2 DEF TypeInv, AttemptsTyped, RoundsSigned, Reserve
<1> QED BY <1>3, <1>4

LEMMA PrepareKeeps ==
  ASSUME TypeInv, NEW a \in Attempts, PrepareP2p(a) \/ PrepareServer(a)
  PROVE  TypeInv'
<1>1. lock' \in [Coins -> {"free", "held", "old"}]
  BY LocksTyped DEF TypeInv, SharedTyped, PrepareP2p, PrepareServer
<1>2. SharedTyped'
  BY <1>1 DEF TypeInv, SharedTyped, PrepareP2p, PrepareServer
<1>3. round[a] \in Round
  BY DEF TypeInv, AttemptsTyped, PrepareP2p, PrepareServer
<1>4. P2pInputs(a) \subseteq Coins /\ round[a].coins \subseteq Coins
  BY <1>3, RoundFields, SpendableTyped DEF P2pInputs
<1>5. CASE End(a)
  BY <1>2, <1>5, EndKeeps DEF TypeInv, PrepareP2p, PrepareServer
<1>6. CASE ~End(a)
  <2>1. PICK S \in SUBSET Coins : Reserve(a, S)
    BY <1>4, <1>6 DEF PrepareP2p, PrepareServer
  <2> QED BY <1>2, <2>1, ReserveKeeps DEF TypeInv, PrepareP2p, PrepareServer
<1> QED BY <1>5, <1>6

LEMMA FailKeeps ==
  ASSUME TypeInv, NEW a \in Attempts, Fail(a)
  PROVE  TypeInv'
<1>1. SharedTyped'
  BY WithoutTyped, LocksTyped DEF TypeInv, SharedTyped, Fail
<1>2. \A t \in Txs : tx[t] # None /\ (at[a] \in Signed => t # round[a].tx)
        => tx'[t] # None /\ tx'[t].spends = tx[t].spends
  BY WithoutTyped, NoneAssumption DEF TypeInv, RoundsSigned, Fail
<1> QED BY <1>1, <1>2, EndKeeps DEF TypeInv, Fail

LEMMA SignKeeps ==
  ASSUME TypeInv, NEW a \in Attempts, Sign(a)
  PROVE  TypeInv'
<1>1. PICK t \in Txs :
        /\ tx[t] = None
        /\ tx' = [tx EXCEPT ![t] = [spends |-> round[a].coins, rec |-> "none", live |-> FALSE]]
        /\ round' = [round EXCEPT ![a] =
                       [coins |-> round[a].coins, via |-> round[a].via, tx |-> t]]
  BY DEF Sign
<1>2. round[a] \in Round
  BY DEF TypeInv, AttemptsTyped, Sign
<1> DEFINE r == [coins |-> round[a].coins, via |-> round[a].via, tx |-> t]
           e == [spends |-> round[a].coins, rec |-> "none", live |-> FALSE]
<1>3. r \in Round /\ r # None /\ r.tx = t /\ r.coins = round[a].coins
  BY <1>2, RoundTyped, RoundFields, NoneAssumption
<1>4. e \in Tx /\ e # None /\ e.spends = round[a].coins
  <2>1. round[a].coins \in SUBSET Coins
    BY <1>2, RoundFields
  <2>2. e \in Tx /\ e.spends = round[a].coins
    BY <2>1 DEF Tx
  <2> QED BY <2>2, NoneAssumption
<1>5. round' = [round EXCEPT ![a] = r] /\ tx' = [tx EXCEPT ![t] = e]
  BY <1>1
<1> HIDE DEF r, e
<1>6. AttemptsTyped'
  BY <1>3, <1>5 DEF TypeInv, AttemptsTyped, Sign
<1>7. SharedTyped'
  BY <1>4, <1>5 DEF TypeInv, SharedTyped, Sign
<1>8. \A b \in Attempts : b # a =>
        /\ at'[b] = at[b] /\ round'[b] = round[b]
        /\ at[b] \in Signed => round[b].tx # t
  BY <1>1, <1>5 DEF TypeInv, AttemptsTyped, RoundsSigned, Sign
<1>9. at'[a] = "joining" /\ round'[a] = r /\ tx'[t] = e /\ (\A u \in Txs : u # t => tx'[u] = tx[u])
  BY <1>5 DEF TypeInv, AttemptsTyped, SharedTyped, Sign
<1>10. RoundsSigned'
  BY <1>3, <1>4, <1>8, <1>9 DEF TypeInv, RoundsSigned
<1> QED BY <1>6, <1>7, <1>10 DEF TypeInv

LEMMA TrackKeeps ==
  ASSUME TypeInv, NEW a \in Attempts, Track(a)
  PROVE  TypeInv'
<1>1. round[a].tx \in Txs /\ tx[round[a].tx] # None /\ tx[round[a].tx].live \in BOOLEAN
  BY TxFields DEF TypeInv, SharedTyped, RoundsSigned, Track
<1>2. CASE Settle(round[a].tx, "pending", tx[round[a].tx].live) /\ Go(a, "relaying") /\ UNCHANGED lock
  <2>1. tx' \in [Txs -> Tx \cup {None}]
        /\ \A u \in Txs : tx[u] # None => tx'[u] # None /\ tx'[u].spends = tx[u].spends
    BY <1>1, <1>2, SettleTyped
  <2>2. AttemptsTyped' /\ RoundsSigned'
    BY <2>1, <1>2, GoKeeps DEF Track
  <2> QED BY <1>2, <2>1, <2>2 DEF TypeInv, SharedTyped, Track
<1>3. CASE End(a) /\ UNCHANGED tx
  <2>1. lock' \in [Coins -> {"free", "held", "old"}]
    BY <1>3, LocksTyped DEF TypeInv, SharedTyped, Track, Go, End
  <2>2. AttemptsTyped' /\ RoundsSigned'
    BY <1>3, EndKeeps
  <2> QED BY <1>3, <2>1, <2>2 DEF TypeInv, SharedTyped, Track
<1> QED BY <1>2, <1>3 DEF Track

LEMMA ApplyTyped ==
  ASSUME TypeInv, NEW t \in Txs, tx[t] # None, Apply(t)
  PROVE  /\ tx' \in [Txs -> Tx \cup {None}]
         /\ chain' \subseteq Coins
         /\ \A u \in Txs : tx[u] # None => tx'[u] # None /\ tx'[u].spends = tx[u].spends
         /\ \A u \in Txs : u # t => tx'[u] = tx[u]
         /\ tx'[t].rec = tx[t].rec
<1>1. tx[t].rec \in {"none", "pending", "seen"}
  BY TxFields DEF TypeInv, SharedTyped
<1> QED BY <1>1, SettleTyped DEF Apply, TypeInv, SharedTyped

LEMMA RelayKeeps ==
  ASSUME TypeInv, NEW a \in Attempts, RelayVerified(a) \/ RelayUnsure(a) \/ RelayRejected(a)
  PROVE  TypeInv'
<1> DEFINE t == round[a].tx
<1>1. at[a] = "relaying" /\ t \in Txs /\ tx[t] # None
  BY DEF TypeInv, RoundsSigned, RelayVerified, RelayUnsure, RelayRejected
<1>2. CASE RelayVerified(a)
  <2>1. Apply(t) /\ Go(a, "completing")
    BY <1>2 DEF RelayVerified
  <2>2. AttemptsTyped' /\ RoundsSigned'
    BY <1>1, <2>1, ApplyTyped, GoKeeps
  <2> QED BY <1>1, <1>2, <2>1, <2>2, ApplyTyped DEF TypeInv, SharedTyped, RelayVerified
<1>3. CASE RelayUnsure(a)
  <2>1. /\ tx' \in [Txs -> Tx \cup {None}] /\ chain' \subseteq Coins
        /\ \A u \in Txs : tx[u] # None => tx'[u] # None /\ tx'[u].spends = tx[u].spends
    BY <1>1, <1>3, ApplyTyped DEF RelayUnsure, TypeInv, SharedTyped
  <2>2. AttemptsTyped' /\ RoundsSigned'
    BY <1>3, <2>1, EndKeeps DEF RelayUnsure
  <2>3. lock' \in [Coins -> {"free", "held", "old"}]
    BY <1>3, LocksTyped DEF TypeInv, SharedTyped, RelayUnsure
  <2> QED BY <1>3, <2>1, <2>2, <2>3 DEF TypeInv, SharedTyped, RelayUnsure
<1>4. CASE RelayRejected(a)
  <2>1. \A u \in Txs : tx[u] # None /\ (at[a] \in Signed => u # t)
          => tx'[u] # None /\ tx'[u].spends = tx[u].spends
    BY <1>1, <1>4, WithoutTyped DEF RelayRejected
  <2>2. AttemptsTyped' /\ RoundsSigned'
    BY <1>4, <2>1, EndKeeps DEF RelayRejected
  <2>3. lock' \in [Coins -> {"free", "held", "old"}] /\ tx' \in [Txs -> Tx \cup {None}]
    BY <1>4, LocksTyped, WithoutTyped DEF RelayRejected
  <2> QED BY <1>4, <2>2, <2>3 DEF TypeInv, SharedTyped, RelayRejected
<1> QED BY <1>2, <1>3, <1>4

LEMMA CompleteKeeps ==
  ASSUME TypeInv, NEW a \in Attempts, Complete(a)
  PROVE  TypeInv'
<1>1. round[a].tx \in Txs /\ tx[round[a].tx] # None /\ tx[round[a].tx].live \in BOOLEAN
  BY TxFields DEF TypeInv, SharedTyped, RoundsSigned, Complete
<1>2. tx' \in [Txs -> Tx \cup {None}]
      /\ \A u \in Txs : tx[u] # None => tx'[u] # None /\ tx'[u].spends = tx[u].spends
  BY <1>1, SettleTyped DEF Complete
<1>3. AttemptsTyped' /\ RoundsSigned'
  BY <1>2, EndKeeps DEF Complete
<1> QED BY <1>2, <1>3, LocksTyped DEF TypeInv, SharedTyped, Complete

LEMMA CloseKeeps ==
  ASSUME TypeInv, NEW w \in Windows, Close(w)
  PROVE  TypeInv'
<1>1. SharedTyped'
  BY DEF TypeInv, SharedTyped, Close, WithoutOwn
<1>2. AttemptsTyped'
  <2>1. at' \in [Attempts -> Steps]
    BY DEF TypeInv, AttemptsTyped, Close
  <2>2. snap' \in [Attempts -> (SUBSET Coins) \cup {None}]
    BY DEF TypeInv, AttemptsTyped, Close
  <2>3. round' \in [Attempts -> Round \cup {None}]
    BY DEF TypeInv, AttemptsTyped, Close
  <2>4. \A a \in Attempts : at'[a] \in HasRound <=> round'[a] # None
    BY DEF TypeInv, AttemptsTyped, Close
  <2> QED BY <2>1, <2>2, <2>3, <2>4 DEF AttemptsTyped
<1>3. \A a \in Attempts : at'[a] # "idle" => at'[a] = at[a] /\ round'[a] = round[a]
  BY DEF Close
<1>4. RoundsSigned'
  BY <1>3 DEF TypeInv, RoundsSigned, Close
<1> QED BY <1>1, <1>2, <1>4 DEF TypeInv

LEMMA EntryKeeps ==
  ASSUME TypeInv, NEW a \in Attempts,
         \/ TakeSnapshot(a) \/ Gate(a) \/ Recheck(a) \/ Tidy(a) \/ Reclaim(a) \/ Acquire(a)
         \/ EndRound(a) \/ DropLease(a) \/ Assemble(a) \/ Interrupt(a)
  PROVE  TypeInv'
<1>1. CASE TakeSnapshot(a)
  BY <1>1, SpendableTyped DEF TypeInv, AttemptsTyped, RoundsSigned, SharedTyped, TakeSnapshot
<1>2. CASE Gate(a)
  BY <1>2, GoKeeps DEF TypeInv, SharedTyped, Gate
<1>3. CASE Recheck(a)
  <2>1. SharedTyped' /\ tx' = tx /\ at[a] = "recheck"
    BY <1>3 DEF TypeInv, SharedTyped, Recheck
  <2>2. AttemptsTyped' /\ RoundsSigned'
    BY <1>3, <2>1, GoKeeps, StopKeeps DEF Recheck
  <2> QED BY <2>1, <2>2 DEF TypeInv
<1>4. CASE Tidy(a)
  <2>1. SharedTyped' /\ tx' = tx /\ at[a] = "tidy"
    BY <1>4 DEF TypeInv, SharedTyped, Tidy
  <2>2. Stop(a) \/ Go(a, "reclaim") \/ Go(a, "acquire")
    BY <1>4 DEF Tidy
  <2>3. AttemptsTyped' /\ RoundsSigned'
    BY <2>1, <2>2, GoKeeps, StopKeeps
  <2> QED BY <2>1, <2>3 DEF TypeInv
<1>5. CASE Reclaim(a)
  <2>1. SharedTyped' /\ tx' = tx /\ at[a] = "reclaim"
    BY <1>5, LocksTyped DEF TypeInv, SharedTyped, Reclaim, reclaimStaleRoundState
  <2>2. AttemptsTyped' /\ RoundsSigned'
    BY <1>5, <2>1, GoKeeps, StopKeeps DEF Reclaim
  <2> QED BY <2>1, <2>2 DEF TypeInv
<1>6. CASE Acquire(a)
  <2> DEFINE own == [owner |-> a, live |-> TRUE]
  <2>3. own \in Lease
    BY DEF Lease
  <2>4. lease' = lease \/ lease' = own
    BY <1>6 DEF Acquire
  <2>5. held' \in [Windows -> Attempts \cup {None}]
    BY <1>6 DEF TypeInv, SharedTyped, Acquire
  <2> HIDE DEF own
  <2>1. SharedTyped' /\ tx' = tx /\ at[a] = "acquire"
    BY <1>6, <2>3, <2>4, <2>5 DEF TypeInv, SharedTyped, Acquire
  <2>2. AttemptsTyped' /\ RoundsSigned'
    BY <1>6, <2>1, GoKeeps, StopKeeps DEF Acquire
  <2> QED BY <2>1, <2>2 DEF TypeInv
<1>7. CASE EndRound(a)
  <2>1. SharedTyped' /\ tx' = tx /\ at[a] = "closing"
    BY <1>7 DEF TypeInv, SharedTyped, EndRound
  <2> QED BY <1>7, <2>1, GoKeeps DEF TypeInv, EndRound
<1>8. CASE DropLease(a)
  <2>1. SharedTyped' /\ tx' = tx /\ at[a] = "dropping"
    BY <1>8 DEF TypeInv, SharedTyped, DropLease, WithoutOwn
  <2> QED BY <1>8, <2>1, StopKeeps DEF TypeInv, DropLease
<1>9. CASE Assemble(a)
  <2>1. SharedTyped' /\ tx' = tx /\ at[a] = "joining"
    BY <1>9 DEF TypeInv, SharedTyped, Assemble
  <2>2. Go(a, "completing") \/ Go(a, "tracking")
    BY <1>9 DEF Assemble
  <2>3. AttemptsTyped' /\ RoundsSigned'
    BY <2>1, <2>2, GoKeeps
  <2> QED BY <2>1, <2>3 DEF TypeInv
<1>10. CASE Interrupt(a)
  <2>1. SharedTyped' /\ tx' = tx
    BY <1>10 DEF TypeInv, SharedTyped, Interrupt
  <2> QED BY <1>10, <2>1, EndKeeps DEF TypeInv, Interrupt
<1> QED BY <1>1, <1>2, <1>3, <1>4, <1>5, <1>6, <1>7, <1>8, <1>9, <1>10

LEMMA WorldKeeps ==
  ASSUME TypeInv,
         \/ \E w \in Windows : Heal(w)
         \/ LeaseGoesStale
         \/ \E c \in Coins : LockExpires(c)
         \/ \E t \in Txs : LateRelay(t) \/ Resolve(t)
  PROVE  TypeInv'
<1>1. CASE \E w \in Windows : Heal(w)
  <2>1. SharedTyped' /\ UNCHANGED <<tx, at, snap, round>>
    BY <1>1, LocksTyped DEF TypeInv, SharedTyped, Heal, reclaimStaleRoundState
  <2> QED BY <2>1 DEF TypeInv, AttemptsTyped, RoundsSigned
<1>2. CASE LeaseGoesStale
  <2>1. SharedTyped' /\ UNCHANGED <<tx, at, snap, round>>
    BY <1>2 DEF TypeInv, SharedTyped, LeaseGoesStale, leaseIsLive, Lease
  <2> QED BY <2>1 DEF TypeInv, AttemptsTyped, RoundsSigned
<1>3. CASE \E c \in Coins : LockExpires(c)
  <2>1. SharedTyped' /\ UNCHANGED <<tx, at, snap, round>>
    BY <1>3 DEF TypeInv, SharedTyped, LockExpires
  <2> QED BY <2>1 DEF TypeInv, AttemptsTyped, RoundsSigned
<1>4. CASE \E t \in Txs : LateRelay(t) \/ Resolve(t)
  <2>1. PICK t \in Txs : LateRelay(t) \/ Resolve(t)
    BY <1>4
  <2>2. tx[t] # None /\ tx[t].live \in BOOLEAN
    BY <2>1, TxFields DEF TypeInv, SharedTyped, LateRelay, Resolve, Pending
  <2>3. /\ tx' \in [Txs -> Tx \cup {None}] /\ chain' \subseteq Coins
        /\ \A u \in Txs : tx[u] # None => tx'[u] # None /\ tx'[u].spends = tx[u].spends
    <3>1. CASE LateRelay(t)
      BY <3>1, <2>2, ApplyTyped DEF LateRelay
    <3>2. CASE Resolve(t)
      BY <3>2, <2>2, SettleTyped DEF Resolve, TypeInv, SharedTyped
    <3> QED BY <2>1, <3>1, <3>2
  <2>4. SharedTyped' /\ UNCHANGED <<at, snap, round>>
    BY <2>1, <2>3 DEF TypeInv, SharedTyped, LateRelay, Resolve
  <2> QED BY <2>3, <2>4 DEF TypeInv, AttemptsTyped, RoundsSigned
<1> QED BY <1>1, <1>2, <1>3, <1>4

LEMMA TypeStep ==
  ASSUME TypeInv, [Next]_runnerVars
  PROVE  TypeInv'
<1>1. CASE UNCHANGED runnerVars
  BY <1>1 DEF TypeInv, AttemptsTyped, RoundsSigned, SharedTyped, runnerVars
<1>2. CASE Next
  BY <1>2, SelectKeeps, PrepareKeeps, FailKeeps, SignKeeps, TrackKeeps, RelayKeeps,
     CompleteKeeps, CloseKeeps, EntryKeeps, WorldKeeps DEF Next
<1> QED BY <1>1, <1>2

-----------------------------------------------------------------------------
(* Rounds own the lease, and keep their coins. *)

\* What the steps of one attempt do to the others' steps and rounds.
LEMMA OthersStay ==
  ASSUME TypeInv, NEW a \in Attempts,
         \/ TakeSnapshot(a) \/ Gate(a) \/ Recheck(a) \/ Tidy(a) \/ Reclaim(a) \/ Acquire(a)
         \/ Select(a) \/ PrepareP2p(a) \/ PrepareServer(a) \/ Fail(a) \/ Interrupt(a)
         \/ Sign(a) \/ Assemble(a) \/ Track(a)
         \/ RelayVerified(a) \/ RelayUnsure(a) \/ RelayRejected(a)
         \/ Complete(a) \/ EndRound(a) \/ DropLease(a)
  PROVE  \A b \in Attempts : b # a => at'[b] = at[b] /\ round'[b] = round[b]
<1>1. CASE TakeSnapshot(a) \/ Gate(a) \/ Recheck(a) \/ Tidy(a) \/ Reclaim(a) \/ Acquire(a)
  BY <1>1 DEF TypeInv, AttemptsTyped, TakeSnapshot, Gate, Recheck, Tidy, Reclaim, Acquire, Go, Stop
<1>2. CASE Select(a) \/ PrepareP2p(a) \/ PrepareServer(a) \/ Fail(a) \/ Interrupt(a)
  BY <1>2 DEF TypeInv, AttemptsTyped, Select, PrepareP2p, PrepareServer, Reserve, Fail, Interrupt, Go, End
<1>3. CASE Sign(a) \/ Assemble(a) \/ Track(a)
  BY <1>3 DEF TypeInv, AttemptsTyped, Sign, Assemble, Track, Go, End
<1>4. CASE RelayVerified(a) \/ RelayUnsure(a) \/ RelayRejected(a)
  BY <1>4 DEF TypeInv, AttemptsTyped, RelayVerified, RelayUnsure, RelayRejected, Go, End
<1>5. CASE Complete(a) \/ EndRound(a) \/ DropLease(a)
  BY <1>5 DEF TypeInv, AttemptsTyped, Complete, EndRound, DropLease, Go, Stop, End
<1> QED BY <1>1, <1>2, <1>3, <1>4, <1>5

\* Steps of a running round leave lease and held alone, and stay a round's.
InsideStep(a) ==
  \/ Select(a) \/ PrepareP2p(a) \/ PrepareServer(a) \/ Fail(a) \/ Interrupt(a)
  \/ Sign(a) \/ Assemble(a) \/ Track(a)
  \/ RelayVerified(a) \/ RelayUnsure(a) \/ RelayRejected(a) \/ Complete(a)

LEMMA InsideIsInside ==
  ASSUME TypeInv, NEW a \in Attempts, InsideStep(a)
  PROVE  at[a] \in InRound /\ at'[a] \in InRound /\ UNCHANGED <<window, timely, lease, held>>
<1>1. CASE Select(a) \/ PrepareP2p(a) \/ PrepareServer(a) \/ Fail(a) \/ Interrupt(a)
  BY <1>1 DEF TypeInv, AttemptsTyped, Select, PrepareP2p, PrepareServer, Reserve, Fail, Interrupt, Go, End
<1>2. CASE Sign(a) \/ Assemble(a) \/ Track(a)
  BY <1>2 DEF TypeInv, AttemptsTyped, Sign, Assemble, Track, Go, End
<1>3. CASE RelayVerified(a) \/ RelayUnsure(a) \/ RelayRejected(a) \/ Complete(a)
  BY <1>3 DEF TypeInv, AttemptsTyped, RelayVerified, RelayUnsure, RelayRejected, Complete, Go, End
<1> QED BY <1>1, <1>2, <1>3 DEF InsideStep

LEMMA HeldStep ==
  ASSUME TypeInv, RoundsAreHeld, [Next]_runnerVars
  PROVE  RoundsAreHeld'
<1> USE DEF RoundsAreHeld
<1>1. CASE UNCHANGED runnerVars
  BY <1>1 DEF runnerVars
<1>2. ASSUME NEW a \in Attempts, InsideStep(a)
      PROVE  RoundsAreHeld'
  <2>1. at[a] \in InRound /\ at'[a] \in InRound /\ UNCHANGED <<window, timely, lease, held>>
    BY <1>2, InsideIsInside
  <2>2. \A b \in Attempts : b # a => at'[b] = at[b]
    BY <1>2, OthersStay DEF InsideStep
  <2> QED BY <2>1, <2>2
<1>3. ASSUME NEW a \in Attempts,
             TakeSnapshot(a) \/ Gate(a) \/ Recheck(a) \/ Tidy(a)
      PROVE  RoundsAreHeld'
  <2>1. at'[a] \notin InRound /\ UNCHANGED <<window, timely, lease, held>>
    BY <1>3 DEF TypeInv, AttemptsTyped, TakeSnapshot, Gate, Recheck, Tidy, Go, Stop
  <2>2. \A b \in Attempts : b # a => at'[b] = at[b]
    BY <1>3, OthersStay
  <2> QED BY <2>1, <2>2
<1>4. ASSUME NEW a \in Attempts, Reclaim(a)
      PROVE  RoundsAreHeld'
  <2>1. at'[a] \notin InRound /\ UNCHANGED <<window, timely, held>>
    BY <1>4 DEF TypeInv, AttemptsTyped, Reclaim, Go, Stop
  <2>2. \A b \in Attempts : b # a => at'[b] = at[b]
    BY <1>4, OthersStay
  <2>3. lease' = lease \/ ~leaseIsLive
    BY <1>4 DEF Reclaim, reclaimStaleRoundState
  <2> QED BY <2>1, <2>2, <2>3 DEF leaseIsLive
<1>5. ASSUME NEW a \in Attempts, Acquire(a)
      PROVE  RoundsAreHeld'
  <2>1. \A b \in Attempts : b # a => at'[b] = at[b]
    BY <1>5, OthersStay
  <2>2. CASE leaseIsLive
    BY <1>5, <2>1, <2>2 DEF TypeInv, AttemptsTyped, Acquire, Stop
  <2>3. CASE ~leaseIsLive
    <3>1. timely => \A b \in Attempts : at[b] \notin InRound
      BY <2>3 DEF leaseIsLive
    <3>2. lease' # None /\ lease'.live /\ lease'.owner = a
      <4>1. lease' = [owner |-> a, live |-> TRUE]
        BY <1>5, <2>3 DEF Acquire
      <4>2. [owner |-> a, live |-> TRUE] \in Lease
        BY DEF Lease
      <4> QED BY <4>1, <4>2, NoneAssumption
    <3>3. held' = [held EXCEPT ![window[a]] = a] /\ window' = window /\ timely' = timely
      BY <1>5, <2>3 DEF Acquire
    <3>4. window[a] \in Windows /\ held'[window[a]] = a
      BY <3>3 DEF TypeInv, SharedTyped
    <3>5. \A w \in Windows : held'[w] # None => window'[held'[w]] = w
      BY <3>3, <3>4 DEF TypeInv, SharedTyped
    <3> QED BY <2>1, <3>1, <3>2, <3>3, <3>4, <3>5
  <2> QED BY <2>2, <2>3
<1>6. ASSUME NEW a \in Attempts, EndRound(a)
      PROVE  RoundsAreHeld'
  <2>1. \A b \in Attempts : b # a => at'[b] = at[b]
    BY <1>6, OthersStay
  <2>2. at[a] \in InRound /\ at'[a] = "dropping" /\ UNCHANGED <<window, timely, lease>>
    BY <1>6 DEF TypeInv, AttemptsTyped, EndRound, Go
  <2>3. timely => \A b \in Attempts : at'[b] \notin InRound
    BY <2>1, <2>2
  <2>4. \A w \in Windows : held'[w] # None => held'[w] = held[w]
    BY <1>6 DEF TypeInv, SharedTyped, EndRound
  <2> QED BY <2>2, <2>3, <2>4
<1>7. ASSUME NEW a \in Attempts, DropLease(a)
      PROVE  RoundsAreHeld'
  <2>1. \A b \in Attempts : b # a => at'[b] = at[b]
    BY <1>7, OthersStay
  <2>2. at'[a] = "idle" /\ at[a] = "dropping" /\ UNCHANGED <<window, timely, held>>
    BY <1>7 DEF TypeInv, AttemptsTyped, DropLease, Stop
  <2>3. lease' = lease \/ lease.owner = a
    BY <1>7 DEF DropLease, WithoutOwn
  <2> QED BY <2>1, <2>2, <2>3
<1>8. ASSUME NEW w \in Windows, Heal(w)
      PROVE  RoundsAreHeld'
  BY <1>8 DEF Heal, reclaimStaleRoundState, leaseIsLive
<1>9. ASSUME NEW w \in Windows, Close(w)
      PROVE  RoundsAreHeld'
  <2>1. \A a \in Attempts : at'[a] \in InRound => at'[a] = at[a] /\ window[a] # w
    BY <1>9 DEF Close
  <2>2. \A v \in Windows : held'[v] = IF v = w THEN None ELSE held[v]
    BY <1>9 DEF TypeInv, SharedTyped, Close
  <2>3. UNCHANGED <<window, timely>>
    BY <1>9 DEF Close
  <2>4. lease' = lease \/ (held[w] # None /\ lease # None /\ lease.owner = held[w])
               \/ (held[w] = None /\ lease # None /\ lease.owner = None)
    BY <1>9 DEF Close, WithoutOwn
  <2>5. lease # None => lease.owner # None
    BY NoneAssumption DEF TypeInv, SharedTyped, Lease
  <2>6. ASSUME timely, NEW a \in Attempts, at'[a] \in InRound
        PROVE  lease' # None /\ lease'.live /\ lease'.owner = a /\ held'[window[a]] = a
    <3>1. lease # None /\ lease.live /\ lease.owner = a /\ held[window[a]] = a
      BY <2>1, <2>6
    <3>2. window[a] \in Windows /\ window[a] # w
      BY <2>1, <2>6 DEF TypeInv, SharedTyped
    <3>3. held[w] # a
      BY <3>2, NoneAssumption
    <3> QED BY <2>2, <2>4, <2>5, <3>1, <3>2, <3>3
  <2> QED BY <2>2, <2>3, <2>6
<1>10. CASE LeaseGoesStale
  BY <1>10 DEF LeaseGoesStale, leaseIsLive
<1>11. CASE \/ \E c \in Coins : LockExpires(c)
            \/ \E t \in Txs : LateRelay(t) \/ Resolve(t)
  BY <1>11 DEF LockExpires, LateRelay, Resolve
<1> QED
  BY <1>1, <1>2, <1>3, <1>4, <1>5, <1>6, <1>7, <1>8, <1>9, <1>10, <1>11 DEF Next, InsideStep

LEMMA LocksHold ==
  ASSUME NEW S, NEW c \in Coins, c \in S
  PROVE  Locks(S)[c] = "held"
BY DEF Locks

LEMMA KeepsCoinsStep ==
  ASSUME TypeInv, RoundsAreHeld, RoundKeepsItsCoins, [Next]_runnerVars
  PROVE  RoundKeepsItsCoins'
<1> USE DEF RoundKeepsItsCoins
<1>1. CASE UNCHANGED runnerVars
  BY <1>1 DEF runnerVars
<1>2. ASSUME NEW a \in Attempts, InsideStep(a)
      PROVE  RoundKeepsItsCoins'
  <2>1. at[a] \in InRound /\ UNCHANGED timely
    BY <1>2, InsideIsInside
  <2>2. timely => \A b \in Attempts : b # a => at'[b] \notin Committed
    BY <2>1, <1>2, OthersStay DEF RoundsAreHeld, InsideStep
  <2>3. at'[a] \in Committed =>
          \/ lock' = lock /\ at[a] \in Committed /\ round'[a].coins = round[a].coins
          \/ \A c \in round'[a].coins : lock'[c] = "held"
    <3>1. CASE Select(a) \/ Fail(a) \/ Interrupt(a) \/ Complete(a) \/ RelayUnsure(a) \/ RelayRejected(a)
      BY <3>1 DEF TypeInv, AttemptsTyped, Select, Fail, Interrupt, Complete, RelayUnsure,
         RelayRejected, End
    <3>2. CASE Assemble(a) \/ Track(a) \/ RelayVerified(a)
      BY <3>2 DEF TypeInv, AttemptsTyped, Assemble, Track, RelayVerified, Go, End
    <3>3. CASE Sign(a)
      BY <3>3 DEF TypeInv, AttemptsTyped, Sign
    <3>4. CASE PrepareP2p(a) \/ PrepareServer(a)
      <4>1. CASE End(a)
        BY <4>1 DEF TypeInv, AttemptsTyped, End
      <4>2. CASE ~End(a)
        <5>1. round[a] \in Round
          BY <3>4 DEF TypeInv, AttemptsTyped, PrepareP2p, PrepareServer
        <5>2. P2pInputs(a) \subseteq Coins /\ round[a].coins \subseteq Coins
          BY <5>1, RoundFields, SpendableTyped DEF P2pInputs
        <5>3. PICK S \in SUBSET Coins :
                Reserve(a, S) /\ (lock' = Locks(S) \/ lock' = Locks(Locked \cup S))
          BY <3>4, <4>2, <5>2 DEF PrepareP2p, PrepareServer
        <5>4. round'[a].coins = S
          BY <5>3 DEF TypeInv, AttemptsTyped, Reserve
        <5> QED BY <5>3, <5>4, LocksHold
      <4> QED BY <4>1, <4>2
    <3> QED BY <1>2, <3>1, <3>2, <3>3, <3>4 DEF InsideStep
  <2> QED BY <2>1, <2>2, <2>3
<1>3. ASSUME NEW a \in Attempts,
             \/ TakeSnapshot(a) \/ Gate(a) \/ Recheck(a) \/ Tidy(a) \/ Acquire(a)
             \/ EndRound(a) \/ DropLease(a)
      PROVE  RoundKeepsItsCoins'
  <2>1. at'[a] \notin Committed /\ UNCHANGED <<timely, lock>>
    BY <1>3 DEF TypeInv, AttemptsTyped, TakeSnapshot, Gate, Recheck, Tidy, Acquire,
       EndRound, DropLease, Go, Stop
  <2>2. \A b \in Attempts : b # a => at'[b] = at[b] /\ round'[b] = round[b]
    BY <1>3, OthersStay
  <2> QED BY <2>1, <2>2
<1>4. ASSUME NEW a \in Attempts, Reclaim(a)
      PROVE  RoundKeepsItsCoins'
  <2>1. at'[a] \notin Committed /\ UNCHANGED timely
    BY <1>4 DEF TypeInv, AttemptsTyped, Reclaim, Go, Stop
  <2>2. \A b \in Attempts : b # a => at'[b] = at[b] /\ round'[b] = round[b]
    BY <1>4, OthersStay
  <2>3. lock' = lock \/ ~leaseIsLive
    BY <1>4 DEF Reclaim, reclaimStaleRoundState
  <2> QED BY <2>1, <2>2, <2>3 DEF RoundsAreHeld, leaseIsLive
<1>5. ASSUME NEW w \in Windows, Heal(w)
      PROVE  RoundKeepsItsCoins'
  BY <1>5 DEF Heal, RoundsAreHeld, leaseIsLive
<1>6. ASSUME NEW w \in Windows, Close(w)
      PROVE  RoundKeepsItsCoins'
  <2>1. \A a \in Attempts : at'[a] # "idle" => at'[a] = at[a] /\ round'[a] = round[a]
    BY <1>6 DEF Close
  <2> QED BY <1>6, <2>1 DEF Close
<1>7. ASSUME NEW c \in Coins, LockExpires(c)
      PROVE  RoundKeepsItsCoins'
  <2>1. \A d \in Coins : lock'[d] = "free" => lock[d] = "free"
    BY <1>7 DEF TypeInv, SharedTyped, LockExpires
  <2>2. \A a \in Attempts : at[a] \in Committed => round[a].coins \subseteq Coins
    BY RoundFields DEF TypeInv, AttemptsTyped
  <2> QED BY <1>7, <2>1, <2>2 DEF LockExpires
<1>8. CASE \/ LeaseGoesStale \/ \E t \in Txs : LateRelay(t) \/ Resolve(t)
  BY <1>8 DEF LeaseGoesStale, LateRelay, Resolve
<1> QED BY <1>1, <1>2, <1>3, <1>4, <1>5, <1>6, <1>7, <1>8 DEF Next, InsideStep

-----------------------------------------------------------------------------
(* An unverified transaction keeps every other round out. *)

\* Of the steps that touch transactions, only trackAttempt makes one pending.
LEMMA PendingShrinks ==
  ASSUME TypeInv, NEW a \in Attempts,
         \/ Fail(a) \/ Sign(a) \/ Complete(a)
         \/ RelayVerified(a) \/ RelayUnsure(a) \/ RelayRejected(a)
  PROVE  Pending' \subseteq Pending
<1>1. CASE Fail(a)
  <2>1. \A u \in Txs : tx'[u] = tx[u] \/ tx'[u] = None
    BY <1>1, WithoutTyped DEF Fail
  <2> QED BY <2>1 DEF Pending
<1>2. CASE Sign(a)
  <2>1. PICK t \in Txs :
          tx' = [tx EXCEPT ![t] = [spends |-> round[a].coins, rec |-> "none", live |-> FALSE]]
    BY <1>2 DEF Sign
  <2>2. tx'[t].rec = "none" /\ \A u \in Txs : u # t => tx'[u] = tx[u]
    BY <2>1 DEF TypeInv, SharedTyped
  <2> QED BY <2>2 DEF Pending
<1>3. CASE Complete(a) \/ RelayVerified(a) \/ RelayUnsure(a) \/ RelayRejected(a)
  <2> DEFINE t == round[a].tx
  <2>1. t \in Txs /\ tx[t] # None /\ tx[t].live \in BOOLEAN
    BY <1>3, TxFields DEF TypeInv, SharedTyped, RoundsSigned, Complete, RelayVerified,
       RelayUnsure, RelayRejected
  <2>2. CASE Complete(a)
    <3>1. tx'[t].rec = "seen" /\ \A u \in Txs : u # t => tx'[u] = tx[u]
      BY <2>1, <2>2, SettleTyped DEF Complete
    <3> QED BY <3>1 DEF Pending
  <2>3. CASE RelayVerified(a) \/ RelayUnsure(a)
    <3>1. tx' = tx \/ (tx'[t].rec = tx[t].rec /\ \A u \in Txs : u # t => tx'[u] = tx[u])
      BY <2>1, <2>3, ApplyTyped DEF RelayVerified, RelayUnsure
    <3> QED BY <2>1, <3>1 DEF Pending
  <2>4. CASE RelayRejected(a)
    <3>1. \A u \in Txs : tx'[u] = tx[u] \/ tx'[u] = None
      BY <2>4, WithoutTyped DEF RelayRejected
    <3> QED BY <3>1 DEF Pending
  <2> QED BY <1>3, <2>2, <2>3, <2>4
<1> QED BY <1>1, <1>2, <1>3

LEMMA PendingStep ==
  ASSUME TypeInv, RoundsAreHeld, PendingIsAlone, [Next]_runnerVars
  PROVE  PendingIsAlone'
<1>1. CASE UNCHANGED <<timely, tx, at, round>>
  BY <1>1 DEF PendingIsAlone, Pending
<1>2. ASSUME NEW a \in Attempts, InsideStep(a), ~Track(a)
      PROVE  PendingIsAlone'
  <2>1. \A b \in Attempts : b # a => at'[b] = at[b] /\ round'[b] = round[b]
    BY <1>2, OthersStay DEF InsideStep
  <2>2. at[a] \in InRound /\ UNCHANGED timely
    BY <1>2, InsideIsInside
  <2>3. Pending' \subseteq Pending
    <3>1. CASE Fail(a) \/ Sign(a) \/ Complete(a)
               \/ RelayVerified(a) \/ RelayUnsure(a) \/ RelayRejected(a)
      BY <3>1, PendingShrinks
    <3>2. CASE Select(a) \/ PrepareP2p(a) \/ PrepareServer(a) \/ Interrupt(a) \/ Assemble(a)
      BY <3>2 DEF Pending, Select, PrepareP2p, PrepareServer, Interrupt, Assemble
    <3> QED BY <1>2, <3>1, <3>2 DEF InsideStep
  <2>4. at[a] \in {"relaying", "completing", "closing"} =>
          at'[a] = "closing" \/ (at'[a] = "completing" /\ at[a] = "relaying" /\ round'[a] = round[a])
    BY <1>2 DEF InsideStep, TypeInv, AttemptsTyped, Select, PrepareP2p, PrepareServer, Fail,
       Interrupt, Sign, Assemble, RelayVerified, RelayUnsure, RelayRejected, Complete, Go, End
  <2>5. ASSUME timely, NEW t \in Pending
        PROVE  /\ at'[a] = "closing" \/ (at'[a] = "completing" /\ round'[a].tx = t)
               /\ \A b \in Attempts : b # a =>
                    /\ at'[b] \notin Gated
                    /\ at'[b] \in InRound \ {"closing"} =>
                         at'[b] \in {"relaying", "completing"} /\ round'[b].tx = t
    BY <2>1, <2>2, <2>4, <2>5 DEF PendingIsAlone
  <2> QED BY <2>2, <2>3, <2>5 DEF PendingIsAlone
<1>3. ASSUME NEW a \in Attempts, Track(a)
      PROVE  PendingIsAlone'
  <2>1. \A b \in Attempts : b # a => at'[b] = at[b] /\ round'[b] = round[b]
    BY <1>3, OthersStay
  <2>2. at[a] = "tracking" /\ UNCHANGED timely
    BY <1>3 DEF Track
  <2>3. timely => Pending = {}
    BY <2>2 DEF PendingIsAlone
  <2>4. timely => \A b \in Attempts : b # a => at'[b] \notin Gated \cup InRound
    BY <1>3, <2>1, <2>2 DEF Track, RoundsAreHeld
  <2>5. round[a].tx \in Txs /\ tx[round[a].tx] # None /\ tx[round[a].tx].live \in BOOLEAN
    BY <1>3, TxFields DEF TypeInv, SharedTyped, RoundsSigned, Track
  <2>6. CASE Settle(round[a].tx, "pending", tx[round[a].tx].live) /\ Go(a, "relaying")
    <3>1. \A u \in Txs : u # round[a].tx => tx'[u] = tx[u]
      BY <2>5, <2>6, SettleTyped
    <3>2. timely => Pending' \subseteq {round[a].tx}
      BY <2>3, <3>1 DEF Pending
    <3>3. at'[a] = "relaying" /\ round'[a] = round[a]
      BY <2>6 DEF Go, TypeInv, AttemptsTyped
    <3> QED BY <2>2, <2>4, <3>2, <3>3 DEF PendingIsAlone
  <2>7. CASE End(a) /\ UNCHANGED tx
    BY <2>2, <2>3, <2>7 DEF PendingIsAlone, Pending
  <2> QED BY <1>3, <2>6, <2>7 DEF Track
<1>4. ASSUME NEW a \in Attempts,
             \/ TakeSnapshot(a) \/ Gate(a) \/ Recheck(a) \/ Tidy(a) \/ Reclaim(a) \/ Acquire(a)
             \/ EndRound(a) \/ DropLease(a)
      PROVE  PendingIsAlone'
  <2>1. \A b \in Attempts : b # a => at'[b] = at[b] /\ round'[b] = round[b]
    BY <1>4, OthersStay
  <2>2. UNCHANGED <<timely, tx, round>>
    BY <1>4 DEF TakeSnapshot, Gate, Recheck, Tidy, Reclaim, Acquire, EndRound, DropLease, Go, Stop
  <2>3. \/ at'[a] = at[a] \/ at'[a] \in {"idle", "recheck", "dropping"}
        \/ at[a] \in Gated \/ Pending = {}
    BY <1>4 DEF TypeInv, AttemptsTyped, TakeSnapshot, Gate, Recheck, Tidy, Reclaim, Acquire,
       EndRound, DropLease, Go, Stop
  <2> QED BY <2>1, <2>2, <2>3 DEF PendingIsAlone, Pending
<1>5. ASSUME NEW w \in Windows, Close(w)
      PROVE  PendingIsAlone'
  <2>1. \A a \in Attempts : at'[a] # "idle" => at'[a] = at[a] /\ round'[a] = round[a]
    BY <1>5 DEF Close
  <2>2. UNCHANGED <<timely, tx>>
    BY <1>5 DEF Close
  <2> QED BY <2>1, <2>2 DEF PendingIsAlone, Pending
<1>6. ASSUME NEW t \in Txs, LateRelay(t) \/ Resolve(t)
      PROVE  PendingIsAlone'
  <2>1. tx[t] # None /\ tx[t].live \in BOOLEAN
    BY <1>6, TxFields DEF TypeInv, SharedTyped, LateRelay, Resolve, Pending
  <2>2. (\A u \in Txs : u # t => tx'[u] = tx[u]) /\ (tx'[t].rec = tx[t].rec \/ tx'[t].rec = "seen")
    BY <1>6, <2>1, ApplyTyped, SettleTyped DEF LateRelay, Resolve
  <2>3. Pending' \subseteq Pending
    BY <2>1, <2>2 DEF Pending
  <2>4. UNCHANGED <<timely, at, round>>
    BY <1>6 DEF LateRelay, Resolve
  <2> QED BY <2>3, <2>4 DEF PendingIsAlone
<1>7. CASE \/ UNCHANGED runnerVars \/ LeaseGoesStale
           \/ \E w \in Windows : Heal(w)
           \/ \E c \in Coins : LockExpires(c)
  BY <1>1, <1>7 DEF runnerVars, LeaseGoesStale, Heal, LockExpires
<1> QED BY <1>2, <1>3, <1>4, <1>5, <1>6, <1>7 DEF Next, InsideStep

-----------------------------------------------------------------------------
(* The theorems. *)

LEMMA InvInit == RunnerInit => RunnerInv
<1> SUFFICES ASSUME RunnerInit PROVE RunnerInv
  OBVIOUS
<1>1. TypeInv
  <2>1. SharedTyped
    BY RunnerAssumption DEF RunnerInit, SharedTyped
  <2>2. AttemptsTyped /\ RoundsSigned
    BY DEF RunnerInit, AttemptsTyped, RoundsSigned
  <2> QED BY <2>1, <2>2 DEF TypeInv
<1>2. RoundsAreHeld /\ RoundKeepsItsCoins /\ PendingIsAlone
  BY DEF RunnerInit, RoundsAreHeld, RoundKeepsItsCoins, PendingIsAlone, Pending
<1> QED BY <1>1, <1>2 DEF RunnerInv

\* The inductive invariant holds in every reachable state of FusionRunner.
THEOREM RunnerInvariant == RunnerSpec => []RunnerInv
<1>1. RunnerInv /\ [Next]_runnerVars => RunnerInv'
  BY TypeStep, HeldStep, KeepsCoinsStep, PendingStep DEF RunnerInv
<1> QED BY InvInit, <1>1, PTL DEF RunnerSpec

\* FusionRunner's type invariant, and that a round records, hands over and
\* completes only a transaction it signed with the coins it reserved.
THEOREM RunnerTypeCorrect == RunnerSpec => []RunnerTypeOK
<1>1. RunnerInv => RunnerTypeOK
  BY TypeOKFollows DEF RunnerInv
<1> QED BY <1>1, RunnerInvariant, PTL

\* reclaimStaleRoundState, clearOutpointReservations and the finally of another
\* attempt never free a coin of a running round (fusionRoundState.ts,
\* FusionRunnerService.ts, FusionP2pService.ts), while windows run in time.
THEOREM RoundsKeepTheirCoins == RunnerSpec => []RoundKeepsItsCoins
<1>1. RunnerInv => RoundKeepsItsCoins
  BY DEF RunnerInv
<1> QED BY <1>1, RunnerInvariant, PTL

\* The finally of one attempt never deletes the heldLeases entry of another.
THEOREM WindowsKnowTheirRounds == RunnerSpec => []WindowKnowsItsRound
<1>1. RunnerInv => WindowKnowsItsRound
  BY DEF RunnerInv, RoundsAreHeld, WindowKnowsItsRound
<1> QED BY <1>1, RunnerInvariant, PTL

\* The look at the tracker before the lease suffices: a round never runs beside
\* an unverified Fusion of another round.
THEOREM PendingShutsOutOthers == RunnerSpec => []PendingShutsOut
<1>1. RunnerInv => PendingShutsOut
  BY DEF RunnerInv, PendingIsAlone, PendingShutsOut
<1> QED BY <1>1, RunnerInvariant, PTL

-----------------------------------------------------------------------------
(* The floor. *)

OnFloor == {a \in Attempts : timely /\ at[a] \in InRound}

\* A step that keeps one attempt inside, or leaves everybody where they were.
LEMMA FloorStays ==
  ASSUME UNCHANGED timely, \A a \in Attempts : at'[a] \in InRound <=> at[a] \in InRound
  PROVE  UNCHANGED OnFloor
BY DEF OnFloor

LEMMA FloorStep ==
  ASSUME TypeInv, RoundsAreHeld, [Next]_runnerVars
  PROVE  [Floor!FloorNext]_OnFloor
<1> USE DEF Floor!FloorNext, Floor!Enter, Floor!Leave, OnFloor
<1>1. CASE UNCHANGED <<timely, at>>
  BY <1>1, FloorStays
<1>2. ASSUME NEW a \in Attempts, InsideStep(a)
      PROVE  UNCHANGED OnFloor
  <2>1. at[a] \in InRound /\ at'[a] \in InRound /\ UNCHANGED timely
    BY <1>2, InsideIsInside
  <2>2. \A b \in Attempts : b # a => at'[b] = at[b]
    BY <1>2, OthersStay DEF InsideStep
  <2> QED BY <2>1, <2>2, FloorStays
\* Before the lease and after the finally nobody is inside.
<1>3. ASSUME NEW a \in Attempts,
             \/ TakeSnapshot(a) \/ Gate(a) \/ Recheck(a) \/ Tidy(a) \/ Reclaim(a) \/ DropLease(a)
      PROVE  UNCHANGED OnFloor
  <2>1. at[a] \notin InRound /\ at'[a] \notin InRound /\ UNCHANGED timely
    BY <1>3 DEF TypeInv, AttemptsTyped, TakeSnapshot, Gate, Recheck, Tidy, Reclaim, DropLease,
       Go, Stop
  <2>2. \A b \in Attempts : b # a => at'[b] = at[b]
    BY <1>3, OthersStay
  <2> QED BY <2>1, <2>2, FloorStays
\* acquireRoundLease finds no live lease, so no round.
<1>4. ASSUME NEW a \in Attempts, Acquire(a)
      PROVE  [Floor!FloorNext]_OnFloor
  <2>1. UNCHANGED timely /\ \A b \in Attempts : b # a => at'[b] = at[b]
    BY <1>4, OthersStay DEF Acquire
  <2>2. CASE leaseIsLive
    <3>1. at[a] \notin InRound /\ at'[a] \notin InRound
      BY <1>4, <2>2 DEF TypeInv, AttemptsTyped, Acquire, Stop
    <3> QED BY <2>1, <3>1, FloorStays
  <2>3. CASE ~leaseIsLive
    <3>1. timely => \A b \in Attempts : at[b] \notin InRound
      BY <2>3 DEF RoundsAreHeld, leaseIsLive
    <3>2. at'[a] = "select"
      BY <1>4, <2>3 DEF TypeInv, AttemptsTyped, Acquire, Go
    <3>3. CASE timely
      <4>1. OnFloor = {} /\ OnFloor' = {a}
        BY <2>1, <3>1, <3>2, <3>3
      <4> QED BY <4>1
    <3>4. CASE ~timely
      BY <2>1, <3>4
    <3> QED BY <3>3, <3>4
  <2> QED BY <2>2, <2>3
\* Whoever stands on the floor stands there alone.
<1>5. \A a, b \in Attempts : a \in OnFloor /\ b \in OnFloor => a = b
  BY DEF RoundsAreHeld
<1>6. ASSUME NEW a \in Attempts, EndRound(a)
      PROVE  [Floor!FloorNext]_OnFloor
  <2>1. UNCHANGED timely /\ \A b \in Attempts : b # a => at'[b] = at[b]
    BY <1>6, OthersStay DEF EndRound
  <2>2. at[a] \in InRound /\ at'[a] = "dropping"
    BY <1>6 DEF TypeInv, AttemptsTyped, EndRound, Go
  <2>3. CASE timely
    <3>1. a \in OnFloor /\ OnFloor' = {}
      BY <1>5, <2>1, <2>2, <2>3
    <3> QED BY <3>1
  <2>4. CASE ~timely
    BY <2>1, <2>4
  <2> QED BY <2>3, <2>4
\* A window that goes away takes its round along, or none of its attempts ran.
<1>7. ASSUME NEW w \in Windows, Close(w)
      PROVE  [Floor!FloorNext]_OnFloor
  <2>1. UNCHANGED timely /\ \A b \in Attempts : at'[b] = IF window[b] = w THEN "idle" ELSE at[b]
    BY <1>7 DEF Close
  <2>2. CASE \E a \in OnFloor : window[a] = w
    <3>1. PICK a \in OnFloor : window[a] = w
      BY <2>2
    <3>2. OnFloor' = {}
      BY <1>5, <2>1, <3>1
    <3> QED BY <3>1, <3>2
  <2>3. CASE \A a \in OnFloor : window[a] # w
    <3>1. OnFloor' = OnFloor
      BY <2>1, <2>3
    <3> QED BY <3>1
  <2> QED BY <2>2, <2>3
<1>8. CASE \/ UNCHANGED runnerVars \/ LeaseGoesStale
           \/ \E w \in Windows : Heal(w)
           \/ \E c \in Coins : LockExpires(c)
           \/ \E t \in Txs : LateRelay(t) \/ Resolve(t)
  BY <1>1, <1>8 DEF runnerVars, LeaseGoesStale, Heal, LockExpires, LateRelay, Resolve
<1> QED
  BY <1>2, <1>3, <1>4, <1>6, <1>7, <1>8 DEF Next, InsideStep

\* startFusionRound's gates, the finally's owner-only release and the closing of
\* windows keep the exclusive floor: a round starts only where none runs.
THEOREM GatesImplementTheFloor == RunnerSpec => GatesKeepTheFloor
<1>1. RunnerInit => Floor!FloorInit
  BY DEF RunnerInit, Floor!FloorInit
<1>2. RunnerInv /\ [Next]_runnerVars => [Floor!FloorNext]_OnFloor
  BY FloorStep DEF RunnerInv
<1> QED
  BY <1>1, <1>2, RunnerInvariant, PTL DEF RunnerSpec, GatesKeepTheFloor, Floor!FloorSpec, OnFloor
=============================================================================
