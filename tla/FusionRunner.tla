---------------------------- MODULE FusionRunner ----------------------------
(***************************************************************************)
(* The gates around a Fusion round of one wallet: startFusionRound and     *)
(* reconcileIdleFusionState (FusionRunnerService.ts), the input locks of   *)
(* fusionRoundState.ts, and what runP2pFusion and the server runner do to  *)
(* locks, tracker and coins from coin selection to the finally.            *)
(*                                                                         *)
(* Windows of the wallet share the lease record, the input locks and the   *)
(* tracker's records; each window knows the attempt it runs (heldLeases).  *)
(* The lease is WalletLease seen from outside: a record is live or stale,  *)
(* and a conditional write inside the Web Lock is one step.                *)
(***************************************************************************)
EXTENDS FiniteSets

CONSTANTS
  Attempts,       \* rounds that are tried; the attempt stands for its owner token
  Windows,        \* windows of the wallet
  Coins,          \* outpoints of the wallet
  Txs,            \* identities of the transactions the wallet may sign
  Modes,          \* "coordinator" and "peer" of a P2P round, "server"
  Timings,        \* values of timely to start with
  None

ASSUME RunnerAssumption ==
  /\ Modes \subseteq {"coordinator", "peer", "server"}
  /\ Timings \subseteq BOOLEAN

VARIABLES
  window,  \* window[a]: where attempt a runs, chosen once
  timely,  \* TRUE: no window is suspended while it holds the lease or on its way to it
  lease,   \* LEASE_PREFIX: None or [owner, live]
  held,    \* held[w]: the attempt in the heldLeases map of window w, or None
  lock,    \* lock[c]: INPUT_LOCKS_PREFIX; an old entry has passed INPUT_LOCK_TTL_MS
  chain,   \* the coins the network has as unspent
  tx,      \* tx[t]: what became of transaction t, or None
  at,      \* at[a]: the next step of attempt a
  snap,    \* snap[a]: the coins of the snapshot its auto tick was called with, or None
  round    \* round[a]: coins, transport and signed transaction of its round, or None

runnerVars == <<window, timely, lease, held, lock, chain, tx, at, snap, round>>

\* From the reservation of inputs to the completion.
Committed == {"reserved", "joining", "tracking", "relaying", "completing"}
\* From acquireRoundLease to the deletion of heldLeases in the finally.
InRound == {"select", "prepare", "closing"} \cup Committed
\* Past the look at the tracker, before the lease.
Gated == {"tidy", "reclaim", "acquire"}
Steps == {"idle", "recheck", "dropping"} \cup Gated \cup InRound

Lease == [owner : Attempts, live : BOOLEAN]
Round == [coins : SUBSET Coins, via : Modes, tx : Txs \cup {None}]
\* Others hold our signatures of a transaction.  rec: the tracker's record
\* ("pending" while findFusionVerificationPending answers it); live: some node
\* of the network has it.
Tx == [spends : SUBSET Coins, rec : {"none", "pending", "seen"}, live : BOOLEAN]

ASSUME NoneAssumption == None \notin Attempts \cup Txs \cup Lease \cup Round \cup Tx

RunnerTypeOK ==
  /\ window \in [Attempts -> Windows]
  /\ timely \in BOOLEAN
  /\ lease \in Lease \cup {None}
  /\ held \in [Windows -> Attempts \cup {None}]
  /\ lock \in [Coins -> {"free", "held", "old"}]
  /\ chain \subseteq Coins
  /\ tx \in [Txs -> Tx \cup {None}]
  /\ at \in [Attempts -> Steps]
  /\ snap \in [Attempts -> (SUBSET Coins) \cup {None}]
  /\ round \in [Attempts -> Round \cup {None}]
  \* a round has coins from its selection to its end, and what it records,
  \* hands over or completes is a transaction it signed with them
  /\ \A a \in Attempts :
       /\ at[a] \in Committed \cup {"prepare"} <=> round[a] # None
       /\ at[a] \in Committed \ {"reserved"} =>
            /\ round[a].tx # None /\ tx[round[a].tx] # None
            /\ tx[round[a].tx].spends = round[a].coins

RunnerInit ==
  /\ window \in [Attempts -> Windows]
  /\ timely \in Timings
  /\ lease = None /\ held = [w \in Windows |-> None]
  /\ lock = [c \in Coins |-> "free"] /\ chain = Coins
  /\ tx = [t \in Txs |-> None]
  /\ at = [a \in Attempts |-> "idle"]
  /\ snap = [a \in Attempts |-> None]
  /\ round = [a \in Attempts |-> None]

-----------------------------------------------------------------------------
leaseIsLive == lease # None /\ lease.live
Pending == {t \in Txs : tx[t] # None /\ tx[t].rec = "pending"}
Spent(t) == IF tx[t] = None THEN {} ELSE tx[t].spends

\* A wallet refresh: the unspent coins without those the tracker reserves.
Spendable == chain \ UNION {Spent(t) : t \in Pending}

\* releaseOutpoints and reserveOutpoints write the pruned map back.
Locked == {c \in Coins : lock[c] = "held"}
Locks(S) == [c \in Coins |-> IF c \in S THEN "held" ELSE "free"]

\* Step to the next statement; leave before the try block; or go to the finally.
Go(a, step) == at' = [at EXCEPT ![a] = step] /\ UNCHANGED <<snap, round>>
Stop(a) ==
  /\ at' = [at EXCEPT ![a] = "idle"]
  /\ snap' = [snap EXCEPT ![a] = None] /\ UNCHANGED round
End(a) ==
  /\ at' = [at EXCEPT ![a] = "closing"]
  /\ snap' = [snap EXCEPT ![a] = None] /\ round' = [round EXCEPT ![a] = None]

-----------------------------------------------------------------------------
(* From the tick or the Start button to the lease. *)

\* A UTXO refresh is committed and the auto engine's tick is called with its
\* snapshot; Tor and server setup come before startFusionRound.
TakeSnapshot(a) ==
  /\ at[a] = "idle" /\ snap[a] = None
  /\ snap' = [snap EXCEPT ![a] = Spendable]
  /\ UNCHANGED <<window, timely, lease, held, lock, chain, tx, at, round>>

Gate_open(a) ==
  /\ at[a] = "idle" /\ held[window[a]] = None
  /\ Go(a, "tidy")
  /\ UNCHANGED <<window, timely, lease, held, lock, chain, tx>>

\* startFusionRound: heldLeases has no round of this window; an unverified
\* Fusion is looked for.
Gate(a) ==
  /\ at[a] = "idle" /\ held[window[a]] = None
  /\ Go(a, IF Pending = {} THEN "tidy" ELSE "recheck")
  /\ UNCHANGED <<window, timely, lease, held, lock, chain, tx>>

\* After reconcileOutboundTransactions (a Resolve, or nothing): still pending?
Recheck(a) ==
  /\ at[a] = "recheck"
  /\ IF Pending = {} THEN Go(a, "tidy") ELSE Stop(a)
  /\ UNCHANGED <<window, timely, lease, held, lock, chain, tx>>

\* reconcileIdleFusionState up to its wait for the Web Lock; hasLiveRoundLease
\* answers busy.
Tidy(a) ==
  /\ at[a] = "tidy"
  /\ IF leaseIsLive THEN Stop(a)
     ELSE Go(a, IF held[window[a]] = None THEN "reclaim" ELSE "acquire")
  /\ UNCHANGED <<window, timely, lease, held, lock, chain, tx>>

reclaimStaleRoundState_noReread == lease' = None /\ lock' = Locks({})

\* Inside the Web Lock: re-read, drop the record, clear every reservation.
reclaimStaleRoundState ==
  IF leaseIsLive THEN UNCHANGED <<lease, lock>> ELSE lease' = None /\ lock' = Locks({})

Reclaim(a) ==
  /\ at[a] = "reclaim"
  /\ reclaimStaleRoundState
  /\ IF leaseIsLive THEN Stop(a) ELSE Go(a, "acquire")
  /\ UNCHANGED <<window, timely, held, chain, tx>>

\* The CashFusion page of a window heals ghosts when it opens.
Heal(w) ==
  /\ held[w] = None /\ ~leaseIsLive
  /\ reclaimStaleRoundState
  /\ UNCHANGED <<window, timely, held, chain, tx, at, snap, round>>

Acquire_nullEndsRound(a) ==
  /\ at[a] = "acquire"
  /\ IF leaseIsLive THEN End(a) /\ UNCHANGED <<lease, held>>
     ELSE /\ lease' = [owner |-> a, live |-> TRUE]
          /\ held' = [held EXCEPT ![window[a]] = a]
          /\ Go(a, "select")
  /\ UNCHANGED <<window, timely, lock, chain, tx>>

\* acquireRoundLease; null leaves before the try block.
Acquire(a) ==
  /\ at[a] = "acquire"
  /\ IF leaseIsLive THEN Stop(a) /\ UNCHANGED <<lease, held>>
     ELSE /\ lease' = [owner |-> a, live |-> TRUE]
          /\ held' = [held EXCEPT ![window[a]] = a]
          /\ Go(a, "select")
  /\ UNCHANGED <<window, timely, lock, chain, tx>>

-----------------------------------------------------------------------------
(* The round. *)

Offered(a) == IF snap[a] # None THEN snap[a] ELSE Spendable

\* freshCoinSelection: the tick's snapshot if it has one, else an exclusive
\* refresh.  Depth and bucket rules choose among the coins; no coin, no answer
\* of the refresh, a lost cooldown claim or an abort end the attempt.
Select(a) ==
  /\ at[a] = "select"
  /\ \/ /\ \E S \in (SUBSET Offered(a)) \ {{}}, m \in Modes :
             round' = [round EXCEPT ![a] = [coins |-> S, via |-> m, tx |-> None]]
        /\ snap' = [snap EXCEPT ![a] = None]
        /\ at' = [at EXCEPT ![a] = "prepare"]
     \/ End(a)
  /\ UNCHANGED <<window, timely, lease, held, lock, chain, tx>>

\* refreshAndVerifyP2pInputs: the provided coins that are not locked, taken as
\* they are; when none is left, those of a new refresh.
P2pInputs(a) ==
  IF round[a].coins \ Locked # {} THEN round[a].coins \ Locked ELSE Spendable \ Locked

Reserve(a, S) ==
  /\ round' = [round EXCEPT ![a] = [coins |-> S, via |-> round[a].via, tx |-> None]]
  /\ at' = [at EXCEPT ![a] = "reserved"] /\ UNCHANGED snap

\* runP2pFusion clears all locks of the wallet, then locks its inputs.
PrepareP2p(a) ==
  /\ at[a] = "prepare" /\ round[a].via # "server"
  /\ \/ \E S \in (SUBSET P2pInputs(a)) \ {{}} : Reserve(a, S) /\ lock' = Locks(S)
     \/ End(a) /\ UNCHANGED lock
  /\ UNCHANGED <<window, timely, lease, held, chain, tx>>

\* The server runner refuses coins that are locked, and its finally then
\* releases them.
PrepareServer(a) ==
  /\ at[a] = "prepare" /\ round[a].via = "server"
  /\ LET S == round[a].coins IN
     \/ S \cap Locked = {} /\ Reserve(a, S) /\ lock' = Locks(Locked \cup S)
     \/ S \cap Locked # {} /\ End(a) /\ lock' = Locks(Locked \ S)
     \/ End(a) /\ UNCHANGED lock
  /\ UNCHANGED <<window, timely, lease, held, chain, tx>>

Settle(t, rec, live) == tx' = [tx EXCEPT ![t] = [spends |-> tx[t].spends, rec |-> rec, live |-> live]]
Without(t) == [u \in Txs |-> IF u = t THEN None ELSE tx[u]]

\* The round fails before our signatures leave, or a P2P session fails after,
\* or the server declares the round failed: the finally releases the inputs.
Fail(a) ==
  /\ at[a] \in {"reserved", "joining"}
  /\ tx' = IF round[a].via = "server" THEN Without(round[a].tx) ELSE tx
  /\ End(a) /\ lock' = Locks(Locked \ round[a].coins)
  /\ UNCHANGED <<window, timely, lease, held, chain>>

\* A server invocation is interrupted: the finally keeps the locks.
Interrupt(a) ==
  /\ at[a] \in {"reserved", "joining"} /\ round[a].via = "server"
  /\ End(a)
  /\ UNCHANGED <<window, timely, lease, held, lock, chain, tx>>

\* Our signatures go to the coordinator or the server.  (A coordinator keeps its
\* own until the relay; the model lets others relay its transaction too.)
Sign(a) ==
  /\ at[a] = "reserved"
  /\ \E t \in Txs :
       /\ tx[t] = None
       /\ tx' = [tx EXCEPT ![t] = [spends |-> round[a].coins, rec |-> "none", live |-> FALSE]]
       /\ round' = [round EXCEPT ![a] =
                      [coins |-> round[a].coins, via |-> round[a].via, tx |-> t]]
  /\ at' = [at EXCEPT ![a] = "joining"]
  /\ UNCHANGED <<window, timely, lease, held, lock, chain, snap>>

Assemble_unsigned(a) ==
  /\ at[a] \in {"reserved", "joining"}
  /\ Go(a, IF round[a].via = "peer" THEN "completing" ELSE "tracking")
  /\ UNCHANGED <<window, timely, lease, held, lock, chain, tx>>

\* The fully signed transaction comes back: the coordinator and the server's
\* client record it, a peer completes the round.
Assemble(a) ==
  /\ at[a] = "joining"
  /\ Go(a, IF round[a].via = "peer" THEN "completing" ELSE "tracking")
  /\ UNCHANGED <<window, timely, lease, held, lock, chain, tx>>

\* trackAttempt, before the relay.  When it fails the P2P inputs are released
\* (nothing went to the relay) and those of a server round are kept.
Track(a) ==
  /\ at[a] = "tracking"
  \* timely: whoever read the tracker before has by now looked at the lease
  /\ timely => \A b \in Attempts : at[b] \notin Gated
  /\ \/ Settle(round[a].tx, "pending", tx[round[a].tx].live) /\ Go(a, "relaying") /\ UNCHANGED lock
     \/ /\ End(a) /\ UNCHANGED tx
        /\ lock' = IF round[a].via = "server" THEN lock ELSE Locks(Locked \ round[a].coins)
  /\ UNCHANGED <<window, timely, lease, held, chain>>

\* The network takes transaction t, or has it.
Apply(t) ==
  /\ tx[t].live \/ Spent(t) \subseteq chain
  /\ Settle(t, tx[t].rec, TRUE) /\ chain' = chain \ Spent(t)

\* broadcastP2pTransactionTorOnly, or the server client's lookup and backup relay.
RelayVerified(a) ==
  /\ at[a] = "relaying"
  /\ Apply(round[a].tx) /\ Go(a, "completing")
  /\ UNCHANGED <<window, timely, lease, held, lock>>

\* No answer or not observed: the network has it or not.  A P2P round keeps its
\* locks, a server round releases them.
RelayUnsure(a) ==
  /\ at[a] = "relaying"
  /\ Apply(round[a].tx) \/ UNCHANGED <<tx, chain>>
  /\ lock' = IF round[a].via = "server" THEN Locks(Locked \ round[a].coins) ELSE lock
  /\ End(a)
  /\ UNCHANGED <<window, timely, lease, held>>

\* The relay refuses the bytes; the record is removed.
RelayRejected(a) ==
  /\ at[a] = "relaying" /\ round[a].via = "coordinator"
  /\ ~tx[round[a].tx].live
  /\ tx' = Without(round[a].tx)
  /\ lock' = Locks(Locked \ round[a].coins) /\ End(a)
  /\ UNCHANGED <<window, timely, lease, held, chain>>

\* completeFusionBroadcast marks the record seen; the finally releases.
Complete(a) ==
  /\ at[a] = "completing"
  /\ Settle(round[a].tx, "seen", tx[round[a].tx].live)
  /\ lock' = Locks(Locked \ round[a].coins) /\ End(a)
  /\ UNCHANGED <<window, timely, lease, held, chain>>

\* The finally of startFusionRound: heldLeases.delete, then the owner-only release.
EndRound(a) ==
  /\ at[a] = "closing"
  /\ held' = [held EXCEPT ![window[a]] = None]
  /\ Go(a, "dropping")
  /\ UNCHANGED <<window, timely, lease, lock, chain, tx>>

WithoutOwn_anyone(a) == None

WithoutOwn(a) == IF lease # None /\ lease.owner = a THEN None ELSE lease

DropLease(a) ==
  /\ at[a] = "dropping"
  /\ lease' = WithoutOwn(a)
  /\ Stop(a)
  /\ UNCHANGED <<window, timely, held, lock, chain, tx>>

-----------------------------------------------------------------------------
(* The world around. *)

\* The window goes away and a new one is opened; pagehide drops the record of
\* the attempt in heldLeases, a kill leaves it.
Close(w) ==
  /\ \E a \in Attempts : window[a] = w /\ at[a] # "idle"
  /\ lease' \in {lease, WithoutOwn(held[w])}
  /\ held' = [held EXCEPT ![w] = None]
  /\ at' = [a \in Attempts |-> IF window[a] = w THEN "idle" ELSE at[a]]
  /\ snap' = [a \in Attempts |-> IF window[a] = w THEN None ELSE snap[a]]
  /\ round' = [a \in Attempts |-> IF window[a] = w THEN None ELSE round[a]]
  /\ UNCHANGED <<window, timely, lock, chain, tx>>

\* LEASE_STALE_MS passes without a heartbeat.
LeaseGoesStale ==
  /\ leaseIsLive
  /\ timely => at[lease.owner] \notin InRound
  /\ lease' = [owner |-> lease.owner, live |-> FALSE]
  /\ UNCHANGED <<window, timely, held, lock, chain, tx, at, snap, round>>

LockExpires(c) ==
  /\ lock[c] = "held" /\ lock' = [lock EXCEPT ![c] = "old"]
  /\ UNCHANGED <<window, timely, lease, held, chain, tx, at, snap, round>>

\* The coordinator or the server relays what we signed.
LateRelay(t) ==
  /\ tx[t] # None /\ ~tx[t].live /\ Apply(t)
  /\ UNCHANGED <<window, timely, lease, held, lock, at, snap, round>>

\* A reconcile pass marks a recorded transaction as seen: it is in the history, or
\* the wallet's table has none of its coins, for whatever reason.
Resolve(t) ==
  /\ t \in Pending
  /\ Settle(t, "seen", tx[t].live)
  /\ UNCHANGED <<window, timely, lease, held, lock, chain, at, snap, round>>

Next ==
  \/ \E a \in Attempts :
       \/ TakeSnapshot(a) \/ Gate(a) \/ Recheck(a) \/ Tidy(a) \/ Reclaim(a) \/ Acquire(a)
       \/ Select(a) \/ PrepareP2p(a) \/ PrepareServer(a) \/ Fail(a) \/ Interrupt(a)
       \/ Sign(a) \/ Assemble(a) \/ Track(a)
       \/ RelayVerified(a) \/ RelayUnsure(a) \/ RelayRejected(a)
       \/ Complete(a) \/ EndRound(a) \/ DropLease(a)
  \/ \E w \in Windows : Heal(w) \/ Close(w)
  \/ LeaseGoesStale
  \/ \E c \in Coins : LockExpires(c)
  \/ \E t \in Txs : LateRelay(t) \/ Resolve(t)

RunnerSpec == RunnerInit /\ [][Next]_runnerVars

-----------------------------------------------------------------------------
(* Properties *)

\* From the reservation to the finally no other window frees a coin of a
\* running round: not the idle reconcile, nor a page that heals ghosts, nor a
\* second attempt.  (An entry may grow older than its time-to-live.)
RoundKeepsItsCoins == timely => \A a \in Attempts :
  at[a] \in Committed => \A c \in round[a].coins : lock[c] # "free"

\* A window that runs a round knows it: otherwise a second Start passes the
\* first gate, ghosts are healed under it, and pagehide keeps its lease.
WindowKnowsItsRound == timely => \A a \in Attempts :
  at[a] \in InRound => held[window[a]] = a

\* "Pause both transports until ordinary wallet evidence resolves the prior
\* transaction": no round with coins of its own runs beside an unverified one.
PendingShutsOut == timely => \A t \in Pending : \A a \in Attempts :
  at[a] \in Committed => round[a].tx = t

\* The gates keep what the lease promises: the wallet's rounds enter an empty
\* floor one at a time, whichever windows close, reopen or are killed between.
Floor == INSTANCE FusionFloor WITH floor <- {a \in Attempts : timely /\ at[a] \in InRound}
GatesKeepTheFloor == Floor!FloorSpec
=============================================================================
