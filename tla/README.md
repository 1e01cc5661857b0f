# TLA+ models of OPTNWallet

OPTNWallet is a Bitcoin Cash wallet (TypeScript front end, Rust runtime, Tauri
shell).  These modules model the parts of it where several actors share state
that is worth money: who may run a CashFusion round, what becomes of a
transaction once its bytes have left the wallet, and how wallets agree on the
round they sign.  Every definition is read from the source; paths below are
relative to the repository's `src/` unless they start with `docs/`.

## 1. Inventory

| Component | State it keeps | Operations | What is hard | What makes it correct |
|---|---|---|---|---|
| Round lease (`platform/desktop/fusionWalletLease.ts`, heartbeat and unload in `FusionRunnerService.ts`) | one localStorage record `{owner, at}` per wallet | acquire, touch, release, reclaim, pagehide | several windows, Web Lock waits with captured timestamps, frozen timers, clock steps, kills | one round per wallet; nobody drops another's live record; a dead holder does not lock the wallet |
| Outbound tracker (`services/OutboundTransactionTracker.ts`) | one record per txid: state, lastError, spent coins, verification flag, timestamps | trackAttempt, markState, markVerificationPending, markStale, recordBroadcast, remove | unlocked read-modify-write from many flows | a live transaction is not forgotten; its coins stay reserved until its fate is known |
| Reconciler (`services/OutboundTransactionReconciler.ts`), Outbox release (`hooks/useOutboundTransactions.ts`) | none of its own | one pass: drop refused, demote stale, look in history, in the coins, on the network, rebroadcast | reads records it writes much later; answers of servers that lag | resolves what is live, rebroadcasts what is not |
| Ordinary send (`apis/TransactionManager`, `services/TransactionService.ts`) | the tracker's | send, enrich | lost answers, crash between steps | as above |
| Fusion broadcast and completion (`FusionP2pService.ts`, `FusionCompletionService.ts`) | the tracker's, history rows | reserve, relay over Tor, park, complete | ambiguous relay receipts; peers complete on the coordinator's word | no next round and no reuse of coins while the fate is open |
| Rendezvous (`platform/desktop/nostr/fusionRendezvous.ts`) | one attempt: role, candidates, acknowledgments, accepted proposal | propose, ack, start, shrink, abort, yield, failover | partial views, late, lost and repeated messages, timers against messages | everyone in a round was offered it and acknowledged it; one session, one round; every wait ends |
| Fusion runner (`FusionRunnerService.ts`, `useAutoFusion.ts`, `fusionRoundState.ts`) | gates, cooldown, held leases, coin reservations | start, abort, reconcile idle state, heal | gates looked at before the lease, reservations without a lock, snapshots that grow old | a running round keeps its coins; no round beside an unverified one |
| Fusion session (`nostr/fusionSession.ts`, 2759 lines) | credentials, inputs, onion batches, assembly, signatures, faults | the phases of a round | every order, copy and loss of messages; deadlines and cancellation on both sides | handed over once, with all signatures; honest parties complete |
| Pool and gather (`nostr/fusion.ts`) | announcements, peers seen live | announce, gather, withdraw | stale announcements, peaks and grace | a group at or above the floor |
| Blind credentials (`nostr/fusionBlindSchnorr.ts`, `fusionCredentialNullifiers.ts`) | nonce slots, spent serials | sign, verify, spend | replays across retries | one signature per slot; one use per serial |
| Coin depth and auto engine (`fusionCoinDepth.ts`, `fusionAutoEngine.ts`) | depth labels, schedule | record, decide | ancestry with unknown parents | depth is never overstated |
| Server CashFusion (`ServerFusionRunner.ts`, `src-tauri/src/fusion`) | round phases, covert connections | the classic protocol | timed phases, blame | as the session |
| UTXO refresh (`services/UTXOService.ts`, `apis/UTXOManager`) | UTXOs table, snapshot cache | refresh, merge, soft failure | lagging servers, reservations | no reserved coin is offered |
| Electrum (`apis/ElectrumServer`, `services/ElectrumService.ts`) | one client, one connect promise, the subscriptions, backoff | request, requestMany, subscribeMany, disconnect, failover | every caller reads the shared client between awaits; network switches; sockets lost in the middle of a batch | every request ends, at a server of its network; no socket is forgotten; subscriptions follow the socket |
| Rust runtime (`crates/optn-runtime`, `crates/optn-chain-*`) | headers, sync checkpoints, filters | sync, recover, verify | restarts in the middle of a sync | checkpoints never run ahead of what was verified |
| Multisig (`services/multisig`, `crates/optn-core`) | proposals, signatures | propose, sign, combine | partial signatures in any order | no combination below the threshold |
| Wallets, keys, discovery, database | tables | CRUD, merge | little concurrency | |
| Connect protocols, chat and MLS, add-ons and contracts, market features, hardware wallets | sessions of other protocols | | vendored or thin | |
| Pages, i18n, Android and iOS shells | | | presentation | |

How the parts meet: the runner asks the tracker whether a Fusion is unverified,
takes the lease, runs gather, rendezvous and session over Nostr and Tor, and
hands the signed transaction to the broadcast path, which writes the tracker.
The tracker's records decide which coins a refresh stores and a selection
offers, and the reconciler closes the circle by reading the tables that
refreshes and syncs write.

## 2. Plan

1. `WalletLease`, with `FusionFloor` as what it promises (the runner of step 4 keeps the same
   promise). Checked and proved.
2. `OutboundTracker`: tracker, reconciler, send and Fusion broadcast. Checked and proved.
3. `FusionRendezvous`. Checked and proved.
4. `FusionRunner`: gates, reservations and the ends of a round, over the lease and
   the tracker seen from outside. Checked and proved.
5. `FusionSession`, with `AtomicFusion` as what it promises. Checked; safety proved.
6. `ElectrumServer`: the shared connection. Checked; safety proved.

Open: the cooldown stamps and the engine's schedule; ordinary sends against the
reservations of a round; the pool, composed with the rendezvous, for the claim
that prompt wallets which see one pool do fuse together (it needs fair delivery);
the Rust sync worker; multisig; an abstract specification that the tracker's paths implement.

## 3. Modules

### WalletLease, FusionFloor

An attempt `a` stands for one call of `startFusionRound` and its random owner token.
`lease` is the localStorage record; `asked[a]` and `beat[a]` are the timestamps
that a pending `acquireRoundLease` and `touchRoundLease` captured *before* they
waited for the Web Lock; `phase[a]` is where the attempt stands. One action per
critical section (`TakeLease`, `TouchLease`, `ReleaseLease`, `ReclaimStale`), per
request, and per way of ending (`CancelRound`, `FinishRound`, `PageHide`,
`Crash`). The code compares only ages, so the model keeps ages: `Tick` makes all
timestamps older, `ClockStepsBack` younger; an age stops at `AgeCap`, beyond
which no comparison of the code can tell ages apart. A failed write, a failed
read-back and a lock manager that goes away are disjuncts. `timely` is chosen at
the start: when TRUE, no running window is frozen until its record goes stale.
Mutual exclusion is claimed under it alone; a window frozen for longer than 45
seconds does run its round beside a new one until its next heartbeat is refused
(`OneRound`, the claim without the condition, fails in the model for that reason).
`FusionFloor` is a floor that at most one attempt stands on, entered only when empty.

### OutboundTracker

One transaction of one wallet. `rec` is the stored record with the fields that
decisions depend on; `net` says whether some node has the transaction; `row` and
`coin` are its row in the transactions table and its spent coin in the UTXOs
table. The tracker has no lock, so each of its operations is two steps: one reads
the record and puts the changed copy into `mid[f]`, `Save(f)` writes that copy,
whatever was stored meanwhile, and the flow goes on from `at[f]`.
A flow `f` is the send or round itself ("main"),
the peer's rebroadcast after its jitter ("delayed"), a release by the user, or
the reconcile pass of a window. `Role` chooses the path: `sender` (ordinary
send), `coordinator` or `peer` (Fusion). Timestamps are ages in the three steps
that the constants of the tracker tell apart. Reads of tables, refreshes and
syncs interleave freely, and any flow may be killed between any two steps; a
killed window is opened again (`Restart`). A refresh may have read the reservations before the
record was there (`RefreshCoins`). `MarkStale` is one read although the code lists, then reads, the
records: only the second read decides, as a record that was not listed is too young to be stale.

### FusionRendezvous

`role`, `cand`, `acks`, `joined` ... are the variables of one
`negotiateFusionRound` per wallet and of the attempt it is in. `msgs` is the set
of messages sent: a wallet handles any of them at any time, again, or never,
which covers loss, delay, reordering and the re-sending that the code does on
intervals. `joined[n]` is the proposal a participant accepted or a coordinator
yielded to. `starting` and `shrink` are the two periods in which a coordinator
awaits its sends while messages still come in. `Elect` is a constant: any
function from sets to members, as `electCoordinator` is bound to the whole set.
Wallets are honest. Network, tier and epoch agree. Unions stay within
`maxPlayers`.

### FusionRunner

The way of an attempt through `startFusionRound` and through `runP2pFusion` or the
server runner, from the tick or the Start button to the `finally`. `at[a]` is the
next statement after an await; `snap[a]` the coins of the refresh a tick was called
with, which may grow old; `round[a]` the coins, the transport and the signed
transaction. Windows share `lease`, `lock` (the input locks) and `tx` (what the
tracker says of a transaction, and whether the network has it); `held[w]` is the
window's own `heldLeases`. The lease is live or stale, and writing it inside the Web
Lock is one step, which `WalletLease` justifies. P2P and server rounds differ as in
the code in whose locks they clear, when they keep them, and who relays.

`timely` says that no window is suspended while it holds the lease *or on its way to
it*: the gate at `FusionRunnerService.ts:627` is looked at before the lease is taken
and not again, so whoever looked must have taken the lease (or left) before another
round signs and records a transaction. The code has minutes of network phases between
the two. The four claims are made under `timely`; types are claimed without it, and proved so.

A lock that has passed its five minutes (`old`) counts as kept by its round: no other
round may start, but an ordinary send would no longer see it. A coordinator keeps its
own signatures until its relay, while the model lets others relay its transaction as
well: it allows more than the code. Left out: ordinary sends and other devices of the
same seed, pre-consolidation, round keys, cooldown stamps and progress reports.

### FusionSession, AtomicFusion

One round of parties that follow the protocol, after the rendezvous has agreed on the
set. `flow[p]` is the next statement of the party's async function, which goes on
sending after its promise is settled, as in the code; `outcome[p]` is how the promise
settled. `net` is the set of messages sent, `seen` those handled: a message may be
handled late, in any order, or never; what the timers send again under fresh nonces
(`Resent`) may be handled again at any time. Both transports, BroadcastChannel and relays,
deliver into that set, and the nonce sets of the session make copies one. Onions are
sets of outputs, a batch is counted as in the code. `TryAssemble` and `TryFinalize` run at
the end of exactly the handlers that call them. Native signing is a step of its own;
after it only the abort signal is looked at, so a party that failed meanwhile still
sends its signatures, and one that was cancelled does not.

`AtomicFusion` hands a transaction over once, with everybody's signatures; then only the
network decides the leader's verdict, and the others accept after the leader. `given`
and `verdict` are the refinement mapping; a cancelled party is a failed one there.

A participant takes the coordinator's `final` as word that the broadcast went well, as
the code does. Left out: malicious parties and blame, amounts and fees, credentials
beyond whose they are, a tracker store that fails after an unclear relay. The instance has
the least number of parties (`fusionKnobs.ts`, 3) and two peelers.

### ElectrumServer

The shared connection as its callers see it. JavaScript runs to the next await, so an
action is the code between two awaits of one call, and what an event resolves (`resumes`,
`replayed`, disconnects in progress) runs before the next event (`Quiet`), in any order.
`electrum`, `connectPromise`, `activeSubs` are the module's variables; `dial`, `hosts`,
`client` the state inside a connect promise; `sock`, `heard` and `served` a socket, whether
the handler of `markSocketStale` is attached, and what its server has been asked to notify.
Calls are `request`, `requestMany`, `subscribeMany` (one chunk) and `electrumDisconnect`, with
their retries in the order of the code.

`net` is the network of the app's store, which the app may switch between any two steps
(`Switch`); `override[c]` is the argument of `ElectrumServer()`, which few callers give. A call keeps
no network: `network[c]` is what it read *last*, at the start, in `ensureFreshConnection` and in
every retry's `electrumConnect` (`getNetwork`). So a call under way when the app switches may go on
at a server of the new network with members of the old one, whose empty answers look valid. The
code does that without any overlap of connections; `crossed` marks these calls, and `RightNetwork`
says of them only that they ask the network they read last. Of all others it says that this is their own.

A dial ends in four ways: `DialOk`; `DialFails` (refused, or too slow for the handshake: closed);
`DialTimesOut`, when the timer comes while the native connect has not answered: `disconnect` of
`electrum-web-socket.ts` finds no `connId` and closes nothing; and for such a client (`abandoned`)
`LateAnswer`, any time later, which opens a socket that nobody holds until its server closes it.
`NoLeak` says that these are the only ones: an open socket is held exactly if it is not `abandoned`.
No text promises otherwise, so this leak is named in the property and in the hazards rather than among the findings.

`overlapped` and `split` are history variables. Two connect promises overlap when several calls
waited for another network's promise: each makes its own, since `connectPromise` is not looked at
again after line 503. Then a client can be overwritten, its socket left open, and a call answered by
the wrong network; without the exemption for `overlapped`, TLC finds `RightNetworkAlone` and `NoLeak`
violated. `split` marks a batch that was divided between two servers (section 6).

External and assumed: the client library emits `disconnected` and rejects its pending requests in one
macrotask; a disconnect reports itself synchronously, as `electrum-web-socket.ts` does; no server
refuses a subscription; a replay is answered or its socket lost. Left out: which server is dialled,
`subscribe` and `unsubscribe`, the request layer of `ElectrumService`, and several chunks of one
`subscribeMany`: the code records them all after the last has ended, so a reconnect in between misses
those that came, divided batch or not. `SubsReplayed` is claimed for one chunk (50 members) only. While a disconnect ends, the
store's network stays: what `electrumConnect` reads before it and after it is the same.

## 4. Runs

| Run | What it asks | Bounds |
|---|---|---|
| `lease_rounds` | mutual exclusion, who may drop a record, refinement of the floor; losers stop, dead holders are not for ever | 2 attempts that may try again and again, stale at 3, TTL at 4, one step back, both timings |
| `tracker_paths` | a live transaction has a record, a hand-over is parked; live ends up seen or cleared, nothing stuck in broadcasting | 1 transaction on each of 3 paths, 1 window, an ordinary send also with nodes that answer an error to what they have, fairness |
| `tracker_stripped`, `tracker_known` (violations) | see section 6 | 1 window, ordinary send |
| `rendezvous` | full acknowledgment, one round per session, every wait ends but a yielded one's | 3 wallets, all 27 combinations of views, 2 attempts, any loss |
| `rendezvous_verdicts`, `rendezvous_yielded` (violations) | see section 6 | 3 wallets |
| `runner_gates` | rounds keep their coins, windows know their rounds, an unverified Fusion shuts others out, rounds enter an empty floor one at a time | 2 attempts, 2 windows, 2 coins, 2 transactions, all transports, `timely` |
| `session_rounds` | atomic hand-over, while a party is cancelled nothing of the round goes out; in a patient round nobody refuses and all complete | 3 parties, 4 outputs, any order, loss and copy, patient or not |
| `session_freed` (violation) | see section 6 | the same, impatient |
| `electrum_calls` | right network, no forgotten socket, replayed subscriptions, every call ends | 3 calls (batch of two subscriptions, request with its own network, disconnect), 2 networks, switches both ways at any time, 4 sockets |
| `electrum_unsubscribed` (violation) | see section 6 | the same |

Why the bounds are enough to be interesting. Lease: a holder, and a waiter with an old
timestamp, are two; an attempt that ended may ask again, which makes the late comer. Tracker: its
own flow, a delayed one, a release and a pass race for one record; the proofs cover any number of
windows. Rendezvous: three wallets for a yield, a shrink to two, and a re-election of another
member after it (`MCElect` elects different members for different subsets); two attempts for
messages of an old session. The floor of a round is 2 there, 4 in the code; the theorems take any
floor. Runner: two attempts in one window or in two, with one coin each or a coin in common, and a
transaction left behind by a round that ended. Session: a first and a last peeler, of which one
injects its own outputs without a message, and a party with two outputs. Electrum: a batch
that follows the store's network and can be divided, a request with a network of its own, a
disconnect, two sockets per network (one may be left open by a late connect), and a host list that
runs out for one network and not the other. Promises overlap with two calls already. A fourth call
makes the check of `Settles` too long; the safety theorems hold for any number.

What must happen in the end is stated as `[]<>` of the state in which nothing is open, which is the
same as "leads to" where such a thing happens once (a call, a round, a transaction on the network)
and costs TLC a third. The runner's claims are made for windows that are not suspended, so its run
has no others; its theorems cover both.

Symmetry is used for the runner only (attempts, windows, coins and transactions are
interchangeable there, and nothing is asked about liveness). `CHECK_DEADLOCK FALSE` is set where
the system stops: a negotiation, a session and a finite set of calls end.

## 5. Fairness

- Lease: timers fire, the lock queue moves, time passes, and the clock is not corrected for
  ever. Nothing obliges a round to finish, a window to be unloaded or a clock to step.
- Tracker: passes are started again and again by the app's interval and run on,
  histories are synced, time passes, and from some point on the app is not killed
  in the middle of a flow (otherwise no pass need ever complete). Sends, rounds
  and releases are not fair.
- Rendezvous: timers run out and finished sends go on; no message need arrive.
- Session: in a `patient` round, in which no timer fires and the relay answers well, something
  enabled happens (`Progress`: a statement, a delivery of a message not seen before, a returned
  signer or relay). `Converges` is claimed for these: with timers a round may of course end otherwise.
- Electrum: an await ends, by its answer, its timer or the loss of its socket (`Progress`); nothing
  obliges a server to answer, a socket to live or a backoff to end.

## 6. What the violations show

1. **A coin missing by the wallet's own hand** (`tracker_stripped`).
   `UTXOService.ts` leaves reserved coins out of the rows it stores; the
   reconciler reads a missing row as a spend that applied and marks the record
   seen. A transaction that never reached a node is then no longer rebroadcast,
   although the user was told it would be.
2. **"Already known" kept as an error** (`tracker_known`). The answer of a node that
   has the transaction is stored as `lastError` of a broadcasted record, and the
   next pass removes that record as refused.
3. **Shrink and start for one session** (`rendezvous_verdicts`). While the sends of
   `round_shrink` are awaited a late acknowledgment completes the set and the
   coordinator starts the session too. Members disagree on whether the round is
   on. It costs a round, not coins: all sides time out in the session.
4. **A yielded coordinator waits for ever** (`rendezvous_yielded`). Its acknowledgment
   timer returns because it yielded, and the attempt has no deadline of its own.
5. **Coins freed while their fate is open** (`session_freed`). A participant that gives up
   after its signatures left never called its broadcast callback, and its `finally` takes that
   for a round that never reached the relay. The coordinator may have all signatures. The
   tracker has no record of the transaction either, so the next round may sign a conflicting spend.
6. **Subscriptions left on the old server** (`electrum_unsubscribed`). When a part of a batch fails,
   the rest is asked of another server. The members the old server answered are written to
   `activeSubs` only after that, so the replay on the new socket did not include them.

## 7. Proofs

`WalletLease_proofs` assumes `LeaseAssumption` (the two times are naturals with
the staleness limit not above the backstop). `LeaseTypeOK` is inductive.
`OneRoundWhenTimely` is not: two holders arise from a waiter whose captured
timestamp makes a fresh record look dead. The strengthening is `HoldersAreFresh`,
which bounds the difference between every timestamp about to be written and every
timestamp a waiter judges by. From it follow mutual exclusion and that every step
is a step of the floor or leaves it alone. `LiveRecordsStay` needs no timing: every
step that replaces or drops a record either belongs to its owner or has judged the
record stale, by a timestamp that cannot be younger than the clock.

`FusionRendezvous_proofs` assumes `RendezvousAssumption` (an election picks a
member) and that `None` is no set, round or message. `RendezvousInv` adds to the
types: no message mentions a session that has not begun (so an attempt's session
is fresh); a collecting coordinator offered its session to its set and counts
acknowledgments that were sent; a round_start names a fully acknowledged set, and
while its attempt goes on that set is the coordinator's own; a result says what
the starts of its session say. Lemma `AllSentRightly` says what each step may
send, `AllGoOn` what it may do to an attempt, and one lemma per part of the
invariant concludes from those. `RoundsAreFullyAcked` and `SessionsAgree` follow,
for any number of wallets, views, attempts and losses.

`OutboundTracker_proofs` assumes `TrackerAssumption` (the role, and that windows are
not named like the other flows) and that `None` is no record and no text. The properties are
not inductive: a lost update may bring back an old record. `TrackerInv` therefore
says that every record that is stored *or waiting to be written* is fit (`Fit`: done
records wait for no verification; a Fusion's names its coins; none holds a refusal
where none is ever given), that a flow about to hand bytes over has written its
record, and that nobody is at a removing step while the transaction may live. One
lemma says how a change, a write, a removal and a move keep it, and the flows'
lemmas apply those. `HandedOverStaysParked` holds for every role and number of
windows, `LiveIsTracked` for the sender and the coordinator under the assumption
that `tracker_known` shows to be needed.

`FusionRunner_proofs` assumes `RunnerAssumption` and that `None` is none of the other
values. What matters in `RunnerInv` is what ties the attempts together: a round owns the
live lease and its window's held entry (`RoundsAreHeld`); while a transaction is
pending nobody is between the tracker's gate and the lease, nor in another round that is not
closing already (`PendingIsAlone`). The second needs the first: whoever passed the gate
while a round ran finds its lease before that round records a transaction. With
`RoundKeepsItsCoins` and the types the conjunction is inductive (`RunnerInvariant`), and
`WindowKnowsItsRound` and `PendingShutsOut` follow from it. `GatesImplementTheFloor` closes the
circle with `WalletLease_proofs`: the runner, which sees the lease only as a record that is live or
stale, is shown to implement the same `FusionFloor` that the lease with its clocks and captured
timestamps implements. A round enters where `acquireRoundLease` finds no live record, hence no
round; the finally and a window that goes away leave the floor empty; no other step moves anybody
in or out. The owner-only release is what it rests on: its mutant drops any record, and a second
round enters.

`FusionSession_proofs` assumes `SessionAssumption`. `SessionInv` ties messages to what
their senders did (`NetTells`: `assembled` and a signature are sent only by a party that gave
its own, a `final` only by a leader that fused) and the hand-over to both (`HandTells`: every
party gave before the transaction is handed over; the leader's outcome tells how far that got).
`RoundIsAtomic` maps every step to
a step of `AtomicFusion` or a stutter. `CancelsStand` needs `CancelTells` besides: who is cancelled
never signed and nobody is `fused`, nor the transaction live, before the hand-over; as a hand-over
has everybody's signatures, there is none.
`NobodyRefuses` needs `HonestInv` on top of it. `Admitted`: what the leader accepted was sent once
and is handled, so a request, an input or the outputs that come again are known copies. `Batches`:
a peeler counts every output once (`arrived` is the number of its `blobs`) and peels only a whole
batch, although declarations and blobs come in any order. `NetCredible`: a message proves that the
party it is about is on the leader's books, and an abort that a timer fired. `HonestAreNotRefused` is thus the
safety half of `Converges` for any number of parties, hops and outputs: no order, copy or delay
of honest messages makes one party blame another.

`ElectrumServer_proofs` assumes `ElectrumAssumption` (batches and subscriptions are calls that
disconnect nothing, every network has a server to try, calls and clients are named apart; it says
nothing of when the app switches networks or of how late a connect answers). None of
the four invariants is inductive; `ElectrumInv` adds the order in which awaits end. `CallInv` says
what a call awaits and that only a divided batch carries members over; `NetInv` that the network a
call read is the one it would read now, unless it is crossed, and that of the promise it shares;
`DialInv` that a connect promise is awaited by the call that made it, and has a client of its
network; `FreshInv` that nobody else holds a client that is being dialled, and nobody at all an abandoned one; `DropInv` that
while a call disconnects a client, no other becomes the shared one: this is what makes the
unconditional `electrum = undefined` after the await harmless. Unless promises have overlapped,
`AloneInv` says that there is no shared client beside the one being dialled, and that a request
which may still be answered is on the shared client, and `HeldInv` that every open socket but the abandoned
ones is held. Unless a batch was divided as well, `SubsInv` says that
the members a batch has are subscribed at the server where the rest of it is asked, whence
`SubsReplayed`. The proof first shows that whatever resumes a call, its turn is one of five (end,
ask, drop, join or create a promise, lemma per action), then once that each of the five keeps
the invariant. The properties' exceptions (`overlapped`, `split`) are those that TLC shows needed.

Only model-checked: all liveness (fairness and ENABLED are outside the prover's
reach): `LoserStops`, `NotLockedForGood`, `LiveIsResolved`, `NoStaleBroadcasting`,
`OnlyAYieldedOneWaits`, `Settles`, and `Converges`, which says that the triggers of assembly and
peeling are complete; and that the properties' exceptions do occur (the violation runs).

## 8. Not modelled, and why

Signing, fees, selection and serialisation are data. Cryptography is taken as
perfect. Nodes are one node with a fixed policy for the transaction: no eviction
from a mempool and no conflicting spend. A relay that reports success has a node
that has the transaction. The tracker's legacy fallback store is the same store.
Components listed with status `not_modelled` in PROJECT.json wait for the plan or
are presentation, vendored code, or thin wrappers.
