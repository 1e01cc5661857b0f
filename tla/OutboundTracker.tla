-------------------------- MODULE OutboundTracker --------------------------
(***************************************************************************)
(* One outgoing transaction of one wallet, from its raw bytes to the       *)
(* moment the wallet calls it seen: OutboundTransactionTracker.ts, the     *)
(* reconciler, the ordinary send path and the two Fusion broadcast paths.  *)
(*                                                                         *)
(* The tracker has no lock.  Every operation reads the stored record,      *)
(* awaits, and writes a whole new record, so a flow is modelled as steps   *)
(* that each read the record and leave the new one in mid[f], and Save(f)  *)
(* that writes it, whatever was stored meanwhile.                          *)
(***************************************************************************)
EXTENDS Naturals

CONSTANTS
  Roles,         \* the paths this wallet may take: "sender", "coordinator", "peer"
  Windows,       \* windows of the wallet, each runs reconcile passes
  KnownReplies,  \* values of knows to start with; only a sender asks a node itself
  None

ASSUME TrackerAssumption ==
  /\ Roles \subseteq {"sender", "coordinator", "peer"}
  /\ KnownReplies \subseteq BOOLEAN
  /\ Windows \cap {"main", "delayed", "user"} = {}

VARIABLES
  role,    \* which path this wallet takes, chosen once
  knows,   \* TRUE: the node answers an error to a transaction it has; never changes
  rec,     \* the stored record, or None
  net,     \* TRUE: some node of the network has the transaction
  valid,   \* TRUE: nodes accept the transaction
  handed,  \* TRUE: our bytes of a Fusion went to the relay, which has not refused them
  row,     \* the transactions table has a row of the txid
  coin,    \* the UTXOs table has the spent coin
  at,      \* at[f]: the next step of flow f, once mid[f] is written
  mid,     \* mid[f]: the record f read and changed but has not written, or None
  prior    \* prior[f]: lastError of a submitted record that f broadcasts again, or None

path == <<role, knows>>
trackerVars == <<path, rec, net, valid, handed, row, coin, at, mid, prior>>

TorOnly == role # "sender"

\* "main" hands the transaction over (a peer's only completes the round),
\* "delayed" is the peer's rebroadcast after a jitter, "user" a release from
\* the Outbox, and each window has its reconcile pass.
Flows == {"main", "delayed", "user"} \cup Windows

States == {"broadcasting", "submitted", "broadcasted", "seen"}

\* What lastError tells apart: "network" is a text that matches the
\* connectivity pattern of isAmbiguousBroadcastError, "final" any other text.
Errors == {"none", "network", "final"}

\* updatedAt and lastCheckedAt as ages: 1 from OUTBOUND_REBROADCAST_COOLDOWN_MS,
\* 2 from OUTBOUND_BROADCASTING_STALE_MS, 3 from OUTBOUND_RELEASE_DELAY_MS on.
StaleAge == 2
ReleaseAge == 3
Record == [state : States, pending : BOOLEAN, err : Errors, ins : BOOLEAN,
           upd : 0..ReleaseAge, chk : 0..1 \cup {None}]

ASSUME NoneAssumption == None \notin Record \cup Errors

SendSteps == {"prior", "track", "rearm", "node", "accepted", "unsure", "known", "refused", "enrich"}
FusionSteps == {"reserve", "relay", "park", "record", "broadcasted", "finish", "stamp", "refused"}
PassSteps == {"dropping", "stale", "local", "spent", "ask", "retry", "history", "local2"}
Steps == {"idle", "down", "done"} \cup SendSteps \cup FusionSteps \cup PassSteps \cup {"check", "removing"}

TrackerTypeOK ==
  /\ role \in {"sender", "coordinator", "peer"} /\ knows \in BOOLEAN
  /\ rec \in Record \cup {None}
  \* no record is both done and waiting for its verification
  /\ rec # None /\ rec.state \in {"seen", "broadcasted"} => ~rec.pending
  /\ {net, valid, handed, row, coin} \subseteq BOOLEAN
  /\ at \in [Flows -> Steps]
  /\ mid \in [Flows -> Record \cup {None}]
  /\ prior \in [Flows -> Errors \cup {None}]

FirstStep(f) ==
  IF f \in Windows THEN "idle"
  ELSE IF f = "user" THEN "check"
  ELSE IF f = "delayed" THEN IF role = "peer" THEN "reserve" ELSE "done"
  ELSE IF role = "sender" THEN "prior"
  ELSE IF role = "coordinator" THEN "reserve" ELSE "record"

TrackerInit ==
  /\ role \in Roles /\ knows \in IF role = "sender" THEN KnownReplies ELSE {FALSE}
  /\ rec = None /\ net = FALSE /\ valid \in BOOLEAN /\ handed = FALSE
  /\ row = FALSE /\ coin = TRUE
  /\ at = [f \in Flows |-> FirstStep(f)]
  /\ mid = [f \in Flows |-> None]
  /\ prior = [f \in Flows |-> None]

-----------------------------------------------------------------------------
(* The tracker's operations, as functions of the record they read. *)

trackAttempt(r, ins) ==
  IF r = None
  THEN [state |-> "broadcasting", pending |-> FALSE, err |-> "none", ins |-> ins,
        upd |-> 0, chk |-> None]
  ELSE [state |-> r.state, pending |-> r.pending /\ r.state \notin {"seen", "broadcasted"},
        err |-> r.err, ins |-> r.ins \/ ins, upd |-> 0, chk |-> r.chk]

markState_keepsPending(r, state, err) ==
  [state |-> state, pending |-> r.pending, err |-> err, ins |-> r.ins, upd |-> 0, chk |-> 0]

markState(r, state, err) ==
  [state |-> state, pending |-> r.pending /\ state \notin {"seen", "broadcasted"},
   err |-> err, ins |-> r.ins, upd |-> 0, chk |-> 0]

markVerificationPending(r) ==
  IF r.state \in {"seen", "broadcasted"} THEN None
  ELSE [state |-> "submitted", pending |-> TRUE, err |-> "none", ins |-> r.ins,
        upd |-> 0, chk |-> 0]

isDeterministicBroadcastError(err) == err = "final"

isFusionVerificationPending(r) ==
  r.pending \/ (TorOnly /\ r.state # "seen" /\ ~isDeterministicBroadcastError(r.err))

Active == rec # None /\ rec.state # "seen"

\* listReservedOutpoints lists the spent coin.
Reserved == Active /\ ~isDeterministicBroadcastError(rec.err) /\ rec.ins

canRelease(r) ==
  /\ ~isFusionVerificationPending(r)
  /\ r.state \notin {"seen", "broadcasted"}
  /\ r.upd >= ReleaseAge

canClear(r) ==
  /\ ~isFusionVerificationPending(r)
  /\ \/ isDeterministicBroadcastError(r.err)
     \/ r.state \in {"submitted", "broadcasted"}
     \/ canRelease(r)

shouldRebroadcast(r) ==
  /\ ~TorOnly /\ r.state = "submitted"
  /\ (IF r.chk = None THEN r.upd ELSE r.chk) >= 1

-----------------------------------------------------------------------------
(* How a flow moves.  Every await of a flow separates two steps.            *)

Goto(f, s) == at' = [at EXCEPT ![f] = s]
Stored == <<path, rec, net, valid, handed, row, coin, prior>>
At(f, s) == at[f] = s /\ mid[f] = None
Step(f, s, next) == At(f, s) /\ Goto(f, next) /\ UNCHANGED <<mid, Stored>>

\* A tracker operation reads the record; an answer of None writes nothing.
Change(f, s, next, new) ==
  /\ At(f, s) /\ Goto(f, next)
  /\ mid' = [mid EXCEPT ![f] = new]
  /\ UNCHANGED Stored

\* saveRecord
Save(f) ==
  /\ mid[f] # None
  /\ rec' = mid[f]
  /\ mid' = [mid EXCEPT ![f] = None]
  /\ UNCHANGED <<path, net, valid, handed, row, coin, at, prior>>

Remove(f, s, next) ==
  /\ At(f, s) /\ rec' = None /\ Goto(f, next)
  /\ UNCHANGED <<path, net, valid, handed, row, coin, mid, prior>>

Marked(state, err) == IF rec = None THEN None ELSE markState(rec, state, err)
MarkedIf(test, state) == IF Active /\ test THEN markState(rec, state, "none") ELSE None

-----------------------------------------------------------------------------
(* TransactionManager.sendTransaction, called by the user's send and by the *)
(* reconciler's rebroadcast; TransactionService.sendTransaction around it.  *)

\* A send is enriched when it ends, a rebroadcast goes on with its pass.
AfterSend(f) == IF f = "main" THEN "enrich" ELSE "history"
AfterRefusal(f) == IF f \in Windows THEN "history" ELSE "done"

\* A prior attempt that is under way or done is answered as success.
ReadPrior(f) ==
  /\ At(f, "prior")
  /\ IF rec # None /\ rec.state \in {"broadcasting", "broadcasted"}
     THEN Goto(f, AfterSend(f)) /\ prior' = prior
     ELSE /\ Goto(f, "track")
          /\ prior' = [prior EXCEPT ![f] =
               IF rec # None /\ rec.state = "submitted" THEN rec.err ELSE None]
  /\ UNCHANGED <<path, rec, net, valid, handed, row, coin, mid>>

TrackSend(f) == Change(f, "track", "rearm", trackAttempt(rec, FALSE))

Rearm(f) ==
  Change(f, "rearm", "node",
         IF prior[f] = None THEN None ELSE Marked("broadcasting", prior[f]))

\* External: the answer of the Electrum node.  A lost answer says nothing
\* about what the node did with the bytes.
AskNode(f) ==
  /\ At(f, "node")
  /\ \/ /\ valid /\ (knows => ~net)
        /\ net' = TRUE /\ Goto(f, "accepted")
     \/ /\ net' \in {net, valid \/ net} /\ Goto(f, "unsure")
     \/ /\ knows /\ net /\ net' = net /\ Goto(f, "known")
     \/ /\ ~valid /\ net' = net /\ Goto(f, "refused")
  /\ UNCHANGED <<path, rec, valid, handed, row, coin, mid, prior>>

NodeAccepted(f) == Change(f, "accepted", AfterSend(f), Marked("broadcasted", "none"))
NodeUnsure_dropped(f) == Remove(f, "unsure", AfterSend(f))
NodeUnsure(f) == Change(f, "unsure", AfterSend(f), Marked("submitted", "network"))
NodeKnewIt(f) == Change(f, "known", AfterSend(f), Marked("broadcasted", "final"))
Refused(f) == Remove(f, "refused", AfterRefusal(f))

\* enrichTrackedAttempt: only now does the record name the coins it spends.
Enrich(f) == Change(f, "enrich", "done", trackAttempt(rec, TRUE))

Send(f) ==
  \/ ReadPrior(f) \/ TrackSend(f) \/ Rearm(f) \/ AskNode(f)
  \/ NodeAccepted(f) \/ NodeUnsure(f) \/ NodeKnewIt(f) \/ Refused(f) \/ Enrich(f)

-----------------------------------------------------------------------------
(* The Fusion paths: the broadcast callback of runP2pFusion and             *)
(* completeFusionBroadcast.                                                  *)

\* The wallet reserves its inputs before the bytes leave it.
Reserve(f) == Change(f, "reserve", "relay", trackAttempt(rec, TRUE))

\* broadcastP2pTransactionTorOnly: relay, then a lookup when the answer is lost.
Relay_unsureRefused(f) ==
  /\ At(f, "relay") /\ valid /\ net' = TRUE /\ handed' = TRUE /\ Goto(f, "refused")
  /\ UNCHANGED <<path, rec, valid, row, coin, mid, prior>>

Relay(f) ==
  /\ At(f, "relay")
  /\ \/ /\ valid /\ net' = TRUE /\ handed' = TRUE
        /\ Goto(f, IF f = "main" THEN "record" ELSE "done")
     \/ /\ net' \in {net, valid \/ net} /\ handed' = TRUE
        /\ \/ Goto(f, "park")
           \/ net' /\ Goto(f, IF f = "main" THEN "record" ELSE "done")
     \/ /\ ~valid /\ UNCHANGED net /\ handed' = FALSE /\ Goto(f, "refused")
  /\ UNCHANGED <<path, rec, valid, row, coin, mid, prior>>

Park(f) ==
  Change(f, "park", "done", IF rec = None THEN None ELSE markVerificationPending(rec))

\* recordBroadcast is trackAttempt and then markState; then markState again.
RecordBroadcast(f) == Change(f, "record", "broadcasted", trackAttempt(rec, TRUE))
\* A record removed meanwhile makes recordBroadcast throw: no markState follows.
MarkBroadcasted(f) ==
  \/ rec # None /\ Change(f, "broadcasted", "finish", markState(rec, "broadcasted", "none"))
  \/ rec = None /\ Step(f, "broadcasted", "stamp")
MarkSeen(f) == Change(f, "finish", "stamp", Marked("seen", "none"))

\* persistFusionHistoryRow
StampHistory(f) ==
  /\ At(f, "stamp") /\ row' = TRUE /\ Goto(f, "done")
  /\ UNCHANGED <<path, rec, net, valid, handed, coin, mid, prior>>

Fuse(f) ==
  \/ Reserve(f) \/ Relay(f) \/ Park(f) \/ Refused(f)
  \/ RecordBroadcast(f) \/ MarkBroadcasted(f) \/ MarkSeen(f) \/ StampHistory(f)

-----------------------------------------------------------------------------
(* reconcileOutboundTransactions *)

\* listActive: refused records are removed, and nothing else done in this pass.
BeginPass(w) ==
  /\ Active
  /\ Step(w, "idle", IF isDeterministicBroadcastError(rec.err) THEN "dropping" ELSE "stale")

DropRefused(w) == Remove(w, "dropping", "idle")

MarkStale_never(w) == Change(w, "stale", "local", None)

\* markStaleBroadcastingAsSubmitted
MarkStale(w) ==
  Change(w, "stale", "local",
         IF rec # None /\ rec.state = "broadcasting" /\ rec.upd >= StaleAge
         THEN markState(rec, "submitted", rec.err) ELSE None)

CheckHistory_never(w) == Change(w, "local", "spent", None) \/ Change(w, "local2", "idle", None)
\* listSeenTxids, before the servers are asked and after.
CheckHistory(w) ==
  \/ Change(w, "local", "spent", MarkedIf(row, "seen"))
  \/ Change(w, "local2", "idle", MarkedIf(row, "seen"))

\* listRecordsWithSpentCoinsGone
CheckSpentCoins(w) ==
  Change(w, "spent", IF TorOnly THEN "idle" ELSE "ask", MarkedIf(rec.ins /\ ~coin, "seen"))

\* getTransactionVisibilityMany: a failure, or an answer that is kept for a while,
\* may not see it.
CheckVisibility(w) ==
  \E answer \in {FALSE, net} : Change(w, "ask", "retry", MarkedIf(answer, "seen"))

Rebroadcast(w) ==
  \/ Step(w, "retry", "prior") /\ Active /\ shouldRebroadcast(rec)
  \/ Step(w, "retry", "history") /\ Active /\ ~shouldRebroadcast(rec)
  \/ Step(w, "retry", "idle") /\ ~Active

\* fetchAndStoreTransactionHistories
FetchHistories(w) ==
  /\ At(w, "history")
  /\ \/ Active /\ row' \in {row, row \/ net} /\ Goto(w, "local2")
     \/ ~Active /\ row' = row /\ Goto(w, "idle")
  /\ UNCHANGED <<path, rec, net, valid, handed, coin, mid, prior>>

Pass(w) ==
  \/ BeginPass(w) \/ DropRefused(w) \/ MarkStale(w)
  \/ CheckHistory(w) \/ CheckSpentCoins(w) \/ CheckVisibility(w)
  \/ Rebroadcast(w) \/ FetchHistories(w)

\* useOutboundTransactions.release, once.
CheckRelease ==
  /\ rec # None /\ (canClear(rec) \/ canRelease(rec))
  /\ Step("user", "check", "removing")

Release == Remove("user", "removing", "done")

-----------------------------------------------------------------------------
(* Around the flows. *)

\* fetchAndStoreUTXOsMany of an ordinary wallet: the table becomes what the
\* server lists (it may lag) minus the coins of listReservedOutpoints, which may
\* have been read before the record was there.
RefreshCoins ==
  /\ \E listed \in {TRUE, ~net}, reserved \in {FALSE, Reserved} : coin' = (listed /\ ~reserved)
  /\ UNCHANGED <<path, rec, net, valid, handed, row, at, mid, prior>>

\* A history sync of the wallet finds the transaction.
SyncHistory ==
  /\ net /\ row' = TRUE
  /\ UNCHANGED <<path, rec, net, valid, handed, coin, at, mid, prior>>

\* External: another participant of the round relays the final transaction.
OthersRelay ==
  /\ role = "peer" /\ valid /\ net' = TRUE
  /\ UNCHANGED <<path, rec, valid, handed, row, coin, at, mid, prior>>

\* Ages count from the write of a record: a write takes far less than the 30
\* seconds of the first age told apart.
TimePasses ==
  /\ rec # None
  /\ rec' = [rec EXCEPT !.upd = IF @ < ReleaseAge THEN @ + 1 ELSE @,
                        !.chk = IF @ = None THEN None ELSE 1]
  /\ UNCHANGED <<path, net, valid, handed, row, coin, at, mid, prior>>

\* The app is killed in the middle of a flow; what is stored survives.  A
\* window is opened again and starts passes anew.
Crash(f) ==
  /\ at[f] \notin {"idle", "down", "done"} \/ mid[f] # None
  /\ Goto(f, IF f \in Windows THEN "down" ELSE "done")
  /\ mid' = [mid EXCEPT ![f] = None]
  /\ prior' = [prior EXCEPT ![f] = None]
  /\ UNCHANGED <<path, rec, net, valid, handed, row, coin>>

Restart(w) == Step(w, "down", "idle")

FlowStep(f) ==
  \/ Save(f)
  \/ Send(f)
  \/ Fuse(f)
  \/ f \in Windows /\ (Pass(f) \/ Restart(f))

TrackerNext ==
  \/ \E f \in Flows : FlowStep(f) \/ Crash(f)
  \/ CheckRelease \/ Release
  \/ RefreshCoins \/ SyncHistory \/ OthersRelay \/ TimePasses

TrackerSpec == TrackerInit /\ [][TrackerNext]_trackerVars

\* Passes are started again and again and run on, wallet syncs happen, time
\* passes, and from some point on the app is not killed in the middle of a pass.  Nothing
\* obliges a send, a round or a release to go on.
TrackerFairSpec ==
  /\ TrackerSpec
  /\ <>[][\A w \in Windows : ~Crash(w)]_trackerVars
  /\ \A w \in Windows : WF_trackerVars(FlowStep(w))
  /\ WF_trackerVars(SyncHistory) /\ WF_trackerVars(TimePasses)
-----------------------------------------------------------------------------
(* Properties *)

\* From the moment the bytes of a Fusion leave the wallet until its relay
\* refuses them, whatever crashes, is retried, reconciled or released by the
\* user: the transaction has a record, and unless that says seen, no round may
\* start and no selection may offer the coins (runP2pFusion: "the inputs stay
\* reserved").
HandedOverIsParked ==
  TorOnly /\ handed
    => rec # None /\ (rec.state = "seen" \/ (isFusionVerificationPending(rec) /\ Reserved))

\* A transaction that this wallet alone hands over is never on the network
\* without a record, unless the user cleared it: a crash, a lost answer, another
\* window's pass or an overwritten write does not lose it, as long as no node
\* answers an error to a transaction it has.
OnWireIsTracked ==
  role # "peer" /\ ~knows /\ net /\ at["user"] # "done" => rec # None

\* The same where nodes do answer so: "broadcasted = already on wire", so that
\* the record of such a transaction must not be taken for a refused one.
KnownIsTracked ==
  role # "peer" /\ knows /\ net /\ at["user"] # "done" => rec # None

\* What is on the network, and stays there, ends up seen, or cleared: every crash
\* and lost write is healed by later passes.
LiveIsResolved == []<>(net /\ rec # None => rec.state = "seen")

\* A record does not stay in broadcasting, where no rebroadcast and no release
\* reaches it, after the flow that put it there died.
NoStaleBroadcasting == []<>(rec # None => rec.state # "broadcasting")

\* What listRecordsWithSpentCoinsGone and completeFusionBroadcast take for
\* granted: a record called seen is of a transaction the network has.
SeenMeansOnWire == rec # None /\ rec.state = "seen" => net
=============================================================================
