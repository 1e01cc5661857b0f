---------------------------- MODULE FusionSession ----------------------------
(***************************************************************************)
(* One P2P round after its set is agreed: runCoordinator and               *)
(* runParticipant of fusionSession.ts over the gift-wrap transport.        *)
(* Credentials, inputs, onion mix of the outputs, assembly, signatures,    *)
(* broadcast and final; with messages that are late, lost, out of order,   *)
(* delivered twice or sent again, with parties that time out or cancel,    *)
(* and native signing that takes its time.                                 *)
(*                                                                         *)
(* All parties follow the protocol.  Amounts, credentials and onions are   *)
(* abstracted to whose they are.  A message is lost by never being         *)
(* received; a party that crashes takes no further step.                   *)
(***************************************************************************)
EXTENDS Naturals, Sequences, FiniteSets

CONSTANTS
  Parties,
  Leader,      \* the elected coordinator
  mixOrder,    \* the peelers, in the order of their hops
  Outputs,     \* the outputs of all contributions
  owner,       \* owner[o]: whose output it is
  Patience     \* values of patient to start with

ASSUME SessionAssumption ==
  /\ Leader \in Parties /\ IsFiniteSet(Outputs)
  /\ mixOrder \in Seq(Parties) /\ Len(mixOrder) >= 2
  /\ \A p \in Parties : p # Leader <=> \E i \in DOMAIN mixOrder : mixOrder[i] = p
  /\ \A i, j \in DOMAIN mixOrder : mixOrder[i] = mixOrder[j] => i = j
  /\ owner \in [Outputs -> Parties]
  /\ Patience \subseteq BOOLEAN

Peers == Parties \ {Leader}

\* about: the party or the outputs the message speaks of.
Message ==
  [kind : {"params", "request", "response", "inputs", "declare", "ready",
           "assembled", "signature", "final", "abort"},
   to : Parties, about : Parties]
  \cup [kind : {"onion", "outputs"}, to : Parties, about : SUBSET Outputs]

VARIABLES
  patient,   \* TRUE: no timer fires, nobody cancels, the relay answers well
  net,       \* the messages sent
  seen,      \* those handled (seenNonces)
  flow,      \* flow[p]: the next step of its own async function
  outcome,   \* outcome[p]: "open", or how its promise settled
  sign,      \* sign[p]: "no", "signing" once it has a template, "gave"
  declared,  \* declared[p]: the keys of declaredOnionCounts of peeler p
  blobs,     \* blobs[p]: seenOnionPayloads of peeler p
  arrived,   \* arrived[p]: the length of its collectedOnions
  peel,      \* peel[p]: "no", "busy" or "done"
  creds,     \* leader: credentialedPeers
  inputsIn,  \* leader: whose inputs it accepted
  ready,     \* leader: readyPeers
  revealed,  \* leader: it has the onion reveal batch
  sigs,      \* leader: whose signatures it has
  handed,    \* leader: broadcastStarted, and whether the call has returned
  live       \* the network has the transaction

mixVars == <<declared, blobs, arrived, peel>>
leadVars == <<creds, inputsIn, ready, revealed, sigs, handed>>
sessionVars == <<patient, net, seen, flow, outcome, sign, mixVars, leadVars, live>>

SessionTypeOK ==
  /\ patient \in BOOLEAN
  /\ net \subseteq Message /\ seen \subseteq net
  /\ flow \in [Parties -> {"params", "request", "response", "register", "inject", "ready", "done"}]
  /\ outcome \in [Parties -> {"open", "failed", "cancelled", "fused"}]
  /\ sign \in [Parties -> {"no", "signing", "gave"}]
  /\ declared \in [Peers -> SUBSET Parties]
  /\ blobs \in [Peers -> SUBSET Outputs]
  /\ arrived \in [Peers -> Nat]
  /\ peel \in [Peers -> {"no", "busy", "done"}]
  /\ creds \subseteq Parties /\ inputsIn \subseteq Parties /\ ready \subseteq Parties
  /\ revealed \in BOOLEAN /\ live \in BOOLEAN
  \* a signature the leader has was given by a party that saw the template
  /\ sigs \subseteq {p \in Parties : sign[p] = "gave"}
  /\ sign[Leader] = "no" => \A p \in Parties : sign[p] = "no"
  /\ handed \in {"no", "busy", "done"}

SessionInit ==
  /\ patient \in Patience
  /\ net = {} /\ seen = {}
  /\ flow = [p \in Parties |-> "params"]
  /\ outcome = [p \in Parties |-> "open"]
  /\ sign = [p \in Parties |-> "no"]
  /\ declared = [p \in Peers |-> {}] /\ blobs = [p \in Peers |-> {}]
  /\ arrived = [p \in Peers |-> 0] /\ peel = [p \in Peers |-> "no"]
  /\ creds = {Leader} /\ inputsIn = {Leader} /\ ready = {}
  /\ revealed = FALSE /\ sigs = {} /\ handed = "no" /\ live = FALSE

-----------------------------------------------------------------------------
Msg(kind, to, about) == [kind |-> kind, to |-> to, about |-> about]
Send(msgs) == net' = net \cup msgs
ToPeers(kind) == {Msg(kind, p, Leader) : p \in Peers}
ToLeader(kind, p) == {Msg(kind, Leader, p)}

Go(p, step) == flow' = [flow EXCEPT ![p] = step]
Settle(p, result) == outcome' = [outcome EXCEPT ![p] = result]

\* fail: the promise is rejected and the other side is told.
Abort(p) == IF p = Leader THEN ToPeers("abort") ELSE ToLeader("abort", p)
Fail(p, result) == Settle(p, result) /\ Send(Abort(p))

myOutputs(p) == {o \in Outputs : owner[o] = p}
firstPeeler == mixOrder[1]
Onions(hop, outs) == {Msg("onion", hop, {o}) : o \in outs}

-----------------------------------------------------------------------------
(* The async function of a party.  It does not look at settled: after a    *)
(* failure it sends on until it waits for a message.                       *)

\* runCoordinator publishes its parameters.
Publish ==
  /\ flow[Leader] = "params"
  /\ Go(Leader, "inject") /\ Send(ToPeers("params"))
  /\ UNCHANGED <<patient, seen, outcome, sign, mixVars, leadVars, live>>

Request(p) ==
  /\ flow[p] = "request"
  /\ Go(p, "response") /\ Send(ToLeader("request", p))
  /\ UNCHANGED <<patient, seen, outcome, sign, mixVars, leadVars, live>>

\* The credentials are unblinded; the inputs go out under throwaway keys.
Register(p) ==
  /\ flow[p] = "register"
  /\ Go(p, "inject") /\ Send(ToLeader("inputs", p))
  /\ UNCHANGED <<patient, seen, outcome, sign, mixVars, leadVars, live>>

BatchReady_peersOnly(p) ==
  /\ declared'[p] = Peers /\ arrived'[p] >= Cardinality(Outputs)
  /\ outcome[p] = "open" /\ peel[p] = "no"

\* processOnionBatchIfReady: the batch is complete when all parties have
\* declared and as many blobs as they declared are here.
BatchReady(p) ==
  /\ declared'[p] = Parties /\ arrived'[p] >= Cardinality(Outputs)
  /\ outcome[p] = "open" /\ peel[p] = "no"

TryPeel(p) == peel' = IF BatchReady(p) THEN [peel EXCEPT ![p] = "busy"] ELSE peel

\* handleOnionMessage: a blob that is here already is the echo of a re-send.
Collect(p, outs) ==
  IF outcome[p] # "open" \/ peel[p] = "done" THEN UNCHANGED <<blobs, arrived>>
  ELSE /\ blobs' = [blobs EXCEPT ![p] = blobs[p] \cup outs]
       /\ arrived' = [arrived EXCEPT ![p] = arrived[p] + Cardinality(outs \ blobs[p])]

\* onion_declare to all other peelers, the wrapped outputs to the first one.
Inject(p) ==
  /\ flow[p] = "inject"
  /\ Go(p, "ready")
  /\ Send({Msg("declare", q, p) : q \in Peers \ {p}} \cup
          (IF p = firstPeeler THEN {} ELSE Onions(firstPeeler, myOutputs(p))))
  /\ IF p = Leader THEN UNCHANGED mixVars
     ELSE /\ declared' = [declared EXCEPT ![p] = declared[p] \cup {p}]
          /\ IF p = firstPeeler THEN Collect(p, myOutputs(p)) /\ TryPeel(p)
             ELSE UNCHANGED <<blobs, arrived, peel>>
  /\ UNCHANGED <<patient, seen, outcome, sign, leadVars, live>>

-----------------------------------------------------------------------------
(* The leader assembles and hands over. *)

CanAssemble ==
  /\ outcome[Leader] = "open" /\ sign[Leader] = "no"
  /\ ready' = Parties /\ revealed' /\ creds' = Parties /\ inputsIn' = Parties

\* tryAssemble, at the end of each handler that may complete the pools.
TryAssemble == sign' = IF CanAssemble THEN [sign EXCEPT ![Leader] = "signing"] ELSE sign

\* components_ready; the leader marks itself.
Ready(p) ==
  /\ flow[p] = "ready" /\ Go(p, "done")
  /\ IF p = Leader
     THEN /\ ready' = ready \cup {Leader}
          /\ UNCHANGED <<net, creds, inputsIn, revealed, sigs, handed>> /\ TryAssemble
     ELSE Send(ToLeader("ready", p)) /\ UNCHANGED <<sign, leadVars>>
  /\ UNCHANGED <<patient, seen, outcome, mixVars, live>>

Sign_uncancelled(p) ==
  /\ sign[p] = "signing"
  /\ sign' = [sign EXCEPT ![p] = "gave"]
  /\ Send(IF p = Leader THEN ToPeers("assembled") ELSE ToLeader("signature", p))
  /\ sigs' = IF p = Leader THEN sigs \cup {p} ELSE sigs
  /\ UNCHANGED <<patient, seen, flow, outcome, mixVars, creds, inputsIn, ready, revealed, handed, live>>

Sign_unrecorded(p) ==
  /\ sign[p] = "signing" /\ outcome[p] # "cancelled"
  /\ Send(IF p = Leader THEN ToPeers("assembled") ELSE ToLeader("signature", p))
  /\ sigs' = IF p = Leader THEN sigs \cup {p} ELSE sigs
  /\ UNCHANGED <<patient, seen, flow, outcome, sign, mixVars, creds, inputsIn, ready, revealed, handed, live>>

\* The native signer is back: assembleVerifySign throws if the round was
\* cancelled; it does not ask whether it failed.  tryFinalize has to wait for
\* the others' signatures.
Sign(p) ==
  /\ sign[p] = "signing" /\ outcome[p] # "cancelled"
  /\ sign' = [sign EXCEPT ![p] = "gave"]
  /\ Send(IF p = Leader THEN ToPeers("assembled") ELSE ToLeader("signature", p))
  /\ sigs' = IF p = Leader THEN sigs \cup {p} ELSE sigs
  /\ UNCHANGED <<patient, seen, flow, outcome, mixVars, creds, inputsIn, ready, revealed, handed, live>>

TryFinalize_peerCount ==
  handed' = IF outcome[Leader] = "open" /\ handed = "no" /\ Cardinality(sigs') >= Cardinality(Peers)
            THEN "busy" ELSE handed

\* One signature per input; broadcastStarted is set with no wait in between.
TryFinalize ==
  handed' = IF outcome[Leader] = "open" /\ handed = "no" /\ sigs' = Parties
            THEN "busy" ELSE handed

\* params.broadcast returns an id, of a transaction that may not be verified,
\* or throws: nothing was relayed, or a node refused it for good.  (A storage
\* that fails after an unclear answer is left out.)
Return ==
  /\ handed = "busy" /\ handed' = "done"
  /\ \/ /\ live' \in IF patient THEN {TRUE} ELSE {live, TRUE}
        /\ Settle(Leader, "fused") /\ Send(ToPeers("final"))
     \/ ~patient /\ Fail(Leader, "failed") /\ UNCHANGED live
  /\ UNCHANGED <<patient, seen, flow, sign, mixVars, creds, inputsIn, ready, revealed, sigs>>

-----------------------------------------------------------------------------
(* The message handlers. *)

\* fail of the leader is ignored once the broadcast has started.
MayFail(p) == p = Leader => handed = "no"

Refuse(p) == IF MayFail(p) THEN Fail(p, "failed") ELSE UNCHANGED <<net, outcome>>

LeaderHandles(m) ==
  LET p == m.about IN
  \/ /\ m.kind = "request"
     /\ IF p \in creds THEN Refuse(Leader) /\ UNCHANGED creds
        ELSE creds' = creds \cup {p} /\ Send({Msg("response", p, Leader)}) /\ UNCHANGED outcome
     /\ UNCHANGED <<sign, inputsIn, ready, revealed, sigs, handed>>
  \/ /\ m.kind = "inputs"
     /\ IF p \in inputsIn \/ p \notin creds
        THEN Refuse(Leader) /\ UNCHANGED <<sign, inputsIn, creds, ready, revealed>>
        ELSE /\ inputsIn' = inputsIn \cup {p}
             /\ UNCHANGED <<net, outcome, creds, ready, revealed>> /\ TryAssemble
     /\ UNCHANGED <<sigs, handed>>
  \/ /\ m.kind = "ready"
     /\ ready' = ready \cup {p}
     /\ UNCHANGED <<net, outcome, creds, inputsIn, revealed>> /\ TryAssemble
     /\ UNCHANGED <<sigs, handed>>
  \/ /\ m.kind = "outputs" /\ sign[Leader] = "no"
     /\ IF creds # Parties \/ revealed \/ m.about # Outputs
        THEN Refuse(Leader) /\ UNCHANGED <<sign, inputsIn, creds, ready, revealed>>
        ELSE /\ revealed' = TRUE
             /\ UNCHANGED <<net, outcome, creds, inputsIn, ready>> /\ TryAssemble
     /\ UNCHANGED <<sigs, handed>>
  \/ /\ m.kind = "signature" /\ sign[Leader] # "no"
     /\ sigs' = sigs \cup {p} /\ TryFinalize
     /\ UNCHANGED <<net, outcome, sign, creds, inputsIn, ready, revealed>>
  \/ /\ m.kind = "abort"
     /\ Refuse(Leader) /\ UNCHANGED <<sign, leadVars>>

PeerHandles(p, m) ==
  \/ /\ m.kind = "params"
     /\ IF flow[p] = "params" THEN Go(p, "request") ELSE UNCHANGED flow
     /\ UNCHANGED <<net, outcome, sign>>
  \/ /\ m.kind = "response"
     /\ IF flow[p] = "response" THEN Go(p, "register") ELSE UNCHANGED flow
     /\ UNCHANGED <<net, outcome, sign>>
  \/ /\ m.kind = "assembled"
     /\ sign' = IF sign[p] = "no" THEN [sign EXCEPT ![p] = "signing"] ELSE sign
     /\ UNCHANGED <<net, outcome, flow>>
  \/ /\ m.kind = "final"
     /\ IF sign[p] = "no" THEN Refuse(p) ELSE Settle(p, "fused") /\ UNCHANGED net
     /\ UNCHANGED <<flow, sign>>
  \/ /\ m.kind = "abort"
     /\ Settle(p, "failed") /\ UNCHANGED <<net, flow, sign>>

PeelerHandles(p, m) ==
  \/ /\ m.kind = "declare"
     /\ declared' = [declared EXCEPT ![p] = declared[p] \cup {m.about}]
     /\ UNCHANGED <<blobs, arrived>> /\ TryPeel(p)
  \/ /\ m.kind = "onion"
     /\ Collect(p, m.about) /\ UNCHANGED declared /\ TryPeel(p)

Handle(m) ==
  /\ outcome[m.to] = "open"
  /\ \/ m.to = Leader /\ LeaderHandles(m) /\ UNCHANGED <<flow, mixVars>>
     \/ m.to # Leader /\ PeerHandles(m.to, m) /\ UNCHANGED <<mixVars, leadVars>>
     \/ m.to # Leader /\ PeelerHandles(m.to, m) /\ UNCHANGED <<net, flow, outcome, sign, leadVars>>
  /\ UNCHANGED <<patient, live>>

Receive_everyCopy(m) == m \in net /\ seen' = seen \cup {m} /\ Handle(m)

\* A copy with a nonce that was seen is dropped.
Receive(m) == m \in net \ seen /\ seen' = seen \cup {m} /\ Handle(m)

\* The timers send these again under fresh nonces.
Resent == {"declare", "onion", "assembled", "signature"}
Redeliver(m) == m \in seen /\ m.kind \in Resent /\ Handle(m) /\ UNCHANGED seen

\* The peeled and shuffled batch goes to the next hop, from the last one as
\* the reveal to the leader; a batch that was begun is finished.
Forward(i) ==
  LET p == mixOrder[i] IN
  /\ peel[p] = "busy"
  /\ peel' = [peel EXCEPT ![p] = "done"]
  /\ Send(IF i = Len(mixOrder) THEN {Msg("outputs", Leader, blobs[p])}
          ELSE Onions(mixOrder[i + 1], blobs[p]))
  /\ UNCHANGED <<patient, seen, flow, outcome, sign, declared, blobs, arrived, leadVars, live>>

\* A timer, a failed send, a refusal or the user ends the round of p.  Unless
\* its signer is at work, the user's cancellation is a failure like the others.
GiveUp(p) ==
  /\ ~patient /\ outcome[p] = "open" /\ MayFail(p)
  /\ \/ Fail(p, "failed")
     \/ sign[p] = "signing" /\ Fail(p, "cancelled")
  /\ UNCHANGED <<patient, seen, flow, sign, mixVars, leadVars, live>>

\* A participant that has the final transaction relays it too.
PeerRelay(p) ==
  /\ p # Leader /\ outcome[p] = "fused" /\ live' = TRUE
  /\ UNCHANGED <<patient, net, seen, flow, outcome, sign, mixVars, leadVars>>

Progress ==
  \/ Publish \/ Return
  \/ \E p \in Parties : Request(p) \/ Register(p) \/ Inject(p) \/ Ready(p) \/ Sign(p)
  \/ \E i \in DOMAIN mixOrder : Forward(i)
  \/ \E m \in net : Receive(m)

Next ==
  \/ Progress
  \/ \E m \in net : Redeliver(m)
  \/ \E p \in Parties : GiveUp(p) \/ PeerRelay(p)

SessionSpec == SessionInit /\ [][Next]_sessionVars /\ WF_sessionVars(patient /\ Progress)

-----------------------------------------------------------------------------
(* Properties *)

\* The round is an atomic one: handed over once, with everybody's signatures.
Atomic == INSTANCE AtomicFusion WITH
  given <- {p \in Parties : sign[p] = "gave"},
  verdict <- [p \in Parties |-> IF outcome[p] = "cancelled" THEN "failed" ELSE outcome[p]]

ImplementsAtomicFusion == Atomic!AtomicSpec

\* While a party is cancelled nothing of the round may reach the chain, whatever
\* its signer still answers and the others send again: no signature of it is on
\* its way or held by the leader, the round is not handed over, nobody relays it.
CancelStands == \A p \in Parties : outcome[p] = "cancelled" =>
  /\ \A m \in net : m.kind = "signature" => m.about # p
  /\ p \notin sigs /\ handed = "no" /\ ~live

\* Whatever the order, the copies and the losses of messages, no party of a round
\* in which no timer fires takes another's message for a violation of the protocol.
NobodyRefuses == patient => \A p \in Parties : outcome[p] \in {"open", "fused"}

\* Nor do they miss a trigger: such a round, once begun, completes for all.
Converges == []<>(patient => \A p \in Parties : outcome[p] = "fused")

\* "Free the coins only when their fate is known": the finally of a participant
\* that failed frees them, so the round must be dead.
FreedWhenFateIsKnown == \A p \in Peers : outcome[p] \in {"failed", "cancelled"} => ~live
=============================================================================
