----------------------- MODULE FusionSession_proofs -----------------------
(***************************************************************************)
(* FusionSession implements AtomicFusion, and nobody in it refuses a round *)
(* that no timer ends, for any number of parties, hops and outputs.        *)
(***************************************************************************)
EXTENDS FusionSession, FiniteSetTheorems, TLAPS

-----------------------------------------------------------------------------
(* The inductive invariant. *)

\* What a message in the network proves of its sender.
NetTells == \A m \in net :
  /\ m.kind = "assembled" => sign[Leader] = "gave"
  /\ m.kind = "signature" => sign[m.about] = "gave"
  /\ m.kind = "final" => outcome[Leader] = "fused"

HandTells ==
  /\ handed # "no" => \A p \in Parties : sign[p] = "gave"
  /\ handed = "no" => outcome[Leader] # "fused"
  /\ handed = "busy" => outcome[Leader] = "open"
  /\ handed = "done" => outcome[Leader] # "open"

SessionInv == SessionTypeOK /\ NetTells /\ HandTells

-----------------------------------------------------------------------------
(* Lemmas *)

PartyKinds == {"params", "request", "response", "inputs", "declare", "ready",
               "assembled", "signature", "final", "abort"}

LEMMA MessageOf ==
  ASSUME NEW m \in Message
  PROVE  /\ m.to \in Parties
         /\ m.kind \in PartyKinds => m.about \in Parties
         /\ m.kind \in {"onion", "outputs"} => m.about \in SUBSET Outputs
BY DEF Message, PartyKinds

LEMMA PartyMsg ==
  ASSUME NEW k \in PartyKinds, NEW to \in Parties, NEW p \in Parties
  PROVE  Msg(k, to, p) \in Message /\ Msg(k, to, p).kind = k /\ Msg(k, to, p).about = p
BY DEF Msg, Message, PartyKinds

LEMMA OutputMsg ==
  ASSUME NEW k \in {"onion", "outputs"}, NEW to \in Parties, NEW S \in SUBSET Outputs
  PROVE  Msg(k, to, S) \in Message /\ Msg(k, to, S).kind = k
BY DEF Msg, Message

LEMMA ToPeersMsgs ==
  ASSUME NEW k \in PartyKinds
  PROVE  ToPeers(k) \subseteq Message /\ \A m \in ToPeers(k) : m.kind = k
BY PartyMsg, SessionAssumption DEF ToPeers, Peers

LEMMA ToLeaderMsgs ==
  ASSUME NEW k \in PartyKinds, NEW p \in Parties
  PROVE  ToLeader(k, p) \subseteq Message /\ \A m \in ToLeader(k, p) : m.kind = k /\ m.about = p
BY PartyMsg, SessionAssumption DEF ToLeader

LEMMA AbortMsgs ==
  ASSUME NEW p \in Parties
  PROVE  Abort(p) \subseteq Message /\ \A m \in Abort(p) : m.kind = "abort"
<1>1. "abort" \in PartyKinds
  BY DEF PartyKinds
<1> QED BY <1>1, ToPeersMsgs, ToLeaderMsgs DEF Abort

LEMMA HopsAreParties ==
  /\ \A i \in DOMAIN mixOrder : mixOrder[i] \in Peers /\ mixOrder[i] \in Parties
  /\ firstPeeler \in Peers /\ firstPeeler \in Parties
  /\ \A i \in DOMAIN mixOrder : i # Len(mixOrder) => i + 1 \in DOMAIN mixOrder
BY SessionAssumption DEF Peers, firstPeeler

LEMMA OnionMsgs ==
  ASSUME NEW hop \in Parties, NEW S \in SUBSET Outputs
  PROVE  Onions(hop, S) \subseteq Message /\ \A m \in Onions(hop, S) : m.kind = "onion"
<1>1. \A o \in S : {o} \in SUBSET Outputs
  OBVIOUS
<1>2. \A o \in S : Msg("onion", hop, {o}) \in Message /\ Msg("onion", hop, {o}).kind = "onion"
  BY <1>1, OutputMsg
<1> QED BY <1>2 DEF Onions

\* The messages of the whole system are harmless unless of three kinds.
Harmless(msgs) ==
  msgs \subseteq Message /\ \A m \in msgs : m.kind \notin {"assembled", "signature", "final"}

\* Steps that only talk and move a party's own function.
LEMMA TalkKeeps ==
  ASSUME SessionInv, NEW msgs, Harmless(msgs), Send(msgs),
         UNCHANGED <<patient, seen, outcome, sign, leadVars, live>>,
         flow' \in [Parties -> {"params", "request", "response", "register", "inject", "ready", "done"}],
         declared' \in [Peers -> SUBSET Parties],
         blobs' \in [Peers -> SUBSET Outputs],
         arrived' \in [Peers -> Nat],
         peel' \in [Peers -> {"no", "busy", "done"}]
  PROVE  SessionInv'
<1>1. SessionTypeOK'
  BY DEF SessionInv, SessionTypeOK, Harmless, Send, leadVars
<1>2. NetTells'
  BY DEF SessionInv, NetTells, Harmless, Send
<1>3. HandTells'
  BY DEF SessionInv, HandTells, leadVars
<1> QED BY <1>1, <1>2, <1>3 DEF SessionInv

LEMMA CollectTyped ==
  ASSUME SessionTypeOK, NEW p \in Peers, NEW S \in SUBSET Outputs, Collect(p, S)
  PROVE  blobs' \in [Peers -> SUBSET Outputs] /\ arrived' \in [Peers -> Nat]
<1>1. S \ blobs[p] \subseteq Outputs
  OBVIOUS
<1>2. Cardinality(S \ blobs[p]) \in Nat
  BY <1>1, FS_Subset, FS_CardinalityType, SessionAssumption
<1> QED BY <1>2 DEF SessionTypeOK, Collect

LEMMA TryPeelTyped ==
  ASSUME SessionTypeOK, NEW p \in Peers, TryPeel(p)
  PROVE  peel' \in [Peers -> {"no", "busy", "done"}]
BY DEF SessionTypeOK, TryPeel

LEMMA TalkStep ==
  ASSUME SessionInv,
         \/ Publish
         \/ \E p \in Parties : Request(p) \/ Register(p) \/ Inject(p)
         \/ \E i \in DOMAIN mixOrder : Forward(i)
  PROVE  SessionInv'
<1> USE DEF SessionInv
<1>1. CASE Publish
  <2>1. Harmless(ToPeers("params"))
    BY ToPeersMsgs DEF Harmless, PartyKinds
  <2> QED BY <1>1, <2>1, TalkKeeps DEF Publish, mixVars, SessionTypeOK, Go
<1>2. ASSUME NEW p \in Parties, Request(p) PROVE SessionInv'
  <2>1. Harmless(ToLeader("request", p))
    BY ToLeaderMsgs DEF Harmless, PartyKinds
  <2> QED BY <1>2, <2>1, TalkKeeps DEF Request, mixVars, SessionTypeOK, Go
<1>3. ASSUME NEW p \in Parties, Register(p) PROVE SessionInv'
  <2>1. Harmless(ToLeader("inputs", p))
    BY ToLeaderMsgs DEF Harmless, PartyKinds
  <2> QED BY <1>3, <2>1, TalkKeeps DEF Register, mixVars, SessionTypeOK, Go
<1>4. ASSUME NEW p \in Parties, Inject(p) PROVE SessionInv'
  <2> DEFINE msgs == {Msg("declare", q, p) : q \in Peers \ {p}} \cup
               (IF p = firstPeeler THEN {} ELSE Onions(firstPeeler, myOutputs(p)))
  <2>1. Harmless(msgs)
    <3>1. Onions(firstPeeler, myOutputs(p)) \subseteq Message
          /\ \A m \in Onions(firstPeeler, myOutputs(p)) : m.kind = "onion"
      BY OnionMsgs, HopsAreParties DEF myOutputs
    <3>2. \A q \in Peers : Msg("declare", q, p) \in Message /\ Msg("declare", q, p).kind = "declare"
      BY PartyMsg DEF PartyKinds, Peers
    <3> QED BY <3>1, <3>2 DEF Harmless
  <2>2. declared' \in [Peers -> SUBSET Parties]
    BY <1>4 DEF Inject, mixVars, SessionTypeOK, Peers
  <2>3. /\ blobs' \in [Peers -> SUBSET Outputs]
        /\ arrived' \in [Peers -> Nat]
        /\ peel' \in [Peers -> {"no", "busy", "done"}]
    <3>1. CASE p = firstPeeler /\ p # Leader
      <4>1. p \in Peers /\ myOutputs(p) \in SUBSET Outputs
        BY <3>1 DEF Peers, myOutputs
      <4> QED BY <1>4, <3>1, <4>1, CollectTyped, TryPeelTyped DEF Inject
    <3>2. CASE ~(p = firstPeeler /\ p # Leader)
      BY <1>4, <3>2 DEF Inject, mixVars, SessionTypeOK
    <3> QED BY <3>1, <3>2
  <2>4. Send(msgs) /\ Go(p, "ready") /\ UNCHANGED <<patient, seen, outcome, sign, leadVars, live>>
    BY <1>4 DEF Inject
  <2> HIDE DEF msgs
  <2> QED BY <2>1, <2>2, <2>3, <2>4, TalkKeeps DEF Go, SessionTypeOK
<1>5. ASSUME NEW i \in DOMAIN mixOrder, Forward(i) PROVE SessionInv'
  <2> DEFINE p == mixOrder[i]
  <2>1. p \in Peers /\ blobs[p] \in SUBSET Outputs
    BY HopsAreParties DEF SessionTypeOK
  <2> DEFINE msgs == IF i = Len(mixOrder) THEN {Msg("outputs", Leader, blobs[p])}
                     ELSE Onions(mixOrder[i + 1], blobs[p])
  <2>2. Harmless(msgs)
    <3>1. CASE i = Len(mixOrder)
      BY <2>1, <3>1, OutputMsg, SessionAssumption DEF Harmless
    <3>2. CASE i # Len(mixOrder)
      <4>1. mixOrder[i + 1] \in Parties
        BY <3>2, HopsAreParties
      <4> QED BY <2>1, <3>2, <4>1, OnionMsgs DEF Harmless
    <3> QED BY <3>1, <3>2
  <2>3. peel' \in [Peers -> {"no", "busy", "done"}]
    BY <1>5, <2>1 DEF Forward, SessionTypeOK
  <2>4. Send(msgs) /\ UNCHANGED <<patient, seen, flow, outcome, sign, declared, blobs, arrived, leadVars, live>>
    BY <1>5 DEF Forward
  <2> HIDE DEF msgs
  <2> QED BY <2>2, <2>3, <2>4, TalkKeeps DEF SessionTypeOK
<1> QED BY <1>1, <1>2, <1>3, <1>4, <1>5

-----------------------------------------------------------------------------
(* Handlers: what each of them may do to the net, a verdict and sign. *)

NewNet == \E msgs : Harmless(msgs) /\ net' = net \cup msgs /\ seen' \subseteq net'

NewOutcome ==
  /\ outcome' \in [Parties -> {"open", "failed", "cancelled", "fused"}]
  /\ outcome[Leader] = "fused" => outcome'[Leader] = "fused"
  /\ handed = "no" => outcome'[Leader] # "fused"
  /\ handed = "busy" => outcome'[Leader] = "open"
  /\ handed = "done" => outcome'[Leader] # "open"

NewSign ==
  /\ sign' \in [Parties -> {"no", "signing", "gave"}]
  /\ \A p \in Parties : sign[p] = "gave" => sign'[p] = "gave"
  /\ sign'[Leader] = "no" => \A p \in Parties : sign'[p] = "no"

NewHand ==
  /\ sigs' \subseteq {p \in Parties : sign'[p] = "gave"}
  /\ \/ handed' = handed
     \/ /\ handed = "no" /\ handed' = "busy" /\ sigs' = Parties
        /\ outcome[Leader] = "open" /\ outcome' = outcome

NewMix ==
  /\ declared' \in [Peers -> SUBSET Parties]
  /\ blobs' \in [Peers -> SUBSET Outputs]
  /\ arrived' \in [Peers -> Nat]
  /\ peel' \in [Peers -> {"no", "busy", "done"}]

NewLead ==
  /\ creds' \subseteq Parties /\ inputsIn' \subseteq Parties /\ ready' \subseteq Parties
  /\ revealed' \in BOOLEAN

LEMMA StepKeeps ==
  ASSUME SessionInv, NewNet, NewOutcome, NewSign, NewHand, NewMix, NewLead,
         UNCHANGED patient, live' \in BOOLEAN,
         flow' \in [Parties -> {"params", "request", "response", "register", "inject", "ready", "done"}]
  PROVE  SessionInv'
<1>1. PICK msgs : Harmless(msgs) /\ net' = net \cup msgs /\ seen' \subseteq net'
  BY DEF NewNet
<1>2. handed' \in {"no", "busy", "done"}
  BY DEF NewHand, SessionInv, SessionTypeOK
<1>3. sigs' \subseteq {p \in Parties : sign'[p] = "gave"}
  BY DEF NewHand
<1>4. net' \subseteq Message
  BY <1>1 DEF Harmless, SessionInv, SessionTypeOK
<1>5. patient' \in BOOLEAN
  BY DEF SessionInv, SessionTypeOK
<1>6. SessionTypeOK'
  BY <1>1, <1>2, <1>3, <1>4, <1>5 DEF SessionTypeOK, NewOutcome, NewSign, NewMix, NewLead
<1>7. NetTells'
  <2> SUFFICES ASSUME NEW m \in net'
               PROVE  /\ m.kind = "assembled" => sign'[Leader] = "gave"
                      /\ m.kind = "signature" => sign'[m.about] = "gave"
                      /\ m.kind = "final" => outcome'[Leader] = "fused"
    BY DEF NetTells
  <2>1. CASE m \in msgs
    BY <1>1, <2>1 DEF Harmless
  <2>2. CASE m \in net
    <3>1. m.kind = "signature" => m.about \in Parties
      BY <2>2, MessageOf DEF SessionInv, SessionTypeOK, PartyKinds
    <3> QED BY <2>2, <3>1, SessionAssumption DEF SessionInv, NetTells, NewSign, NewOutcome
  <2> QED BY <1>1, <2>1, <2>2
<1>8. HandTells'
  <2>1. CASE handed' = handed
    BY <2>1 DEF SessionInv, HandTells, NewOutcome, NewSign
  <2>2. CASE handed' # handed
    BY <1>3, <2>2 DEF SessionInv, HandTells, NewHand
  <2> QED BY <2>1, <2>2
<1> QED BY <1>6, <1>7, <1>8 DEF SessionInv

\* A failure of p that fail does not ignore.
LEMMA FailIs ==
  ASSUME SessionInv, NEW p \in Parties, outcome[p] = "open", MayFail(p),
         NEW r \in {"failed", "cancelled"}, Fail(p, r), seen' \subseteq net'
  PROVE  NewNet /\ NewOutcome
<1>1. Harmless(Abort(p))
  BY AbortMsgs DEF Harmless
<1>2. NewNet
  BY <1>1 DEF NewNet, Fail, Send
<1>3. NewOutcome
  BY SessionAssumption DEF NewOutcome, Fail, Settle, MayFail, SessionInv, SessionTypeOK, HandTells
<1> QED BY <1>2, <1>3

LEMMA QuietNet ==
  ASSUME SessionInv, UNCHANGED net, seen' \subseteq net
  PROVE  NewNet
<1>1. Harmless({})
  BY DEF Harmless
<1> QED BY <1>1 DEF NewNet

LEMMA QuietOutcome ==
  ASSUME SessionInv, UNCHANGED outcome
  PROVE  NewOutcome
BY DEF NewOutcome, SessionInv, SessionTypeOK, HandTells

LEMMA QuietSign ==
  ASSUME SessionInv, UNCHANGED sign
  PROVE  NewSign
BY DEF NewSign, SessionInv, SessionTypeOK

LEMMA QuietHand ==
  ASSUME SessionInv, UNCHANGED <<sigs, handed>>, NewSign
  PROVE  NewHand
BY DEF NewHand, NewSign, SessionInv, SessionTypeOK

LEMMA QuietMix ==
  ASSUME SessionInv, UNCHANGED mixVars
  PROVE  NewMix
BY DEF NewMix, mixVars, SessionInv, SessionTypeOK

LEMMA QuietLead ==
  ASSUME SessionInv, UNCHANGED <<creds, inputsIn, ready, revealed>>
  PROVE  NewLead
BY DEF NewLead, SessionInv, SessionTypeOK

LEMMA RefuseIs ==
  ASSUME SessionInv, NEW p \in Parties, outcome[p] = "open", Refuse(p), seen' \subseteq net'
  PROVE  NewNet /\ NewOutcome
<1>1. CASE MayFail(p)
  BY <1>1, FailIs DEF Refuse
<1>2. CASE ~MayFail(p)
  BY <1>2, QuietNet, QuietOutcome DEF Refuse
<1> QED BY <1>1, <1>2

LEMMA AssembleIs ==
  ASSUME SessionInv, TryAssemble
  PROVE  NewSign
BY SessionAssumption DEF TryAssemble, CanAssemble, NewSign, SessionInv, SessionTypeOK

-----------------------------------------------------------------------------
(* One step per action. *)

LEMMA ReadyStep ==
  ASSUME SessionInv, NEW p \in Parties, Ready(p)
  PROVE  SessionInv'
<1>1. NewMix /\ NewOutcome /\ patient' = patient /\ live' \in BOOLEAN
  BY QuietMix, QuietOutcome DEF Ready, SessionInv, SessionTypeOK
<1>2. flow' \in [Parties -> {"params", "request", "response", "register", "inject", "ready", "done"}]
  BY DEF Ready, Go, SessionInv, SessionTypeOK
<1>3. CASE p = Leader
  <2>1. TryAssemble /\ UNCHANGED <<net, seen, sigs, handed>>
    BY <1>3 DEF Ready
  <2>2. NewSign /\ NewHand
    BY <2>1, AssembleIs, QuietHand
  <2>3. NewNet
    BY <2>1, QuietNet DEF SessionInv, SessionTypeOK
  <2>4. NewLead
    BY <1>3 DEF Ready, NewLead, SessionInv, SessionTypeOK
  <2> QED BY <1>1, <1>2, <2>2, <2>3, <2>4, StepKeeps
<1>4. CASE p # Leader
  <2>1. Send(ToLeader("ready", p)) /\ UNCHANGED <<sign, leadVars, seen>>
    BY <1>4 DEF Ready
  <2>2. Harmless(ToLeader("ready", p))
    BY ToLeaderMsgs DEF Harmless, PartyKinds
  <2>3. NewNet
    BY <2>1, <2>2 DEF NewNet, Send, SessionInv, SessionTypeOK
  <2>4. NewSign /\ NewHand /\ NewLead
    BY <2>1, QuietSign, QuietHand, QuietLead DEF leadVars
  <2> QED BY <1>1, <1>2, <2>3, <2>4, StepKeeps
<1> QED BY <1>3, <1>4

\* The one step that sends signatures: it records first that they left.
LEMMA SignStep ==
  ASSUME SessionInv, NEW p \in Parties, Sign(p)
  PROVE  SessionInv'
<1> DEFINE msgs == IF p = Leader THEN ToPeers("assembled") ELSE ToLeader("signature", p)
<1>1. /\ msgs \subseteq Message
      /\ \A m \in msgs : IF p = Leader THEN m.kind = "assembled"
                         ELSE m.kind = "signature" /\ m.about = p
  BY ToPeersMsgs, ToLeaderMsgs DEF PartyKinds
<1>2. /\ sign[p] = "signing" /\ sign' = [sign EXCEPT ![p] = "gave"]
      /\ net' = net \cup msgs /\ sigs' = IF p = Leader THEN sigs \cup {p} ELSE sigs
      /\ UNCHANGED <<patient, seen, flow, outcome, mixVars, creds, inputsIn, ready, revealed, handed, live>>
  BY DEF Sign, Send
<1> HIDE DEF msgs
<1>3. /\ sign' \in [Parties -> {"no", "signing", "gave"}] /\ sign'[p] = "gave"
      /\ \A q \in Parties : q # p => sign'[q] = sign[q]
  BY <1>2 DEF SessionInv, SessionTypeOK
<1>4. SessionTypeOK'
  <2>1. sigs' \subseteq {q \in Parties : sign'[q] = "gave"}
    BY <1>2, <1>3 DEF SessionInv, SessionTypeOK
  <2>2. sign'[Leader] = "no" => \A q \in Parties : sign'[q] = "no"
    BY <1>2, <1>3, SessionAssumption DEF SessionInv, SessionTypeOK
  <2>3. net' \subseteq Message /\ seen' \subseteq net'
    BY <1>1, <1>2 DEF SessionInv, SessionTypeOK
  <2> QED BY <1>2, <1>3, <2>1, <2>2, <2>3 DEF SessionInv, SessionTypeOK, mixVars
<1>5. NetTells'
  <2> SUFFICES ASSUME NEW m \in net'
               PROVE  /\ m.kind = "assembled" => sign'[Leader] = "gave"
                      /\ m.kind = "signature" => sign'[m.about] = "gave"
                      /\ m.kind = "final" => outcome'[Leader] = "fused"
    BY DEF NetTells
  <2>1. CASE m \in msgs
    BY <1>1, <1>3, <2>1
  <2>2. CASE m \in net
    <3>1. m.kind = "signature" => m.about \in Parties
      BY <2>2, MessageOf DEF SessionInv, SessionTypeOK, PartyKinds
    <3> QED BY <1>2, <1>3, <2>2, <3>1, SessionAssumption DEF SessionInv, NetTells
  <2> QED BY <1>2, <2>1, <2>2
<1>6. HandTells'
  BY <1>2, <1>3 DEF SessionInv, HandTells
<1> QED BY <1>4, <1>5, <1>6 DEF SessionInv

LEMMA ReturnStep ==
  ASSUME SessionInv, Return
  PROVE  SessionInv'
<1>1. /\ handed = "busy" /\ handed' = "done" /\ live' \in BOOLEAN
      /\ UNCHANGED <<patient, seen, flow, sign, mixVars, creds, inputsIn, ready, revealed, sigs>>
  BY DEF Return, SessionInv, SessionTypeOK
<1>2. PICK msgs : /\ msgs \subseteq Message /\ net' = net \cup msgs
                  /\ \A m \in msgs : m.kind \in {"final", "abort"}
                  /\ \/ outcome' = [outcome EXCEPT ![Leader] = "fused"]
                     \/ /\ outcome' = [outcome EXCEPT ![Leader] = "failed"]
                        /\ \A m \in msgs : m.kind = "abort"
  <2>1. CASE Settle(Leader, "fused") /\ Send(ToPeers("final"))
    <3>1. ToPeers("final") \subseteq Message /\ \A m \in ToPeers("final") : m.kind = "final"
      BY ToPeersMsgs DEF PartyKinds
    <3> QED BY <2>1, <3>1 DEF Settle, Send
  <2>2. CASE Fail(Leader, "failed")
    BY <2>2, AbortMsgs, SessionAssumption DEF Fail, Settle, Send
  <2> QED BY <2>1, <2>2 DEF Return
<1>3. /\ outcome' \in [Parties -> {"open", "failed", "cancelled", "fused"}]
      /\ outcome'[Leader] \in {"fused", "failed"}
      /\ (\A m \in msgs : m.kind = "abort") \/ outcome'[Leader] = "fused"
  <2>1. outcome \in [Parties -> {"open", "failed", "cancelled", "fused"}] /\ Leader \in Parties
    BY SessionAssumption DEF SessionInv, SessionTypeOK
  <2>2. CASE outcome' = [outcome EXCEPT ![Leader] = "fused"]
    BY <2>1, <2>2
  <2>3. CASE outcome' = [outcome EXCEPT ![Leader] = "failed"] /\ \A m \in msgs : m.kind = "abort"
    BY <2>1, <2>3
  <2> QED BY <1>2, <2>2, <2>3
<1>4. outcome[Leader] = "open"
  BY <1>1 DEF SessionInv, HandTells
<1>5. SessionTypeOK'
  <2>1. net' \subseteq Message /\ seen' \subseteq net'
    BY <1>1, <1>2 DEF SessionInv, SessionTypeOK
  <2> QED BY <1>1, <1>3, <2>1 DEF SessionInv, SessionTypeOK, mixVars
<1>6. NetTells'
  BY <1>1, <1>2, <1>3, <1>4 DEF SessionInv, NetTells
<1>7. HandTells'
  BY <1>1, <1>3 DEF SessionInv, HandTells
<1> QED BY <1>5, <1>6, <1>7 DEF SessionInv

LEMMA GiveUpStep ==
  ASSUME SessionInv, NEW p \in Parties, GiveUp(p)
  PROVE  SessionInv'
<1>1. PICK r \in {"failed", "cancelled"} : Fail(p, r)
  BY DEF GiveUp
<1>2. /\ outcome[p] = "open" /\ MayFail(p)
      /\ UNCHANGED <<patient, seen, flow, sign, mixVars, leadVars, live>>
  BY DEF GiveUp
<1>3. NewNet /\ NewOutcome
  BY <1>1, <1>2, FailIs DEF Fail, Send, SessionInv, SessionTypeOK
<1>4. NewSign /\ NewHand /\ NewLead /\ NewMix
  BY <1>2, QuietSign, QuietHand, QuietLead, QuietMix DEF leadVars
<1> QED BY <1>2, <1>3, <1>4, StepKeeps DEF SessionInv, SessionTypeOK

LEMMA RelayStep ==
  ASSUME SessionInv, NEW p \in Parties, PeerRelay(p)
  PROVE  SessionInv'
BY DEF PeerRelay, SessionInv, SessionTypeOK, NetTells, HandTells, mixVars, leadVars

LEMMA LeaderStep ==
  ASSUME SessionInv, NEW m \in net, m.to = Leader, outcome[Leader] = "open",
         seen' \subseteq net, LeaderHandles(m), UNCHANGED <<flow, mixVars, patient, live>>
  PROVE  SessionInv'
<1> USE SessionAssumption
<1>1. NewMix /\ live' \in BOOLEAN /\ flow' \in [Parties -> {"params", "request", "response", "register", "inject", "ready", "done"}]
  BY QuietMix DEF SessionInv, SessionTypeOK
<1>2. m.kind \in PartyKinds => m.about \in Parties
  BY MessageOf DEF SessionInv, SessionTypeOK
<1> DEFINE p == m.about
<1>3. CASE /\ m.kind = "request"
           /\ IF p \in creds THEN Refuse(Leader) /\ UNCHANGED creds
              ELSE creds' = creds \cup {p} /\ Send({Msg("response", p, Leader)}) /\ UNCHANGED outcome
           /\ UNCHANGED <<sign, inputsIn, ready, revealed, sigs, handed>>
  <2>1. NewSign /\ NewHand
    BY <1>3, QuietSign, QuietHand
  <2>2. p \in Parties
    BY <1>2, <1>3 DEF PartyKinds
  <2>3. NewLead
    BY <1>3, <2>2 DEF NewLead, SessionInv, SessionTypeOK
  <2>4. NewNet /\ NewOutcome
    <3>1. CASE p \in creds
      BY <1>3, <3>1, RefuseIs DEF Refuse, Fail, Send
    <3>2. CASE p \notin creds
      <4>1. Msg("response", p, Leader) \in Message /\ Msg("response", p, Leader).kind = "response"
        BY <2>2, PartyMsg DEF PartyKinds
      <4>2. Harmless({Msg("response", p, Leader)})
        BY <4>1 DEF Harmless
      <4> QED BY <1>3, <3>2, <4>2, QuietOutcome DEF Send, NewNet
    <3> QED BY <3>1, <3>2
  <2> QED BY <1>1, <2>1, <2>3, <2>4, StepKeeps
<1>4. CASE /\ m.kind = "inputs"
           /\ IF p \in inputsIn \/ p \notin creds
              THEN Refuse(Leader) /\ UNCHANGED <<sign, inputsIn, creds, ready, revealed>>
              ELSE /\ inputsIn' = inputsIn \cup {p}
                   /\ UNCHANGED <<net, outcome, creds, ready, revealed>> /\ TryAssemble
           /\ UNCHANGED <<sigs, handed>>
  <2>1. p \in Parties
    BY <1>2, <1>4 DEF PartyKinds
  <2>2. NewSign /\ NewHand /\ NewLead /\ NewNet /\ NewOutcome
    <3>1. CASE p \in inputsIn \/ p \notin creds
      BY <1>4, <3>1, QuietSign, QuietHand, QuietLead, RefuseIs DEF Refuse, Fail, Send
    <3>2. CASE ~(p \in inputsIn \/ p \notin creds)
      <4>1. NewSign
        BY <1>4, <3>2, AssembleIs
      <4>2. NewLead
        BY <1>4, <3>2, <2>1 DEF NewLead, SessionInv, SessionTypeOK
      <4> QED BY <1>4, <3>2, <4>1, <4>2, QuietHand, QuietNet, QuietOutcome
    <3> QED BY <3>1, <3>2
  <2> QED BY <1>1, <2>2, StepKeeps
<1>5. CASE /\ m.kind = "ready"
           /\ ready' = ready \cup {p}
           /\ UNCHANGED <<net, outcome, creds, inputsIn, revealed>> /\ TryAssemble
           /\ UNCHANGED <<sigs, handed>>
  <2>1. NewLead
    BY <1>2, <1>5 DEF NewLead, SessionInv, SessionTypeOK, PartyKinds
  <2>2. NewSign
    BY <1>5, AssembleIs
  <2>3. NewHand /\ NewNet /\ NewOutcome
    BY <1>5, <2>2, QuietHand, QuietNet, QuietOutcome
  <2> QED BY <1>1, <2>1, <2>2, <2>3, StepKeeps
<1>6. CASE /\ m.kind = "outputs" /\ sign[Leader] = "no"
           /\ IF creds # Parties \/ revealed \/ m.about # Outputs
              THEN Refuse(Leader) /\ UNCHANGED <<sign, inputsIn, creds, ready, revealed>>
              ELSE /\ revealed' = TRUE
                   /\ UNCHANGED <<net, outcome, creds, inputsIn, ready>> /\ TryAssemble
           /\ UNCHANGED <<sigs, handed>>
  <2>2. NewSign /\ NewHand /\ NewLead /\ NewNet /\ NewOutcome
    <3>1. CASE creds # Parties \/ revealed \/ m.about # Outputs
      BY <1>6, <3>1, QuietSign, QuietHand, QuietLead, RefuseIs DEF Refuse, Fail, Send
    <3>2. CASE ~(creds # Parties \/ revealed \/ m.about # Outputs)
      <4>1. NewSign
        BY <1>6, <3>2, AssembleIs
      <4>2. NewLead
        BY <1>6, <3>2 DEF NewLead, SessionInv, SessionTypeOK
      <4> QED BY <1>6, <3>2, <4>1, <4>2, QuietHand, QuietNet, QuietOutcome
    <3> QED BY <3>1, <3>2
  <2> QED BY <1>1, <2>2, StepKeeps
<1>7. CASE /\ m.kind = "signature" /\ sign[Leader] # "no"
           /\ sigs' = sigs \cup {p} /\ TryFinalize
           /\ UNCHANGED <<net, outcome, sign, creds, inputsIn, ready, revealed>>
  <2>1. NewSign /\ NewLead /\ NewNet /\ NewOutcome
    BY <1>7, QuietSign, QuietLead, QuietNet, QuietOutcome
  <2>2. sign[p] = "gave" /\ p \in Parties
    BY <1>2, <1>7 DEF SessionInv, NetTells, PartyKinds
  <2>3. sigs' \subseteq {q \in Parties : sign'[q] = "gave"}
    BY <1>7, <2>2 DEF SessionInv, SessionTypeOK
  <2>4. NewHand
    BY <1>7, <2>3 DEF NewHand, TryFinalize
  <2> QED BY <1>1, <2>1, <2>4, StepKeeps
<1>8. CASE m.kind = "abort" /\ Refuse(Leader) /\ UNCHANGED <<sign, leadVars>>
  BY <1>1, <1>8, QuietSign, QuietHand, QuietLead, RefuseIs, StepKeeps DEF leadVars, Refuse, Fail, Send
<1> QED BY <1>3, <1>4, <1>5, <1>6, <1>7, <1>8 DEF LeaderHandles

LEMMA PeerStep ==
  ASSUME SessionInv, NEW m \in net, m.to # Leader, outcome[m.to] = "open",
         seen' \subseteq net, PeerHandles(m.to, m), UNCHANGED <<mixVars, leadVars, patient, live>>
  PROVE  SessionInv'
<1> DEFINE p == m.to
<1>1. p \in Parties
  BY MessageOf DEF SessionInv, SessionTypeOK
<1>2. NewMix /\ NewLead /\ UNCHANGED <<patient, sigs, handed>> /\ live' \in BOOLEAN
  BY QuietMix, QuietLead DEF SessionInv, SessionTypeOK, leadVars
<1>3. flow' \in [Parties -> {"params", "request", "response", "register", "inject", "ready", "done"}]
  BY DEF PeerHandles, Go, SessionInv, SessionTypeOK
<1>4. NewSign
  <2>1. CASE UNCHANGED sign
    BY <2>1, QuietSign
  <2>2. CASE m.kind = "assembled" /\ sign[p] = "no" /\ sign' = [sign EXCEPT ![p] = "signing"]
    <3>1. sign[Leader] = "gave"
      BY <2>2 DEF SessionInv, NetTells
    <3> QED BY <1>1, <2>2, <3>1, SessionAssumption DEF NewSign, SessionInv, SessionTypeOK
  <2> QED BY <2>1, <2>2 DEF PeerHandles
<1>5. NewHand
  BY <1>2, <1>4, QuietHand
<1>6. NewNet /\ NewOutcome
  <2>1. CASE UNCHANGED <<net, outcome>>
    BY <2>1, QuietNet, QuietOutcome
  <2>2. CASE Refuse(p)
    BY <1>1, <2>2, RefuseIs DEF Refuse, Fail, Send
  <2>3. ASSUME NEW r \in {"failed", "fused"}, Settle(p, r), UNCHANGED net
        PROVE  NewNet /\ NewOutcome
    <3>1. NewNet
      BY <2>3, QuietNet
    <3>2. NewOutcome
      BY <1>1, <2>3, SessionAssumption DEF NewOutcome, Settle, SessionInv, SessionTypeOK, HandTells
    <3> QED BY <3>1, <3>2
  <2> QED BY <2>1, <2>2, <2>3 DEF PeerHandles
<1> QED BY <1>2, <1>3, <1>4, <1>5, <1>6, StepKeeps

LEMMA PeelerStep ==
  ASSUME SessionInv, NEW m \in net, m.to # Leader, seen' \subseteq net, PeelerHandles(m.to, m),
         UNCHANGED <<net, flow, outcome, sign, leadVars, patient, live>>
  PROVE  SessionInv'
<1> DEFINE p == m.to
<1>1. p \in Peers
  BY MessageOf DEF SessionInv, SessionTypeOK, Peers
<1>2. NewSign /\ NewLead /\ NewOutcome /\ NewNet /\ live' \in BOOLEAN
      /\ flow' \in [Parties -> {"params", "request", "response", "register", "inject", "ready", "done"}]
  BY QuietSign, QuietLead, QuietOutcome, QuietNet DEF leadVars, SessionInv, SessionTypeOK
<1>3. NewHand
  BY <1>2, QuietHand DEF leadVars
<1>4. NewMix
  <2>1. peel' \in [Peers -> {"no", "busy", "done"}]
    BY <1>1, TryPeelTyped DEF PeelerHandles, SessionInv
  <2>2. declared' \in [Peers -> SUBSET Parties]
    <3>1. m.kind = "declare" => m.about \in Parties
      BY MessageOf DEF SessionInv, SessionTypeOK, PartyKinds
    <3> QED BY <1>1, <3>1 DEF PeelerHandles, SessionInv, SessionTypeOK
  <2>3. blobs' \in [Peers -> SUBSET Outputs] /\ arrived' \in [Peers -> Nat]
    <3>1. CASE UNCHANGED <<blobs, arrived>>
      BY <3>1 DEF SessionInv, SessionTypeOK
    <3>2. CASE m.kind = "onion" /\ Collect(p, m.about)
      <4>1. m.about \in SUBSET Outputs
        BY <3>2, MessageOf DEF SessionInv, SessionTypeOK
      <4> QED BY <1>1, <3>2, <4>1, CollectTyped DEF SessionInv
    <3> QED BY <3>1, <3>2 DEF PeelerHandles
  <2> QED BY <2>1, <2>2, <2>3 DEF NewMix
<1> QED BY <1>2, <1>3, <1>4, StepKeeps

LEMMA HandleStep ==
  ASSUME SessionInv, NEW m \in net, Handle(m), seen' \subseteq net
  PROVE  SessionInv'
<1>1. CASE m.to = Leader /\ LeaderHandles(m) /\ UNCHANGED <<flow, mixVars>>
  BY <1>1, LeaderStep DEF Handle
<1>2. CASE m.to # Leader /\ PeerHandles(m.to, m) /\ UNCHANGED <<mixVars, leadVars>>
  BY <1>2, PeerStep DEF Handle
<1>3. CASE m.to # Leader /\ PeelerHandles(m.to, m) /\ UNCHANGED <<net, flow, outcome, sign, leadVars>>
  BY <1>3, PeelerStep DEF Handle
<1> QED BY <1>1, <1>2, <1>3 DEF Handle

LEMMA InvInit ==
  ASSUME SessionInit
  PROVE  SessionInv
<1>1. Leader \in Parties /\ Patience \subseteq BOOLEAN
  BY SessionAssumption
<1> QED BY <1>1 DEF SessionInit, SessionInv, SessionTypeOK, NetTells, HandTells

\* The disjuncts of Next.
Steps ==
  \/ Publish \/ Return
  \/ \E p \in Parties : Request(p) \/ Register(p) \/ Inject(p)
  \/ \E i \in DOMAIN mixOrder : Forward(i)
  \/ \E p \in Parties : Ready(p)
  \/ \E p \in Parties : Sign(p)
  \/ \E p \in Parties : GiveUp(p)
  \/ \E p \in Parties : PeerRelay(p)
  \/ \E m \in net : Handle(m) /\ seen' \subseteq net

LEMMA NextSteps ==
  ASSUME SessionInv, Next
  PROVE  Steps
<1>1. ASSUME NEW m \in net, Receive(m) PROVE Handle(m) /\ seen' \subseteq net
  BY <1>1 DEF Receive, SessionInv, SessionTypeOK
<1>2. ASSUME NEW m \in net, Redeliver(m) PROVE Handle(m) /\ seen' \subseteq net
  BY <1>2 DEF Redeliver, SessionInv, SessionTypeOK
<1> QED BY <1>1, <1>2 DEF Next, Progress, Steps

LEMMA InvStep ==
  ASSUME SessionInv, [Next]_sessionVars
  PROVE  SessionInv'
<1>1. CASE Steps
  BY <1>1, TalkStep, ReturnStep, ReadyStep, SignStep, GiveUpStep, RelayStep, HandleStep DEF Steps
<1>2. CASE UNCHANGED sessionVars
  BY <1>2 DEF sessionVars, mixVars, leadVars, SessionInv, SessionTypeOK, NetTells, HandTells
<1> QED BY <1>1, <1>2, NextSteps

-----------------------------------------------------------------------------
(* Theorems *)

\* Messages prove what their senders did; the hand-over has every signature
\* (tryFinalize) and the leader's verdict is the one of the network.
THEOREM SessionInvariant == SessionSpec => []SessionInv
BY InvInit, InvStep, PTL DEF SessionSpec

\* The state of a round stays typed, and a signature the leader holds was
\* given by a party that had the template (handleSignature, tryAssemble).
THEOREM SessionTypeCorrect == SessionSpec => []SessionTypeOK
<1>1. SessionInv => SessionTypeOK
  BY DEF SessionInv
<1> QED BY <1>1, SessionInvariant, PTL

\* Who cancelled never signs, and only the hand-over brings the round to the chain.
CancelTells ==
  /\ \A p \in Parties : outcome[p] = "cancelled" => sign[p] # "gave"
  /\ \A p \in Parties : outcome[p] = "fused" => handed # "no"
  /\ live => handed # "no"

CancelInv == SessionInv /\ CancelTells

\* A step that neither signs, nor settles, nor relays anything.
LEMMA CancelKeeps ==
  ASSUME CancelTells, UNCHANGED <<outcome, live>>, handed # "no" => handed' # "no",
         \A p \in Parties : sign'[p] = "gave" => sign[p] = "gave"
  PROVE  CancelTells'
BY DEF CancelTells

LEMMA GiveUpCancels ==
  ASSUME CancelInv, NEW p \in Parties, GiveUp(p)
  PROVE  CancelTells'
<1>1. UNCHANGED <<sign, handed, live>>
  BY DEF GiveUp, leadVars
<1>2. \/ outcome' = [outcome EXCEPT ![p] = "failed"]
      \/ outcome' = [outcome EXCEPT ![p] = "cancelled"] /\ sign[p] = "signing"
  BY DEF GiveUp, Fail, Settle
<1> QED BY <1>1, <1>2 DEF CancelInv, CancelTells, SessionInv, SessionTypeOK

LEMMA HandleCancels ==
  ASSUME CancelInv, NEW m \in net, Handle(m)
  PROVE  CancelTells'
<1> USE SessionAssumption
<1>1. /\ m.to \in Parties /\ outcome[m.to] = "open" /\ live' = live
      /\ outcome \in [Parties -> {"open", "failed", "cancelled", "fused"}]
      /\ sign \in [Parties -> {"no", "signing", "gave"}]
  BY MessageOf DEF Handle, CancelInv, SessionInv, SessionTypeOK
<1>2. \/ UNCHANGED sign
      \/ \E q \in Parties : sign' = [sign EXCEPT ![q] = "signing"] /\ sign[q] = "no"
  BY <1>1 DEF Handle, LeaderHandles, PeerHandles, TryAssemble, CanAssemble
<1>3. \A p \in Parties : sign'[p] = "gave" => sign[p] = "gave"
  BY <1>1, <1>2
<1>4. handed # "no" => handed' # "no"
  BY DEF Handle, LeaderHandles, TryFinalize, leadVars
<1>5. \/ UNCHANGED outcome
      \/ outcome' = [outcome EXCEPT ![m.to] = "failed"]
      \/ outcome' = [outcome EXCEPT ![m.to] = "fused"] /\ m.kind = "final"
  BY <1>1 DEF Handle, LeaderHandles, PeerHandles, Refuse, Fail, Settle
<1>6. m.kind = "final" => handed # "no"
  BY DEF CancelInv, SessionInv, NetTells, HandTells
<1> QED BY <1>1, <1>3, <1>4, <1>5, <1>6 DEF CancelInv, CancelTells

LEMMA CancelStep ==
  ASSUME CancelInv, [Next]_sessionVars
  PROVE  CancelTells'
<1> USE DEF CancelInv
<1>1. CASE Steps
  <2>1. CASE UNCHANGED <<outcome, sign, handed, live>>
    BY <2>1, CancelKeeps
  <2>2. ASSUME NEW p \in Parties, Ready(p) PROVE CancelTells'
    <3>1. UNCHANGED <<outcome, live, handed>>
      BY <2>2 DEF Ready, leadVars
    <3>2. \A q \in Parties : sign'[q] = "gave" => sign[q] = "gave"
      BY <2>2 DEF Ready, TryAssemble, SessionInv, SessionTypeOK
    <3> QED BY <3>1, <3>2, CancelKeeps
  <2>3. ASSUME NEW p \in Parties, Sign(p) PROVE CancelTells'
    BY <2>3 DEF Sign, CancelTells, SessionInv, SessionTypeOK
  <2>4. ASSUME NEW p \in Parties, PeerRelay(p) PROVE CancelTells'
    BY <2>4 DEF PeerRelay, CancelTells, leadVars
  <2>5. CASE Return
    <3>1. handed' = "done" /\ UNCHANGED sign
      BY <2>5 DEF Return
    <3>2. outcome' = [outcome EXCEPT ![Leader] = "fused"]
          \/ outcome' = [outcome EXCEPT ![Leader] = "failed"]
      BY <2>5 DEF Return, Fail, Settle
    <3> QED BY <3>1, <3>2 DEF CancelTells, SessionInv, SessionTypeOK
  <2> QED BY <1>1, <2>1, <2>2, <2>3, <2>4, <2>5, GiveUpCancels, HandleCancels
          DEF Steps, Publish, Request, Register, Inject, Forward, leadVars
<1>2. CASE UNCHANGED sessionVars
  BY <1>2, CancelKeeps DEF sessionVars, leadVars
<1> QED BY <1>1, <1>2, NextSteps

\* assembleVerifySign asks again after the native signer, and tryFinalize wants
\* every signature: while a party is cancelled nothing of the round goes out.
THEOREM CancelsStand == SessionSpec => []CancelStands
<1>1. SessionInit => CancelTells
  BY DEF SessionInit, CancelTells
<1>2. SessionInv /\ CancelTells /\ [Next]_sessionVars => CancelTells'
  BY CancelStep DEF CancelInv
<1>3. SessionInv /\ CancelTells => CancelStands
  BY DEF SessionInv, SessionTypeOK, NetTells, HandTells, CancelTells, CancelStands
<1> QED BY <1>1, <1>2, <1>3, SessionInvariant, PTL DEF SessionSpec

-----------------------------------------------------------------------------
(* Every step is a step of the atomic round, or a stutter. *)

Given == {p \in Parties : sign[p] = "gave"}
Verdict == [p \in Parties |-> IF outcome[p] = "cancelled" THEN "failed" ELSE outcome[p]]

\* No signature leaves in the step.
SameGiven == \A p \in Parties : sign'[p] = "gave" <=> sign[p] = "gave"

LEMMA Stutters ==
  ASSUME SameGiven, UNCHANGED <<outcome, handed, live>>
  PROVE  UNCHANGED Atomic!atomicVars
<1>1. Given' = Given
  BY DEF SameGiven, Given
<1> QED BY <1>1 DEF Atomic!atomicVars, Given

LEMMA Rejects ==
  ASSUME SessionInv, NEW p \in Parties, outcome[p] = "open", MayFail(p),
         NEW r \in {"failed", "cancelled"}, Settle(p, r), SameGiven, UNCHANGED <<handed, live>>
  PROVE  Atomic!Reject(p)
<1>1. Given' = Given
  BY DEF SameGiven, Given
<1>2. Verdict[p] = "open" /\ Verdict' = [Verdict EXCEPT ![p] = "failed"]
  BY DEF Verdict, Settle, SessionInv, SessionTypeOK
<1> QED BY <1>1, <1>2 DEF Atomic!Reject, MayFail, Given, Verdict

LEMMA Accepts ==
  ASSUME SessionInv, NEW p \in Parties, outcome[p] = "open", outcome[Leader] = "fused",
         Settle(p, "fused"), SameGiven, UNCHANGED <<handed, live>>
  PROVE  Atomic!Accept(p)
<1>1. Given' = Given
  BY DEF SameGiven, Given
<1>2. Verdict[p] = "open" /\ Verdict[Leader] = "fused" /\ Verdict' = [Verdict EXCEPT ![p] = "fused"]
  BY SessionAssumption DEF Verdict, Settle, SessionInv, SessionTypeOK
<1> QED BY <1>1, <1>2 DEF Atomic!Accept, Given, Verdict

LEMMA Answers ==
  ASSUME SessionInv, Return
  PROVE  Atomic!Answer
<1>1. handed = "busy" /\ handed' = "done" /\ live' \in {live, TRUE} /\ Given' = Given
  BY DEF Return, Given, SessionInv, SessionTypeOK
<1>2. \E v \in {"fused", "failed"} : outcome' = [outcome EXCEPT ![Leader] = v]
  BY DEF Return, Settle, Fail
<1>3. \E v \in {"fused", "failed"} : Verdict' = [Verdict EXCEPT ![Leader] = v]
  <2>1. PICK v \in {"fused", "failed"} : outcome' = [outcome EXCEPT ![Leader] = v]
    BY <1>2
  <2>2. Verdict' = [Verdict EXCEPT ![Leader] = v]
    BY <2>1, SessionAssumption DEF Verdict, SessionInv, SessionTypeOK
  <2> QED BY <2>2
<1> QED BY <1>1, <1>3 DEF Atomic!Answer, Given, Verdict

LEMMA Gives ==
  ASSUME SessionInv, NEW p \in Parties, Sign(p)
  PROVE  Atomic!Give(p)
<1>1. Given' = Given \cup {p} /\ UNCHANGED <<outcome, handed, live>>
  BY DEF Sign, Given, SessionInv, SessionTypeOK
<1> QED BY <1>1 DEF Atomic!Give, Given

LEMMA Relays ==
  ASSUME SessionInv, NEW p \in Parties, PeerRelay(p)
  PROVE  Atomic!Relay(p)
<1>1. Verdict[p] = "fused" /\ live' = TRUE /\ Given' = Given /\ UNCHANGED <<outcome, handed>>
  BY DEF PeerRelay, Given, Verdict, leadVars
<1> QED BY <1>1 DEF Atomic!Relay, Given, Verdict

LEMMA LeaderHandlesAtomically ==
  ASSUME SessionInv, NEW m \in net, outcome[Leader] = "open", LeaderHandles(m), UNCHANGED live
  PROVE  [Atomic!AtomicNext]_(Atomic!atomicVars)
<1> USE SessionAssumption
<1>1. SameGiven
  BY DEF SameGiven, LeaderHandles, TryAssemble, CanAssemble, SessionInv, SessionTypeOK
<1>2. CASE UNCHANGED <<outcome, handed>>
  BY <1>1, <1>2, Stutters
<1>3. CASE Refuse(Leader) /\ UNCHANGED handed
  <2>1. CASE MayFail(Leader)
    BY <1>1, <1>3, <2>1, Rejects DEF Refuse, Fail, Atomic!AtomicNext
  <2>2. CASE ~MayFail(Leader)
    BY <1>1, <1>3, <2>2, Stutters DEF Refuse
  <2> QED BY <2>1, <2>2
<1>4. CASE /\ m.kind = "signature" /\ sigs' = sigs \cup {m.about} /\ TryFinalize
           /\ UNCHANGED <<sign, outcome>>
  <2>1. sign[m.about] = "gave" /\ m.about \in Parties
    BY <1>4, MessageOf DEF SessionInv, SessionTypeOK, NetTells, PartyKinds
  <2>2. sigs' \subseteq Given
    BY <1>4, <2>1 DEF Given, SessionInv, SessionTypeOK
  <2>3. CASE handed' = handed
    BY <1>1, <1>4, <2>3, Stutters
  <2>4. CASE handed' # handed
    <3>1. handed = "no" /\ handed' = "busy" /\ Given = Parties /\ Given' = Given
      BY <1>4, <2>2, <2>4 DEF TryFinalize, Given
    <3>2. Verdict[Leader] = "open" /\ Verdict' = Verdict
      BY <1>4 DEF Verdict
    <3>3. Atomic!HandOver
      BY <3>1, <3>2 DEF Atomic!HandOver, Given, Verdict
    <3> QED BY <3>3 DEF Atomic!AtomicNext
  <2> QED BY <2>3, <2>4
<1>5. \/ UNCHANGED <<outcome, handed>>
      \/ Refuse(Leader) /\ UNCHANGED handed
      \/ /\ m.kind = "signature" /\ sigs' = sigs \cup {m.about} /\ TryFinalize
         /\ UNCHANGED <<sign, outcome>>
  BY DEF LeaderHandles, leadVars
<1> QED BY <1>2, <1>3, <1>4, <1>5

LEMMA PeerHandlesAtomically ==
  ASSUME SessionInv, NEW m \in net, m.to # Leader, outcome[m.to] = "open",
         PeerHandles(m.to, m), UNCHANGED <<handed, live>>
  PROVE  [Atomic!AtomicNext]_(Atomic!atomicVars)
<1> DEFINE p == m.to
<1>1. p \in Parties /\ MayFail(p)
  BY MessageOf DEF MayFail, SessionInv, SessionTypeOK
<1>2. SameGiven
  BY <1>1 DEF SameGiven, PeerHandles, SessionInv, SessionTypeOK
<1>3. CASE UNCHANGED outcome
  BY <1>2, <1>3, Stutters
<1>4. CASE Settle(p, "failed")
  BY <1>1, <1>2, <1>4, Rejects DEF Atomic!AtomicNext
<1>5. CASE m.kind = "final" /\ Settle(p, "fused")
  <2>1. outcome[Leader] = "fused"
    BY <1>5 DEF SessionInv, NetTells
  <2> QED BY <1>1, <1>2, <1>5, <2>1, Accepts DEF Atomic!AtomicNext
<1> QED BY <1>1, <1>3, <1>4, <1>5 DEF PeerHandles, Refuse, Fail

LEMMA AtomicStep ==
  ASSUME SessionInv, [Next]_sessionVars
  PROVE  [Atomic!AtomicNext]_(Atomic!atomicVars)
<1>1. CASE Steps
  <2>1. CASE UNCHANGED <<sign, outcome, handed, live>>
    BY <2>1, Stutters DEF SameGiven
  <2>2. ASSUME NEW p \in Parties, Ready(p) PROVE [Atomic!AtomicNext]_(Atomic!atomicVars)
    <3>1. UNCHANGED <<outcome, handed, live>>
      BY <2>2 DEF Ready, leadVars
    <3>2. SameGiven
      BY <2>2 DEF Ready, TryAssemble, CanAssemble, SameGiven, SessionInv, SessionTypeOK
    <3> QED BY <3>1, <3>2, Stutters
  <2>3. ASSUME NEW p \in Parties, GiveUp(p) PROVE [Atomic!AtomicNext]_(Atomic!atomicVars)
    <3>1. outcome[p] = "open" /\ MayFail(p) /\ UNCHANGED <<sign, handed, live>>
      BY <2>3 DEF GiveUp, leadVars
    <3>2. PICK r \in {"failed", "cancelled"} : Settle(p, r)
      BY <2>3 DEF GiveUp, Fail
    <3>3. Atomic!Reject(p)
      BY <3>1, <3>2, Rejects DEF SameGiven
    <3> QED BY <3>3 DEF Atomic!AtomicNext
  <2>4. ASSUME NEW m \in net, Handle(m) PROVE [Atomic!AtomicNext]_(Atomic!atomicVars)
    <3>1. CASE m.to = Leader /\ LeaderHandles(m)
      BY <2>4, <3>1, LeaderHandlesAtomically DEF Handle
    <3>2. CASE m.to # Leader /\ PeerHandles(m.to, m) /\ UNCHANGED leadVars
      BY <2>4, <3>2, PeerHandlesAtomically DEF Handle, leadVars
    <3>3. CASE UNCHANGED <<outcome, sign, leadVars, live>>
      BY <3>3, Stutters DEF SameGiven, leadVars
    <3> QED BY <2>4, <3>1, <3>2, <3>3 DEF Handle
  <2>5. ASSUME NEW p \in Parties, Sign(p) PROVE Atomic!AtomicNext
    BY <2>5, Gives DEF Atomic!AtomicNext
  <2>6. ASSUME NEW p \in Parties, PeerRelay(p) PROVE Atomic!AtomicNext
    BY <2>6, Relays DEF Atomic!AtomicNext
  <2>7. CASE Return
    BY <2>7, Answers DEF Atomic!AtomicNext
  <2> QED BY <1>1, <2>1, <2>2, <2>3, <2>4, <2>5, <2>6, <2>7
          DEF Steps, Publish, Request, Register, Inject, Forward, leadVars
<1>2. CASE UNCHANGED sessionVars
  <2>1. UNCHANGED <<sign, outcome, handed, live>>
    BY <1>2 DEF sessionVars, leadVars
  <2> QED BY <2>1, Stutters DEF SameGiven
<1> QED BY <1>1, <1>2, NextSteps

LEMMA AtomicStart ==
  ASSUME SessionInit
  PROVE  Atomic!AtomicInit
<1>1. Given = {} /\ Verdict = [p \in Parties |-> "open"]
  BY DEF SessionInit, Given, Verdict
<1> QED BY <1>1 DEF SessionInit, Atomic!AtomicInit, Given, Verdict

\* runCoordinator and runParticipant implement the atomic round: one hand-over,
\* with everybody's signatures, after which only the network's answer counts.
THEOREM RoundIsAtomic == SessionSpec => ImplementsAtomicFusion
<1>1. SessionInit => Atomic!AtomicInit
  BY AtomicStart
<1>2. SessionInv /\ [Next]_sessionVars => [Atomic!AtomicNext]_(Atomic!atomicVars)
  BY AtomicStep
<1> QED BY <1>1, <1>2, SessionInvariant, PTL
        DEF SessionSpec, ImplementsAtomicFusion, Atomic!AtomicSpec

-----------------------------------------------------------------------------
(* Nobody refuses: the inductive invariant. *)

\* What the leader has accepted it was sent once, and has handled.
Admitted ==
  /\ Leader \in creds /\ flow[Leader] \notin {"request", "response", "register"}
  /\ \A p \in Parties : flow[p] \in {"register", "inject", "ready", "done"} => p \in creds
  /\ \A p \in creds \ {Leader} : Msg("request", Leader, p) \in seen
  /\ \A p \in inputsIn \ {Leader} : Msg("inputs", Leader, p) \in seen
  /\ revealed => Msg("outputs", Leader, Outputs) \in seen

\* A peeler counts every output once, and its batch is peeled when it is whole.
Batches == \A p \in Peers :
  /\ declared[p] \subseteq creds
  /\ arrived[p] = Cardinality(blobs[p])
  /\ peel[p] # "no" => declared[p] = Parties /\ blobs[p] = Outputs

\* What a message proves of the leader's books.
Credible(m) ==
  /\ m.kind = "request" => m.about # Leader
  /\ m.kind = "response" => m.to \in creds
  /\ m.kind = "inputs" => m.about \in creds \ {Leader}
  /\ m.kind = "declare" => m.about \in creds
  /\ m.kind = "outputs" => m = Msg("outputs", Leader, Outputs) /\ creds = Parties
  /\ m.kind = "abort" => ~patient

NetCredible == \A m \in net : Credible(m)

HonestInv == SessionInv /\ Admitted /\ Batches /\ NetCredible /\ NobodyRefuses

-----------------------------------------------------------------------------
(* What each part of it needs of a step. *)

\* A message to the leader or a peer is what its fields say.
LEMMA IsMsg ==
  ASSUME NEW m \in Message
  PROVE  m = Msg(m.kind, m.to, m.about)
BY DEF Message, Msg

LEMMA BooksAreParties ==
  ASSUME SessionInv
  PROVE  creds \subseteq Parties /\ seen \subseteq net /\ net \subseteq Message
BY DEF SessionInv, SessionTypeOK

\* Messages stay credible while the leader's books grow.
LEMMA CredibleKeeps ==
  ASSUME SessionInv, SessionInv', NetCredible, creds \subseteq creds', patient' = patient,
         NEW msgs, net' = net \cup msgs, \A m \in msgs : Credible(m)'
  PROVE  NetCredible'
<1> SUFFICES ASSUME NEW m \in net PROVE Credible(m)'
  BY DEF NetCredible
<1>1. creds' \subseteq Parties
  BY BooksAreParties DEF SessionInv, SessionTypeOK
<1> QED BY <1>1 DEF NetCredible, Credible

\* A step that only sends messages of no account.
Plain(msgs) == \A m \in msgs :
  m.kind \notin {"request", "response", "inputs", "declare", "outputs", "abort"}

LEMMA PlainIsCredible ==
  ASSUME NEW msgs, Plain(msgs), NEW m \in msgs
  PROVE  Credible(m)'
BY DEF Plain, Credible

LEMMA AdmittedKeeps ==
  ASSUME Admitted, creds \subseteq creds', seen \subseteq seen',
         flow'[Leader] \notin {"request", "response", "register"},
         \A p \in Parties : flow'[p] \in {"register", "inject", "ready", "done"} =>
           p \in creds' \/ flow[p] \in {"register", "inject", "ready", "done"},
         \A p \in creds' \ {Leader} : p \in creds \/ Msg("request", Leader, p) \in seen',
         \A p \in inputsIn' \ {Leader} : p \in inputsIn \/ Msg("inputs", Leader, p) \in seen',
         revealed' => revealed \/ Msg("outputs", Leader, Outputs) \in seen'
  PROVE  Admitted'
BY DEF Admitted

LEMMA AdmittedStays ==
  ASSUME Admitted, seen \subseteq seen', UNCHANGED <<flow, creds, inputsIn, revealed>>
  PROVE  Admitted'
BY DEF Admitted

LEMMA BatchesStay ==
  ASSUME Batches, creds \subseteq creds', UNCHANGED mixVars
  PROVE  Batches'
BY DEF Batches, mixVars

LEMMA CollectCounts ==
  ASSUME SessionInv, Batches, NEW p \in Peers, NEW S \in SUBSET Outputs, Collect(p, S)
  PROVE  \A q \in Peers : /\ arrived'[q] = Cardinality(blobs'[q])
                          /\ blobs[q] \subseteq blobs'[q] /\ blobs'[q] \subseteq Outputs
<1> DEFINE new == S \ blobs[p]
<1>1. /\ blobs \in [Peers -> SUBSET Outputs] /\ arrived \in [Peers -> Nat]
      /\ arrived[p] = Cardinality(blobs[p])
  BY DEF SessionInv, SessionTypeOK, Batches
<1>2. IsFiniteSet(blobs[p]) /\ IsFiniteSet(new)
  BY <1>1, FS_Subset, SessionAssumption
<1>3. Cardinality(blobs[p] \cup S) = Cardinality(blobs[p]) + Cardinality(new)
  <2>1. blobs[p] \cup new = blobs[p] \cup S /\ blobs[p] \cap new = {}
    OBVIOUS
  <2>2. Cardinality(blobs[p] \cup new)
        = Cardinality(blobs[p]) + Cardinality(new) - Cardinality(blobs[p] \cap new)
    BY <1>2, FS_Union
  <2>3. Cardinality(blobs[p]) \in Nat /\ Cardinality(new) \in Nat /\ Cardinality({}) = 0
    BY <1>2, FS_CardinalityType, FS_EmptySet
  <2>4. Cardinality(blobs[p] \cap new) = 0
    BY <2>1, <2>3
  <2>5. Cardinality(blobs[p] \cup new) = Cardinality(blobs[p] \cup S)
    BY <2>1
  <2> HIDE DEF new
  <2> QED BY <2>2, <2>3, <2>4, <2>5
<1>4. CASE UNCHANGED <<blobs, arrived>>
  BY <1>1, <1>4 DEF Batches
<1>5. CASE /\ blobs' = [blobs EXCEPT ![p] = blobs[p] \cup S]
           /\ arrived' = [arrived EXCEPT ![p] = arrived[p] + Cardinality(new)]
  <2>1. blobs'[p] = blobs[p] \cup S /\ arrived'[p] = arrived[p] + Cardinality(new)
    BY <1>1, <1>5
  <2>2. \A q \in Peers : q # p => blobs'[q] = blobs[q] /\ arrived'[q] = arrived[q]
    BY <1>1, <1>5
  <2>3. arrived'[p] = Cardinality(blobs'[p])
    BY <1>1, <1>3, <2>1
  <2> HIDE DEF new
  <2> QED BY <1>1, <2>1, <2>2, <2>3 DEF Batches
<1> QED BY <1>4, <1>5 DEF Collect

\* As many blobs as there are outputs are all of them.
LEMMA PeelsRight ==
  ASSUME SessionInv, Batches, NEW p \in Peers, TryPeel(p), creds' \subseteq Parties,
         \A q \in Peers : /\ declared[q] \subseteq declared'[q] /\ declared'[q] \subseteq creds'
                          /\ arrived'[q] = Cardinality(blobs'[q])
                          /\ blobs[q] \subseteq blobs'[q] /\ blobs'[q] \subseteq Outputs
  PROVE  Batches'
<1> SUFFICES ASSUME NEW q \in Peers, peel'[q] # "no"
             PROVE  declared'[q] = Parties /\ blobs'[q] = Outputs
  BY DEF Batches
<1>1. CASE peel[q] # "no"
  BY <1>1 DEF Batches
<1>2. CASE peel[q] = "no"
  <2>1. q = p /\ BatchReady(p)
    BY <1>2 DEF TryPeel, SessionInv, SessionTypeOK
  <2>2. declared'[p] = Parties /\ Cardinality(blobs'[p]) >= Cardinality(Outputs)
    BY <2>1 DEF BatchReady
  <2>3. IsFiniteSet(Outputs) /\ blobs'[p] \in SUBSET Outputs
    BY SessionAssumption
  <2>4. /\ Cardinality(blobs'[p]) <= Cardinality(Outputs)
        /\ Cardinality(Outputs) = Cardinality(blobs'[p]) => Outputs = blobs'[p]
        /\ IsFiniteSet(blobs'[p])
    BY <2>3, FS_Subset
  <2>5. Cardinality(Outputs) \in Nat /\ Cardinality(blobs'[p]) \in Nat
    BY <2>3, <2>4, FS_CardinalityType
  <2> QED BY <2>1, <2>2, <2>4, <2>5
<1> QED BY <1>1, <1>2

-----------------------------------------------------------------------------
(* The party's own function, assembly and signing. *)

LEMMA UnsettledStep ==
  ASSUME HonestInv, SessionInv', Admitted', Batches', NetCredible', UNCHANGED <<patient, outcome>>
  PROVE  HonestInv'
BY DEF HonestInv, NobodyRefuses

\* A step of its function that neither asks nor answers for a credential.
LEMMA GoKeepsAdmitted ==
  ASSUME SessionInv, Admitted, NEW p \in Parties, NEW step \in {"inject", "ready", "done"}, Go(p, step),
         flow[p] \in {"register", "inject", "ready"} \/ p = Leader,
         UNCHANGED <<seen, creds, inputsIn, revealed>>
  PROVE  Admitted'
<1>1. flow' = [flow EXCEPT ![p] = step]
      /\ flow \in [Parties -> {"params", "request", "response", "register", "inject", "ready", "done"}]
  BY DEF Go, SessionInv, SessionTypeOK
<1>2. p \in creds
  BY DEF Admitted
<1>3. flow'[Leader] \notin {"request", "response", "register"}
  BY <1>1, SessionAssumption DEF Admitted
<1>4. \A q \in Parties : flow'[q] \in {"register", "inject", "ready", "done"} => q \in creds
  BY <1>1, <1>2 DEF Admitted
<1> QED BY <1>3, <1>4 DEF Admitted

LEMMA PublishHonest ==
  ASSUME HonestInv, SessionInv', Publish
  PROVE  HonestInv'
<1> USE DEF HonestInv
<1>1. /\ Go(Leader, "inject") /\ net' = net \cup ToPeers("params")
      /\ UNCHANGED <<patient, seen, outcome, mixVars, creds, inputsIn, revealed>>
  BY DEF Publish, Send, leadVars
<1>2. Plain(ToPeers("params"))
  BY ToPeersMsgs DEF Plain, PartyKinds
<1>3. Admitted'
  BY <1>1, GoKeepsAdmitted, SessionAssumption
<1>4. NetCredible'
  BY <1>1, <1>2, PlainIsCredible, CredibleKeeps
<1> QED BY <1>1, <1>3, <1>4, BatchesStay, UnsettledStep

\* The leader asks for no credential, as it has its own.
LEMMA RequestHonest ==
  ASSUME HonestInv, SessionInv', NEW p \in Parties, Request(p)
  PROVE  HonestInv'
<1> USE DEF HonestInv
<1>1. /\ flow' = [flow EXCEPT ![p] = "response"] /\ net' = net \cup ToLeader("request", p)
      /\ UNCHANGED <<patient, seen, outcome, mixVars, creds, inputsIn, revealed>>
  BY DEF Request, Send, Go, leadVars
<1>2. p # Leader
  BY DEF Request, Admitted
<1>3. \A m \in ToLeader("request", p) : Credible(m)'
  BY <1>2, ToLeaderMsgs DEF Credible, PartyKinds
<1>4. Admitted'
  BY <1>1, <1>2, SessionAssumption DEF Admitted, SessionInv, SessionTypeOK
<1>5. NetCredible'
  BY <1>1, <1>3, CredibleKeeps
<1> QED BY <1>1, <1>4, <1>5, BatchesStay, UnsettledStep

\* Inputs come from a party whose credentials the leader signed.
LEMMA RegisterHonest ==
  ASSUME HonestInv, SessionInv', NEW p \in Parties, Register(p)
  PROVE  HonestInv'
<1> USE DEF HonestInv
<1>1. /\ Go(p, "inject") /\ net' = net \cup ToLeader("inputs", p)
      /\ UNCHANGED <<patient, seen, outcome, mixVars, creds, inputsIn, revealed>>
  BY DEF Register, Send, leadVars
<1>2. p \in creds \ {Leader} /\ flow[p] = "register"
  BY DEF Register, Admitted
<1>3. \A m \in ToLeader("inputs", p) : Credible(m)'
  BY <1>1, <1>2, ToLeaderMsgs DEF Credible, PartyKinds
<1>4. Admitted'
  BY <1>1, <1>2, GoKeepsAdmitted
<1>5. NetCredible'
  BY <1>1, <1>3, CredibleKeeps
<1> QED BY <1>1, <1>4, <1>5, BatchesStay, UnsettledStep

LEMMA InjectHonest ==
  ASSUME HonestInv, SessionInv', NEW p \in Parties, Inject(p)
  PROVE  HonestInv'
<1> USE DEF HonestInv
<1> DEFINE msgs == {Msg("declare", q, p) : q \in Peers \ {p}} \cup
             (IF p = firstPeeler THEN {} ELSE Onions(firstPeeler, myOutputs(p)))
<1>1. /\ Go(p, "ready") /\ net' = net \cup msgs /\ flow[p] = "inject"
      /\ UNCHANGED <<patient, seen, outcome, creds, inputsIn, revealed>>
  BY DEF Inject, Send, leadVars
<1>2. p \in creds
  BY <1>1 DEF Admitted
<1>3. \A m \in msgs : Credible(m)'
  <2>1. \A m \in Onions(firstPeeler, myOutputs(p)) : m.kind = "onion"
    BY OnionMsgs, HopsAreParties DEF myOutputs
  <2>2. \A q \in Peers : Msg("declare", q, p).kind = "declare" /\ Msg("declare", q, p).about = p
    BY DEF Msg
  <2> QED BY <1>1, <1>2, <2>1, <2>2 DEF Credible
<1>4. Batches'
  <2>1. CASE p = Leader
    BY <1>1, <2>1, BatchesStay DEF Inject
  <2>2. CASE p # Leader
    <3>1. p \in Peers /\ creds' \subseteq Parties /\ myOutputs(p) \in SUBSET Outputs
      BY <1>1, <2>2, BooksAreParties DEF Peers, myOutputs
    <3>2. \A q \in Peers : declared[q] \subseteq declared'[q] /\ declared'[q] \subseteq creds'
      BY <1>1, <1>2, <2>2, <3>1 DEF Inject, Batches, SessionInv, SessionTypeOK
    <3>3. CASE p = firstPeeler
      <4>1. Collect(p, myOutputs(p)) /\ TryPeel(p)
        BY <2>2, <3>3 DEF Inject
      <4> QED BY <3>1, <3>2, <4>1, CollectCounts, PeelsRight
    <3>4. CASE p # firstPeeler
      <4>1. UNCHANGED <<blobs, arrived, peel>>
        BY <2>2, <3>4 DEF Inject
      <4>2. \A q \in Peers : declared'[q] \subseteq Parties
        BY <3>1, <3>2
      <4> QED BY <3>2, <4>1, <4>2 DEF Batches
    <3> QED BY <3>3, <3>4
  <2> QED BY <2>1, <2>2
<1>5. Admitted'
  BY <1>1, GoKeepsAdmitted
<1> HIDE DEF msgs
<1>6. NetCredible'
  BY <1>1, <1>3, CredibleKeeps
<1> QED BY <1>1, <1>4, <1>5, <1>6, UnsettledStep

\* The last hop reveals all outputs, and by then all have their credentials.
LEMMA ForwardHonest ==
  ASSUME HonestInv, SessionInv', NEW i \in DOMAIN mixOrder, Forward(i)
  PROVE  HonestInv'
<1> USE DEF HonestInv
<1> DEFINE p == mixOrder[i]
           msgs == IF i = Len(mixOrder) THEN {Msg("outputs", Leader, blobs[p])}
                   ELSE Onions(mixOrder[i + 1], blobs[p])
<1>1. /\ net' = net \cup msgs /\ peel[p] = "busy" /\ peel' = [peel EXCEPT ![p] = "done"]
      /\ UNCHANGED <<patient, seen, flow, outcome, declared, blobs, arrived, creds, inputsIn, revealed>>
  BY DEF Forward, Send, leadVars
<1>2. p \in Peers
  BY HopsAreParties
<1>3. blobs[p] = Outputs /\ creds = Parties
  BY <1>1, <1>2, BooksAreParties DEF Batches
<1>4. \A m \in msgs : Credible(m)'
  <2>1. CASE i = Len(mixOrder)
    <3>1. Msg("outputs", Leader, Outputs).kind = "outputs"
      BY DEF Msg
    <3> QED BY <1>1, <1>3, <2>1, <3>1 DEF Credible
  <2>2. CASE i # Len(mixOrder)
    <3>1. mixOrder[i + 1] \in Parties
      BY <2>2, HopsAreParties
    <3>2. \A m \in msgs : m.kind = "onion"
      BY <1>3, <2>2, <3>1, OnionMsgs
    <3> QED BY <3>2 DEF Credible
  <2> QED BY <2>1, <2>2
<1>5. Batches'
  BY <1>1, <1>2 DEF Batches, SessionInv, SessionTypeOK
<1>6. Admitted'
  BY <1>1, AdmittedStays
<1> HIDE DEF msgs
<1>7. NetCredible'
  BY <1>1, <1>4, CredibleKeeps
<1> QED BY <1>1, <1>5, <1>6, <1>7, UnsettledStep

LEMMA ReadyHonest ==
  ASSUME HonestInv, SessionInv', NEW p \in Parties, Ready(p)
  PROVE  HonestInv'
<1> USE DEF HonestInv
<1>1. /\ Go(p, "done") /\ flow[p] = "ready"
      /\ UNCHANGED <<patient, seen, outcome, mixVars, creds, inputsIn, revealed>>
  BY DEF Ready, leadVars
<1>2. PICK msgs : net' = net \cup msgs /\ Plain(msgs)
  <2>1. CASE p = Leader
    <3>1. net' = net \cup {} /\ Plain({})
      BY <2>1 DEF Ready, Plain
    <3> QED BY <3>1
  <2>2. CASE p # Leader
    <3>1. net' = net \cup ToLeader("ready", p) /\ Plain(ToLeader("ready", p))
      BY <2>2, ToLeaderMsgs DEF Ready, Send, Plain, PartyKinds
    <3> QED BY <3>1
  <2> QED BY <2>1, <2>2
<1>3. Admitted'
  BY <1>1, GoKeepsAdmitted
<1>4. NetCredible'
  BY <1>1, <1>2, PlainIsCredible, CredibleKeeps
<1> QED BY <1>1, <1>3, <1>4, BatchesStay, UnsettledStep

LEMMA SignHonest ==
  ASSUME HonestInv, SessionInv', NEW p \in Parties, Sign(p)
  PROVE  HonestInv'
<1> USE DEF HonestInv
<1> DEFINE msgs == IF p = Leader THEN ToPeers("assembled") ELSE ToLeader("signature", p)
<1>1. /\ net' = net \cup msgs
      /\ UNCHANGED <<patient, seen, flow, outcome, mixVars, creds, inputsIn, revealed>>
  BY DEF Sign, Send
<1>2. Plain(msgs)
  BY ToPeersMsgs, ToLeaderMsgs DEF Plain, PartyKinds
<1> HIDE DEF msgs
<1>3. NetCredible'
  BY <1>1, <1>2, PlainIsCredible, CredibleKeeps
<1> QED BY <1>1, <1>3, AdmittedStays, BatchesStay, UnsettledStep

-----------------------------------------------------------------------------
(* The ends of a round, and the handlers. *)

\* What fail sends is credible of a round that is not patient.
LEMMA AbortIsCredible ==
  ASSUME NEW p \in Parties, ~patient, patient' = patient, NEW m \in Abort(p)
  PROVE  Credible(m)'
BY AbortMsgs DEF Credible

LEMMA ReturnHonest ==
  ASSUME HonestInv, SessionInv', Return
  PROVE  HonestInv'
<1> USE DEF HonestInv
<1>1. UNCHANGED <<patient, seen, flow, mixVars, creds, inputsIn, revealed>>
  BY DEF Return
<1>2. CASE Settle(Leader, "fused") /\ Send(ToPeers("final"))
  <2>1. Plain(ToPeers("final"))
    BY ToPeersMsgs DEF Plain, PartyKinds
  <2>2. NetCredible'
    BY <1>1, <1>2, <2>1, PlainIsCredible, CredibleKeeps DEF Send
  <2>3. NobodyRefuses'
    BY <1>1, <1>2 DEF NobodyRefuses, Settle, SessionInv, SessionTypeOK
  <2> QED BY <1>1, <2>2, <2>3, AdmittedStays, BatchesStay
<1>3. CASE ~patient /\ Fail(Leader, "failed")
  <2>1. NetCredible'
    BY <1>1, <1>3, AbortIsCredible, CredibleKeeps, SessionAssumption DEF Fail, Send
  <2> QED BY <1>1, <1>3, <2>1, AdmittedStays, BatchesStay DEF NobodyRefuses
<1> QED BY <1>2, <1>3 DEF Return

LEMMA GiveUpHonest ==
  ASSUME HonestInv, SessionInv', NEW p \in Parties, GiveUp(p)
  PROVE  HonestInv'
<1> USE DEF HonestInv
<1>1. /\ ~patient /\ net' = net \cup Abort(p)
      /\ UNCHANGED <<patient, seen, flow, mixVars, creds, inputsIn, revealed>>
  BY DEF GiveUp, Fail, Send, leadVars
<1>2. NetCredible'
  BY <1>1, AbortIsCredible, CredibleKeeps
<1> QED BY <1>1, <1>2, AdmittedStays, BatchesStay DEF NobodyRefuses

\* A handler of the leader runs once for each copy; what it may run for again
\* is a signature.
Once(m) == (m \notin seen /\ seen' = seen \cup {m}) \/ (m.kind \in Resent /\ seen' = seen)

\* The leader refuses no request, no inputs and no reveal, patient or not: it
\* fails by a message only if it is told of a failure.
LEMMA LeaderAccepts ==
  ASSUME HonestInv, NEW m \in net, Once(m), m.to = Leader, LeaderHandles(m)
  PROVE  /\ m.kind = "request" => m.about \notin creds
         /\ m.kind = "inputs" => m.about \in creds \ inputsIn
         /\ m.kind = "outputs" => creds = Parties /\ ~revealed /\ m.about = Outputs
<1> USE DEF HonestInv
<1>1. Credible(m) /\ m = Msg(m.kind, Leader, m.about)
  BY IsMsg, BooksAreParties DEF NetCredible
<1>2. m.kind \notin Resent => m \notin seen
  BY DEF Once
<1>3. CASE m.kind = "request"
  BY <1>1, <1>2, <1>3 DEF Credible, Admitted, Resent
<1>4. CASE m.kind = "inputs"
  BY <1>1, <1>2, <1>4 DEF Credible, Admitted, Resent
<1>5. CASE m.kind = "outputs"
  <2>1. m.about = Outputs
    BY <1>1, <1>5 DEF Credible, Msg
  <2> QED BY <1>1, <1>2, <1>5, <2>1 DEF Credible, Admitted, Resent
<1> QED BY <1>3, <1>4, <1>5

LEMMA LeaderHonest ==
  ASSUME HonestInv, SessionInv', NEW m \in net, Once(m), m.to = Leader, LeaderHandles(m),
         UNCHANGED <<flow, mixVars, patient>>
  PROVE  HonestInv'
<1> USE DEF HonestInv
<1> DEFINE p == m.about
<1>1. m = Msg(m.kind, Leader, p) /\ Credible(m) /\ (m.kind \in PartyKinds => p \in Parties)
  BY IsMsg, BooksAreParties, MessageOf DEF NetCredible
<1>2. seen \subseteq seen' /\ (m.kind \notin Resent => m \in seen')
  BY DEF Once
<1>3. flow'[Leader] \notin {"request", "response", "register"}
  BY DEF Admitted
<1>4. CASE m.kind = "request"
  <2>1. /\ creds' = creds \cup {p} /\ net' = net \cup {Msg("response", p, Leader)}
        /\ UNCHANGED <<outcome, inputsIn, revealed>>
    BY <1>4, LeaderAccepts DEF LeaderHandles, Send
  <2>2. Msg("request", Leader, p) \in seen'
    BY <1>1, <1>2, <1>4 DEF Resent
  <2>3. Admitted'
    BY <1>2, <1>3, <2>1, <2>2, AdmittedKeeps
  <2> DEFINE msgs == {Msg("response", p, Leader)}
  <2>4. \A k \in msgs : Credible(k)'
    BY <2>1 DEF Credible, Msg
  <2>5. net' = net \cup msgs /\ creds \subseteq creds'
    BY <2>1
  <2> HIDE DEF msgs
  <2>6. NetCredible'
    BY <2>4, <2>5, CredibleKeeps
  <2> QED BY <2>1, <2>3, <2>6, BatchesStay, UnsettledStep
<1>5. CASE m.kind = "inputs"
  <2>1. inputsIn' = inputsIn \cup {p} /\ UNCHANGED <<net, outcome, creds, revealed>>
    BY <1>5, LeaderAccepts DEF LeaderHandles
  <2>2. Msg("inputs", Leader, p) \in seen'
    BY <1>1, <1>2, <1>5 DEF Resent
  <2>3. Admitted'
    BY <1>2, <1>3, <2>1, <2>2, AdmittedKeeps
  <2>4. NetCredible'
    BY <2>1 DEF NetCredible, Credible
  <2> QED BY <2>1, <2>3, <2>4, BatchesStay, UnsettledStep
<1>6. CASE m.kind = "outputs"
  <2>1. UNCHANGED <<net, outcome, creds, inputsIn>>
    BY <1>6, LeaderAccepts DEF LeaderHandles
  <2>2. Msg("outputs", Leader, Outputs) \in seen'
    BY <1>1, <1>2, <1>6, LeaderAccepts DEF Resent
  <2>3. Admitted'
    BY <1>2, <1>3, <2>1, <2>2, AdmittedKeeps
  <2>4. NetCredible'
    BY <2>1 DEF NetCredible, Credible
  <2> QED BY <2>1, <2>3, <2>4, BatchesStay, UnsettledStep
<1>7. CASE m.kind \in {"ready", "signature"}
  <2>1. UNCHANGED <<net, outcome, creds, inputsIn, revealed>>
    BY <1>7 DEF LeaderHandles
  <2>2. NetCredible'
    BY <2>1 DEF NetCredible, Credible
  <2> QED BY <1>2, <2>1, <2>2, AdmittedStays, BatchesStay, UnsettledStep
<1>8. CASE m.kind = "abort"
  <2>1. ~patient /\ Refuse(Leader) /\ UNCHANGED <<creds, inputsIn, revealed>>
    BY <1>1, <1>8 DEF LeaderHandles, leadVars, Credible
  <2>2. NetCredible'
    <3>1. CASE Fail(Leader, "failed")
      BY <2>1, <3>1, AbortIsCredible, CredibleKeeps, SessionAssumption DEF Fail, Send
    <3>2. CASE UNCHANGED net
      BY <2>1, <3>2 DEF NetCredible, Credible
    <3> QED BY <2>1, <3>1, <3>2 DEF Refuse
  <2> QED BY <1>2, <2>1, <2>2, AdmittedStays, BatchesStay DEF NobodyRefuses
<1> QED BY <1>4, <1>5, <1>6, <1>7, <1>8 DEF LeaderHandles

\* A final comes after all signatures, so no peer takes it for one out of turn.
LEMMA PeerHonest ==
  ASSUME HonestInv, SessionInv', NEW m \in net, Once(m), m.to # Leader, PeerHandles(m.to, m),
         UNCHANGED <<mixVars, leadVars, patient>>
  PROVE  HonestInv'
<1> USE DEF HonestInv
<1> DEFINE p == m.to
<1>1. p \in Parties /\ Credible(m) /\ seen \subseteq seen'
  BY BooksAreParties, MessageOf DEF NetCredible, Once
<1>2. UNCHANGED <<creds, inputsIn, revealed>>
  BY DEF leadVars
<1>3. flow \in [Parties -> {"params", "request", "response", "register", "inject", "ready", "done"}]
  BY DEF SessionInv, SessionTypeOK
<1>4. CASE m.kind = "params"
  <2>1. UNCHANGED <<net, outcome>> /\ flow' \in {flow, [flow EXCEPT ![p] = "request"]}
    BY <1>4 DEF PeerHandles, Go
  <2>2. Admitted'
    BY <1>1, <1>2, <1>3, <2>1, SessionAssumption DEF Admitted
  <2>3. NetCredible'
    BY <1>2, <2>1 DEF NetCredible, Credible
  <2> QED BY <1>2, <2>1, <2>2, <2>3, BatchesStay, UnsettledStep
<1>5. CASE m.kind = "response"
  <2>1. UNCHANGED <<net, outcome>> /\ flow' \in {flow, [flow EXCEPT ![p] = "register"]}
    BY <1>5 DEF PeerHandles, Go
  <2>2. p \in creds
    BY <1>1, <1>5 DEF Credible
  <2>3. Admitted'
    BY <1>1, <1>2, <1>3, <2>1, <2>2, SessionAssumption DEF Admitted
  <2>4. NetCredible'
    BY <1>2, <2>1 DEF NetCredible, Credible
  <2> QED BY <1>2, <2>1, <2>3, <2>4, BatchesStay, UnsettledStep
<1>6. CASE m.kind = "assembled"
  <2>1. UNCHANGED <<net, outcome, flow>>
    BY <1>6 DEF PeerHandles
  <2>2. NetCredible'
    BY <1>2, <2>1 DEF NetCredible, Credible
  <2> QED BY <1>1, <1>2, <2>1, <2>2, AdmittedStays, BatchesStay, UnsettledStep
<1>7. CASE m.kind = "final"
  <2>1. sign[p] = "gave"
    BY <1>1, <1>7 DEF SessionInv, NetTells, HandTells
  <2>2. outcome' = [outcome EXCEPT ![p] = "fused"] /\ UNCHANGED <<net, flow>>
    BY <1>7, <2>1 DEF PeerHandles, Settle
  <2>3. NobodyRefuses'
    BY <1>1, <2>2 DEF NobodyRefuses, SessionInv, SessionTypeOK
  <2>4. NetCredible'
    BY <1>2, <2>2 DEF NetCredible, Credible
  <2> QED BY <1>1, <1>2, <2>2, <2>3, <2>4, AdmittedStays, BatchesStay
<1>8. CASE m.kind = "abort"
  <2>1. ~patient /\ UNCHANGED <<net, flow>>
    BY <1>1, <1>8 DEF PeerHandles, Credible
  <2>2. NetCredible'
    BY <1>2, <2>1 DEF NetCredible, Credible
  <2> QED BY <1>1, <1>2, <2>1, <2>2, AdmittedStays, BatchesStay DEF NobodyRefuses
<1> QED BY <1>4, <1>5, <1>6, <1>7, <1>8 DEF PeerHandles

LEMMA PeelerHonest ==
  ASSUME HonestInv, SessionInv', NEW m \in net, Once(m), m.to # Leader, PeelerHandles(m.to, m),
         UNCHANGED <<net, flow, outcome, leadVars, patient>>
  PROVE  HonestInv'
<1> USE DEF HonestInv
<1> DEFINE p == m.to
<1>1. /\ p \in Peers /\ Credible(m) /\ seen \subseteq seen'
      /\ m.kind = "onion" => m.about \in SUBSET Outputs
  BY BooksAreParties, MessageOf DEF NetCredible, Once, Peers
<1>2. UNCHANGED <<creds, inputsIn, revealed>> /\ creds' \subseteq Parties
  BY BooksAreParties DEF leadVars
<1>3. Batches'
  <2>1. CASE m.kind = "declare" /\ declared' = [declared EXCEPT ![p] = declared[p] \cup {m.about}]
             /\ UNCHANGED <<blobs, arrived>> /\ TryPeel(p)
    <3>1. m.about \in creds
      BY <1>1, <2>1 DEF Credible
    <3>2. \A q \in Peers : declared[q] \subseteq declared'[q] /\ declared'[q] \subseteq creds'
      BY <1>1, <1>2, <2>1, <3>1 DEF Batches, SessionInv, SessionTypeOK
    <3>3. \A q \in Peers : /\ arrived'[q] = Cardinality(blobs'[q])
                           /\ blobs[q] \subseteq blobs'[q] /\ blobs'[q] \subseteq Outputs
      BY <2>1 DEF Batches, SessionInv, SessionTypeOK
    <3> QED BY <1>1, <1>2, <2>1, <3>2, <3>3, PeelsRight
  <2>2. CASE m.kind = "onion" /\ Collect(p, m.about) /\ UNCHANGED declared /\ TryPeel(p)
    <3>1. \A q \in Peers : declared[q] \subseteq declared'[q] /\ declared'[q] \subseteq creds'
      BY <1>2, <2>2 DEF Batches
    <3>2. \A q \in Peers : /\ arrived'[q] = Cardinality(blobs'[q])
                           /\ blobs[q] \subseteq blobs'[q] /\ blobs'[q] \subseteq Outputs
      BY <1>1, <2>2, CollectCounts
    <3> QED BY <1>1, <1>2, <2>2, <3>1, <3>2, PeelsRight
  <2> QED BY <2>1, <2>2 DEF PeelerHandles
<1>4. NetCredible'
  BY <1>2 DEF NetCredible, Credible
<1> QED BY <1>1, <1>2, <1>3, <1>4, AdmittedStays, UnsettledStep

LEMMA HandleHonest ==
  ASSUME HonestInv, SessionInv', NEW m \in net, Once(m), Handle(m)
  PROVE  HonestInv'
<1>1. CASE m.to = Leader /\ LeaderHandles(m) /\ UNCHANGED <<flow, mixVars>>
  BY <1>1, LeaderHonest DEF Handle
<1>2. CASE m.to # Leader /\ PeerHandles(m.to, m) /\ UNCHANGED <<mixVars, leadVars>>
  BY <1>2, PeerHonest DEF Handle
<1>3. CASE m.to # Leader /\ PeelerHandles(m.to, m) /\ UNCHANGED <<net, flow, outcome, sign, leadVars>>
  BY <1>3, PeelerHonest DEF Handle
<1> QED BY <1>1, <1>2, <1>3 DEF Handle

LEMMA HonestInit ==
  ASSUME SessionInit
  PROVE  HonestInv
<1>1. SessionInv
  BY InvInit
<1>2. Admitted /\ NetCredible /\ NobodyRefuses
  BY SessionAssumption DEF SessionInit, Admitted, NetCredible, NobodyRefuses
<1>3. Batches
  BY FS_EmptySet DEF SessionInit, Batches
<1> QED BY <1>1, <1>2, <1>3 DEF HonestInv

LEMMA HonestStep ==
  ASSUME HonestInv, [Next]_sessionVars
  PROVE  HonestInv'
<1>1. SessionInv'
  BY InvStep DEF HonestInv
<1>2. ASSUME NEW m \in net, Receive(m) \/ Redeliver(m) PROVE HonestInv'
  <2>1. Once(m) /\ Handle(m)
    BY <1>2 DEF Receive, Redeliver, Once
  <2> QED BY <1>1, <2>1, HandleHonest
<1>3. ASSUME NEW p \in Parties, PeerRelay(p) PROVE HonestInv'
  <2>1. UNCHANGED <<patient, net, seen, flow, outcome, mixVars, creds, inputsIn, revealed>>
    BY <1>3 DEF PeerRelay, leadVars
  <2> QED BY <1>1, <2>1, AdmittedStays, BatchesStay, UnsettledStep DEF HonestInv, NetCredible, Credible
<1>4. CASE UNCHANGED sessionVars
  <2>1. UNCHANGED <<patient, net, seen, flow, outcome, mixVars, creds, inputsIn, revealed>>
    BY <1>4 DEF sessionVars, leadVars
  <2> QED BY <1>1, <2>1, AdmittedStays, BatchesStay, UnsettledStep DEF HonestInv, NetCredible, Credible
<1> QED BY <1>1, <1>2, <1>3, <1>4, PublishHonest, ReturnHonest, RequestHonest, RegisterHonest,
           InjectHonest, ReadyHonest, SignHonest, ForwardHonest, GiveUpHonest DEF Next, Progress

\* In a round of parties that follow the protocol and do not time out, no
\* handler takes a message for a violation: each request, inputs and reveal is
\* handled once and in its turn, each batch is peeled when it is whole, and a
\* final finds every signature given.
THEOREM HonestAreNotRefused == SessionSpec => []NobodyRefuses
<1>1. SessionInit => HonestInv
  BY HonestInit
<1>2. HonestInv /\ [Next]_sessionVars => HonestInv'
  BY HonestStep
<1>3. HonestInv => NobodyRefuses
  BY DEF HonestInv
<1> QED BY <1>1, <1>2, <1>3, PTL DEF SessionSpec
=============================================================================
