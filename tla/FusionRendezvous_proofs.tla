---------------------- MODULE FusionRendezvous_proofs ----------------------
(***************************************************************************)
(* Proofs about FusionRendezvous for any number of wallets, views, losses  *)
(* and attempts.                                                           *)
(***************************************************************************)
EXTENDS FusionRendezvous, TLAPS

-----------------------------------------------------------------------------
(* The inductive invariant. *)

\* Sessions are not used before the attempt that owns them begins.
SessionsBegun ==
  \A m \in msgs : LET o == m.session.owner IN
    /\ m.session.no <= tries[o]
    /\ role[o] = "between" => m.session.no < tries[o]

\* An accepted proposal was sent; acknowledgments name no set.
JoinedSent ==
  /\ \A n \in Nodes : joined[n] # None => joined[n] \in msgs
  /\ \A m \in msgs : m.type = "round_ack" => m.parts = {}

\* A collecting coordinator offered its session to its candidates, counts
\* acknowledgments that were sent, and is starting only when it has them all.
CollectsTruly ==
  \A n \in Nodes :
    /\ role[n] = "coordinator" =>
         /\ SendAll("round_proposal", n, Others(n), Own(n), cand[n]) \subseteq msgs
         /\ \A p \in acks[n] \ {n} : Msg("round_ack", p, n, Own(n), {}) \in msgs
    /\ n \in starting =>
         /\ role[n] \notin {"between", "participant"}
         /\ role[n] = "coordinator" => acks[n] = cand[n]

FullyAcked(session, c, parts) ==
  /\ session.owner = c /\ parts \in Sets /\ Elect[parts] = c
  /\ SendAll("round_proposal", c, parts \ {c}, session, parts) \subseteq msgs
  /\ \A p \in parts \ {c} : Msg("round_ack", p, c, session, {}) \in msgs

\* The attempt a session belongs to, if it still goes on, is starting with parts.
ByStarting(session, parts) ==
  LET c == session.owner IN
    /\ session.no <= tries[c]
    /\ session = Own(c) => c \in starting /\ parts = cand[c]

StartsRight ==
  \A m \in msgs : m.type = "round_start" =>
    /\ FullyAcked(m.session, m.from, m.parts)
    /\ ByStarting(m.session, m.parts)
    /\ \A o \in msgs : o.type = "round_start" /\ o.session = m.session => o.parts = m.parts

ResultsRight ==
  \A n \in Nodes : result[n] # None => LET r == result[n] IN
    /\ n \in r.participants
    /\ FullyAcked(r.session, r.coordinator, r.participants)
    /\ ByStarting(r.session, r.participants)
    /\ \A o \in msgs : o.type = "round_start" /\ o.session = r.session => o.parts = r.participants
    /\ \A p \in Nodes : result[p] # None /\ result[p].session = r.session
         => result[p].participants = r.participants

RendezvousInv ==
  RendezvousTypeOK /\ SessionsBegun /\ JoinedSent /\ CollectsTruly /\ StartsRight /\ ResultsRight

-----------------------------------------------------------------------------
(* Lemmas *)

USE DEF Open, Kinds

LEMMA SetsFacts ==
  /\ \A S \in Sets : S \subseteq Nodes /\ Elect[S] \in S
  /\ Sets \subseteq SUBSET Nodes
BY RendezvousAssumption DEF Sets

LEMMA MsgTyped ==
  ASSUME NEW t \in Kinds, NEW n \in Nodes, NEW to \in Nodes, NEW s \in Session,
         NEW parts \in SUBSET Nodes
  PROVE  Msg(t, n, to, s, parts) \in Message
BY DEF Msg, Message

LEMMA SendAllTyped ==
  ASSUME NEW t \in Kinds, NEW n \in Nodes, NEW dests \in SUBSET Nodes, NEW s \in Session,
         NEW parts \in SUBSET Nodes
  PROVE  SendAll(t, n, dests, s, parts) \subseteq Message
BY MsgTyped DEF SendAll

LEMMA OwnTyped ==
  ASSUME RendezvousTypeOK, NEW n \in Nodes
  PROVE  Own(n) \in Session
BY DEF RendezvousTypeOK, Own, Session

LEMMA NotesTyped ==
  ASSUME RendezvousTypeOK, NEW n \in Nodes
  PROVE  AbortNotes(n) \subseteq Message
<1>1. Own(n) \in Session  BY OwnTyped
<1>2. CASE joined[n] # None
  <2>1. joined[n].from \in Nodes /\ joined[n].session \in Session
    BY <1>2 DEF RendezvousTypeOK, Message
  <2>. QED  BY <1>2, <2>1, SendAllTyped DEF AbortNotes
<1>3. CASE joined[n] = None
  <2>1. Others(n) \in SUBSET Nodes  BY DEF RendezvousTypeOK, Others
  <2>. QED  BY <1>1, <1>3, <2>1, SendAllTyped DEF AbortNotes
<1>. QED  BY <1>2, <1>3

\* The steps by which an attempt is left keep the types.
LEMMA FailTyped ==
  ASSUME RendezvousTypeOK, NEW n \in Nodes, role[n] # "agreed",
         NEW sent, sent \subseteq Message, Fail(n, sent)
  PROVE  RendezvousTypeOK'
BY DEF RendezvousTypeOK, Fail

LEMMA RetryTyped ==
  ASSUME RendezvousTypeOK, NEW n \in Nodes, role[n] \in Open, tries[n] < MaxTries,
         NEW S \in SUBSET Nodes, n \in S, Retry(n, S)
  PROVE  RendezvousTypeOK'
BY RendezvousAssumption DEF RendezvousTypeOK, Retry

LEMMA AgreeTyped ==
  ASSUME RendezvousTypeOK, NEW n \in Nodes, role[n] \in Open,
         NEW s \in Session, NEW c \in Nodes, NEW S \in SUBSET Nodes, Agree(n, s, c, S)
  PROVE  RendezvousTypeOK'
<1>1. result'[n] \in Round /\ result'[n] # None
  BY NoneAssumption DEF RendezvousTypeOK, Agree, Round
<1>. QED  BY <1>1 DEF RendezvousTypeOK, Agree

-----------------------------------------------------------------------------
(* Types *)

LEMMA TypeInit == RendezvousInit => RendezvousTypeOK
BY RendezvousAssumption DEF RendezvousInit, RendezvousTypeOK, Sets

LEMMA RunTyped ==
  ASSUME RendezvousTypeOK, NEW n \in Nodes, Run(n)
  PROVE  RendezvousTypeOK'
<1>0. Own(n) \in Session /\ Others(n) \in SUBSET Nodes /\ cand[n] \in SUBSET Nodes
  BY OwnTyped DEF RendezvousTypeOK, Others
<1>1. CASE BeginAttempt(n)
  <2>1. CASE cand[n] \notin Sets \/ tries[n] = MaxTries
    BY <1>1, <2>1, FailTyped DEF BeginAttempt
  <2>2. CASE cand[n] \in Sets /\ tries[n] # MaxTries
    <3>1. SendAll("round_proposal", n, Others(n), Own(n), cand[n]) \subseteq Message
      BY <1>0, SendAllTyped
    <3>2. Elect[cand[n]] \in Nodes
      BY <2>2, SetsFacts
    <3>3. tries[n] < MaxTries
      <4>1. tries[n] \in 0..MaxTries /\ MaxTries \in Nat
        BY RendezvousAssumption DEF RendezvousTypeOK
      <4>. QED  BY <2>2, <4>1
    <3>. QED  BY <1>1, <2>2, <3>1, <3>2, <3>3 DEF BeginAttempt, RendezvousTypeOK
  <2>. QED  BY <2>1, <2>2
<1>2. CASE SettleWindowEnds(n)
  <2>1. SendAll("round_start", n, Others(n), Own(n), acks[n]) \subseteq Message
    BY <1>0, SendAllTyped DEF RendezvousTypeOK
  <2>. QED  BY <1>2, <2>1 DEF SettleWindowEnds, startOwnRound, RendezvousTypeOK
<1>3. CASE StartSent(n)  BY <1>0, <1>3, AgreeTyped DEF StartSent
<1>4. CASE ShrinkSent(n)
  <2>1. shrink[n] \in SUBSET Nodes /\ n \in shrink[n]  BY <1>4 DEF ShrinkSent, RendezvousTypeOK
  <2>2. role[n] \in Open /\ tries[n] < MaxTries  BY <1>4 DEF ShrinkSent, RendezvousTypeOK
  <2>. QED  BY <1>4, <2>1, <2>2, RetryTyped DEF ShrinkSent
<1>. QED  BY <1>1, <1>2, <1>3, <1>4 DEF Run

LEMMA TimeoutTyped ==
  ASSUME RendezvousTypeOK, NEW n \in Nodes, Timeout(n) \/ StartNotSent(n) \/ Cancel(n)
  PROVE  RendezvousTypeOK'
<1>0. Own(n) \in Session /\ AbortNotes(n) \subseteq Message /\ {} \subseteq Message
  BY OwnTyped, NotesTyped
<1>1. CASE AckTimeout(n)
  <2>1. CASE acks[n] \in Sets
    <3>1. acks[n] \in SUBSET Nodes /\ acks[n] \ {n} \in SUBSET Nodes
          /\ cand[n] \ acks[n] \in SUBSET Nodes /\ n \in acks[n]
      BY <1>1 DEF AckTimeout, RendezvousTypeOK
    <3>2. SendAll("round_shrink", n, acks[n] \ {n}, Own(n), acks[n]) \subseteq Message
      BY <1>0, <3>1, SendAllTyped
    <3>3. SendAll("abort", n, cand[n] \ acks[n], Own(n), {}) \subseteq Message
      BY <1>0, <3>1, SendAllTyped
    <3>4. msgs' \subseteq Message
      BY <1>1, <2>1, <3>2, <3>3 DEF AckTimeout, RendezvousTypeOK
    <3>5. /\ shrink' = [shrink EXCEPT ![n] = acks[n]]
          /\ UNCHANGED <<role, cand, tries, acks, settled, starting, joined, expected, remainder, result>>
      BY <1>1, <2>1 DEF AckTimeout
    <3>. QED  BY <3>1, <3>4, <3>5 DEF RendezvousTypeOK
  <2>2. CASE acks[n] \notin Sets  BY <1>0, <1>1, <2>2, FailTyped DEF AckTimeout
  <2>. QED  BY <2>1, <2>2
<1>2. CASE ProposalTimeout(n)
  <2>1. n \in cand[n] \ {Elect[cand[n]]} /\ cand[n] \ {Elect[cand[n]]} \in SUBSET Nodes
    BY <1>2 DEF ProposalTimeout, RendezvousTypeOK
  <2>2. role[n] \in Open /\ tries[n] < MaxTries  BY <1>2 DEF ProposalTimeout, RendezvousTypeOK
  <2>. QED  BY <1>2, <2>1, <2>2, RetryTyped DEF ProposalTimeout
<1>3. CASE Deadline(n)  BY <1>0, <1>3, FailTyped DEF Deadline
<1>4. CASE StartNotSent(n)  BY <1>0, <1>4, FailTyped DEF StartNotSent
<1>5. CASE Cancel(n)  BY <1>0, <1>5, FailTyped DEF Cancel
<1>. QED  BY <1>1, <1>2, <1>3, <1>4, <1>5 DEF Timeout

LEMMA HandleTyped ==
  ASSUME RendezvousTypeOK, NEW n \in Nodes, NEW m \in msgs, Handle(n, m)
  PROVE  RendezvousTypeOK'
<1>0. Own(n) \in Session /\ Others(n) \in SUBSET Nodes /\ m \in Message /\ {} \subseteq Message
      /\ m.from \in Nodes /\ m.session \in Session /\ m.parts \in SUBSET Nodes
  BY OwnTyped DEF RendezvousTypeOK, Others, Message
<1>a. Msg("round_ack", n, m.from, m.session, {}) \in Message  BY <1>0, MsgTyped
<1>1. CASE CollectAck(n, m)
  <2>1. acks[n] \cup {m.from} \in SUBSET Nodes  BY <1>0 DEF RendezvousTypeOK
  <2>2. SendAll("round_start", n, Others(n), Own(n), acks[n] \cup {m.from}) \subseteq Message
    BY <1>0, <2>1, SendAllTyped
  <2>3. /\ acks' = [acks EXCEPT ![n] = @ \cup {m.from}]
        /\ m.from \in cand[n] /\ role[n] = "coordinator"
        /\ UNCHANGED <<role, cand, tries, settled, shrink, joined, expected, remainder, result>>
    BY <1>1 DEF CollectAck, Others
  <2>4. acks'[n] = acks[n] \cup {m.from}  BY <2>3 DEF RendezvousTypeOK
  <2>5. \/ /\ starting' = starting \cup {n}
           /\ msgs' = msgs \cup SendAll("round_start", n, Others(n), Own(n), acks'[n])
        \/ UNCHANGED <<starting, msgs>>
    BY <1>1 DEF CollectAck, startOwnRound
  <2>6. starting' \subseteq Nodes /\ msgs' \subseteq Message
    BY <2>2, <2>4, <2>5 DEF RendezvousTypeOK
  <2>. QED  BY <2>1, <2>3, <2>6 DEF RendezvousTypeOK
<1>2. CASE Yield(n, m)
  <2>1. CASE Fail(n, {})  BY <1>0, <1>2, <2>1, FailTyped DEF Yield
  <2>2. CASE ~Fail(n, {})  BY <1>0, <1>a, <1>2, <2>2 DEF Yield, RendezvousTypeOK
  <2>. QED  BY <2>1, <2>2
<1>3. CASE CoordinatorAborted(n, m)  BY <1>0, <1>3, FailTyped DEF CoordinatorAborted
<1>4. CASE Accept(n, m)  BY <1>0, <1>a, <1>4 DEF Accept, RendezvousTypeOK
<1>5. CASE JoinRound(n, m)  BY <1>0, <1>5, AgreeTyped DEF JoinRound
<1>6. CASE TakeShrink(n, m)
  <2>0. role[n] \in Open /\ tries[n] < MaxTries /\ m.parts \in Sets /\ n \in m.parts
        /\ Elect[m.parts] \in Nodes
    BY <1>0, <1>6, SetsFacts DEF TakeShrink, RendezvousTypeOK
  <2>1. CASE Elect[m.parts] = n
    <3>1. Retry(n, m.parts)  BY <1>6, <2>1 DEF TakeShrink
    <3>2. m.parts \in SUBSET Nodes  BY <1>0
    <3>. QED  BY <2>0, <3>1, <3>2, RetryTyped
  <2>2. CASE Elect[m.parts] # n
    <3>1. /\ remainder' = [remainder EXCEPT ![n] = m.parts]
          /\ expected' = [expected EXCEPT ![n] = Elect[m.parts]]
          /\ joined' = [joined EXCEPT ![n] = None]
          /\ UNCHANGED <<role, cand, tries, acks, settled, starting, shrink, result, msgs>>
      BY <1>6, <2>2 DEF TakeShrink
    <3>2. m.parts \in SUBSET Nodes  BY <1>0
    <3>. QED  BY <2>0, <3>1, <3>2 DEF RendezvousTypeOK
  <2>. QED  BY <2>1, <2>2
<1>7. CASE ParticipantAborted(n, m)  BY <1>0, <1>7, FailTyped DEF ParticipantAborted
<1>. QED  BY <1>1, <1>2, <1>3, <1>4, <1>5, <1>6, <1>7 DEF Handle

LEMMA TypeStep == RendezvousTypeOK /\ [RendezvousNext]_rendezvousVars => RendezvousTypeOK'
<1>. SUFFICES ASSUME RendezvousTypeOK, [RendezvousNext]_rendezvousVars
              PROVE  RendezvousTypeOK'
  OBVIOUS
<1>1. CASE RendezvousNext
  BY <1>1, RunTyped, TimeoutTyped, HandleTyped DEF RendezvousNext
<1>2. CASE UNCHANGED rendezvousVars
  BY <1>2 DEF rendezvousVars, local, RendezvousTypeOK
<1>. QED  BY <1>1, <1>2

\* The types, and what they say of a node's part: only the elected coordinator
\* of a node's own set collects, and no node loses itself from its set.
THEOREM RendezvousTypeCorrect == RendezvousSpec => []RendezvousTypeOK
BY TypeInit, TypeStep, PTL DEF RendezvousSpec

-----------------------------------------------------------------------------
(* What every step does. *)

RoundInv == SessionsBegun /\ JoinedSent /\ CollectsTruly /\ StartsRight /\ ResultsRight

Begun(s) ==
  /\ s.no <= tries[s.owner]
  /\ role[s.owner] = "between" => s.no < tries[s.owner]

\* An attempt goes on with its session and its set, or a new one is next.
GoesOn(c) ==
  \/ /\ tries'[c] = tries[c] /\ cand'[c] = cand[c]
     /\ c \in starting => c \in starting'
     /\ role'[c] = "between" => role[c] = "between"
     /\ role'[c] = "participant" => role[c] \in {"between", "participant"}
  \/ tries'[c] = tries[c] + 1 /\ role'[c] = "between" /\ c \notin starting'

\* The round_start m is sent for the first time.
Starts(m) ==
  /\ m.from \in Nodes /\ role[m.from] = "coordinator" /\ role'[m.from] = "coordinator"
  /\ m.from \notin starting /\ m.from \in starting'
  /\ m.session = Own(m.from) /\ m.parts = cand[m.from] /\ acks'[m.from] = cand[m.from]

SentRightly(m) ==
  /\ m \in Message
  /\ m.type = "round_ack" => m.parts = {}
  /\ \/ \E o \in msgs : m.session = o.session
     \/ m.session.owner \in Nodes /\ m.session = Own(m.session.owner)
        /\ role'[m.session.owner] # "between" /\ tries'[m.session.owner] = tries[m.session.owner]
  /\ m.type = "round_start" => Starts(m)

LEMMA SentByAll ==
  ASSUME NEW t, NEW n, NEW dests, NEW s, NEW parts, NEW m \in SendAll(t, n, dests, s, parts)
  PROVE  m.type = t /\ m.from = n /\ m.to \in dests /\ m.session = s /\ m.parts = parts
BY DEF SendAll, Msg

\* The new messages of a node that gives up.
LEMMA NotesSent ==
  ASSUME RendezvousTypeOK, JoinedSent, NEW n \in Nodes, NEW m \in AbortNotes(n)
  PROVE  /\ m \in Message /\ m.type = "abort"
         /\ (\E o \in msgs : m.session = o.session) \/ m.session = Own(n)
<1>1. m \in Message  BY NotesTyped
<1>2. CASE joined[n] # None
  BY <1>1, <1>2, SentByAll DEF AbortNotes, JoinedSent
<1>3. CASE joined[n] = None
  BY <1>1, <1>3, SentByAll DEF AbortNotes
<1>. QED  BY <1>2, <1>3

LEMMA FailGoesOn ==
  ASSUME RendezvousTypeOK, NEW n \in Nodes, NEW sent, Fail(n, sent)
  PROVE  \A c \in Nodes : GoesOn(c)
BY DEF RendezvousTypeOK, Fail, GoesOn

LEMMA RetryGoesOn ==
  ASSUME RendezvousTypeOK, NEW n \in Nodes, NEW S, Retry(n, S)
  PROVE  \A c \in Nodes : GoesOn(c)
BY DEF RendezvousTypeOK, Retry, GoesOn

LEMMA AgreeGoesOn ==
  ASSUME RendezvousTypeOK, NEW n \in Nodes, NEW s, NEW d, NEW S, Agree(n, s, d, S)
  PROVE  \A c \in Nodes : GoesOn(c)
BY DEF RendezvousTypeOK, Agree, GoesOn

LEMMA AllGoOn ==
  ASSUME RendezvousTypeOK, RendezvousNext
  PROVE  \A c \in Nodes : GoesOn(c)
<1>1. ASSUME NEW n \in Nodes, Run(n)  PROVE \A c \in Nodes : GoesOn(c)
  <2>1. CASE BeginAttempt(n)
    BY <2>1, FailGoesOn DEF BeginAttempt, GoesOn, RendezvousTypeOK
  <2>2. CASE SettleWindowEnds(n)
    BY <2>2 DEF SettleWindowEnds, startOwnRound, GoesOn, RendezvousTypeOK
  <2>3. CASE StartSent(n)  BY <2>3, AgreeGoesOn DEF StartSent
  <2>4. CASE ShrinkSent(n)  BY <2>4, RetryGoesOn DEF ShrinkSent
  <2>. QED  BY <1>1, <2>1, <2>2, <2>3, <2>4 DEF Run
<1>2. ASSUME NEW n \in Nodes, Timeout(n) \/ StartNotSent(n) \/ Cancel(n)
      PROVE  \A c \in Nodes : GoesOn(c)
  <2>1. CASE AckTimeout(n)
    BY <2>1, FailGoesOn DEF AckTimeout, GoesOn, RendezvousTypeOK
  <2>2. CASE ProposalTimeout(n)  BY <2>2, RetryGoesOn DEF ProposalTimeout
  <2>3. CASE Deadline(n)  BY <2>3, FailGoesOn DEF Deadline
  <2>4. CASE StartNotSent(n)  BY <2>4, FailGoesOn DEF StartNotSent
  <2>5. CASE Cancel(n)  BY <2>5, FailGoesOn DEF Cancel
  <2>. QED  BY <1>2, <2>1, <2>2, <2>3, <2>4, <2>5 DEF Timeout
<1>3. ASSUME NEW n \in Nodes, NEW m \in msgs, Handle(n, m)
      PROVE  \A c \in Nodes : GoesOn(c)
  <2>1. CASE CollectAck(n, m)
    BY <2>1 DEF CollectAck, startOwnRound, GoesOn, RendezvousTypeOK
  <2>2. CASE Yield(n, m)  BY <2>2, FailGoesOn DEF Yield, GoesOn, RendezvousTypeOK
  <2>3. CASE CoordinatorAborted(n, m)  BY <2>3, FailGoesOn DEF CoordinatorAborted
  <2>4. CASE Accept(n, m)  BY <2>4 DEF Accept, GoesOn, RendezvousTypeOK
  <2>5. CASE JoinRound(n, m)  BY <2>5, AgreeGoesOn DEF JoinRound
  <2>6. CASE TakeShrink(n, m)
    BY <2>6, RetryGoesOn DEF TakeShrink, GoesOn, RendezvousTypeOK
  <2>7. CASE ParticipantAborted(n, m)  BY <2>7, FailGoesOn DEF ParticipantAborted
  <2>. QED  BY <1>3, <2>1, <2>2, <2>3, <2>4, <2>5, <2>6, <2>7 DEF Handle
<1>. QED  BY <1>1, <1>2, <1>3 DEF RendezvousNext

\* Every message a step sends belongs to a session that has begun.
LEMMA AllSentRightly ==
  ASSUME RendezvousTypeOK, RendezvousTypeOK', JoinedSent, CollectsTruly, RendezvousNext
  PROVE  msgs \subseteq msgs' /\ \A m \in msgs' \ msgs : SentRightly(m)
<1>a. \A n \in Nodes : Own(n).owner = n /\ Own(n) = [owner |-> n, no |-> tries[n]]
  BY DEF Own
<1>b. \A m \in msgs' : m \in Message  BY DEF RendezvousTypeOK
<1>1. ASSUME NEW n \in Nodes, NEW sent, Fail(n, sent),
             \A m \in sent : /\ m \in Message /\ m.type = "abort"
                             /\ (\E o \in msgs : m.session = o.session) \/ m.session = Own(n)
      PROVE  msgs \subseteq msgs' /\ \A m \in msgs' \ msgs : SentRightly(m)
  <2>1. msgs' = msgs \cup sent /\ role'[n] # "between" /\ tries' = tries
    BY <1>1 DEF Fail, RendezvousTypeOK
  <2>2. \A m \in sent : m \in Message /\ m.type # "round_ack" /\ m.type # "round_start"
    BY <1>1
  <2>3. \A m \in sent : m.session = Own(n) => m.session.owner = n
    BY <1>a
  <2>. QED  BY <1>1, <2>1, <2>2, <2>3 DEF SentRightly
<1>2. ASSUME NEW n \in Nodes, Run(n)
      PROVE  msgs \subseteq msgs' /\ \A m \in msgs' \ msgs : SentRightly(m)
  <2>1. CASE BeginAttempt(n)
    <3>1. CASE cand[n] \notin Sets \/ tries[n] = MaxTries
      BY <1>1, <2>1, <3>1 DEF BeginAttempt
    <3>2. CASE cand[n] \in Sets /\ tries[n] # MaxTries
      <4>1. role'[n] # "between" /\ tries'[n] = tries[n]
        BY <2>1, <3>2 DEF BeginAttempt, RendezvousTypeOK
      <4>2. \A m \in msgs' \ msgs : m.type = "round_proposal" /\ m.session = Own(n)
        BY <2>1, <3>2, SentByAll DEF BeginAttempt
      <4>. QED  BY <1>a, <1>b, <2>1, <3>2, <4>1, <4>2 DEF BeginAttempt, SentRightly
    <3>. QED  BY <3>1, <3>2
  <2>2. CASE SettleWindowEnds(n)
    <3>1. role'[n] = role[n] /\ role[n] = "coordinator" /\ tries' = tries /\ acks' = acks
      BY <2>2 DEF SettleWindowEnds
    <3>2. \A m \in msgs' \ msgs :
             /\ m.type = "round_start" /\ m.session = Own(n) /\ m.from = n /\ m.parts = acks[n]
             /\ n \notin starting /\ n \in starting' /\ acks[n] = cand[n]
      BY <2>2, SentByAll DEF SettleWindowEnds, startOwnRound
    <3>. QED
      BY <1>a, <1>b, <2>2, <3>1, <3>2 DEF SettleWindowEnds, startOwnRound, SentRightly, Starts
  <2>3. CASE StartSent(n)  BY <2>3 DEF StartSent, Agree
  <2>4. CASE ShrinkSent(n)  BY <2>4 DEF ShrinkSent, Retry
  <2>. QED  BY <1>2, <2>1, <2>2, <2>3, <2>4 DEF Run
<1>3. ASSUME NEW n \in Nodes, Timeout(n) \/ StartNotSent(n) \/ Cancel(n)
      PROVE  msgs \subseteq msgs' /\ \A m \in msgs' \ msgs : SentRightly(m)
  <2>1. CASE AckTimeout(n)
    <3>1. CASE acks[n] \in Sets
      <4>1. role'[n] # "between" /\ tries'[n] = tries[n]
        BY <2>1, <3>1 DEF AckTimeout
      <4>2. \A m \in msgs' \ msgs :
              m.type \in {"round_shrink", "abort"} /\ m.session = Own(n)
        BY <2>1, <3>1, SentByAll DEF AckTimeout
      <4>. QED  BY <1>a, <1>b, <2>1, <3>1, <4>1, <4>2 DEF AckTimeout, SentRightly
    <3>2. CASE acks[n] \notin Sets  BY <1>1, <2>1, <3>2, NotesSent DEF AckTimeout
    <3>. QED  BY <3>1, <3>2
  <2>2. CASE ProposalTimeout(n)  BY <2>2 DEF ProposalTimeout, Retry
  <2>3. CASE Deadline(n)  BY <1>1, <2>3 DEF Deadline
  <2>4. CASE StartNotSent(n)  BY <1>1, <2>4, NotesSent DEF StartNotSent
  <2>5. CASE Cancel(n)  BY <1>1, <2>5, NotesSent DEF Cancel
  <2>. QED  BY <1>3, <2>1, <2>2, <2>3, <2>4, <2>5 DEF Timeout
<1>4. ASSUME NEW n \in Nodes, NEW m \in msgs, Handle(n, m)
      PROVE  msgs \subseteq msgs' /\ \A o \in msgs' \ msgs : SentRightly(o)
  <2>0. ASSUME msgs' = msgs \cup {Msg("round_ack", n, m.from, m.session, {})}
        PROVE  msgs \subseteq msgs' /\ \A o \in msgs' \ msgs : SentRightly(o)
    BY <1>b, <2>0 DEF SentRightly, Msg
  <2>1. CASE CollectAck(n, m)
    <3>1. role'[n] = role[n] /\ role[n] = "coordinator" /\ tries' = tries
      BY <2>1 DEF CollectAck
    <3>2. \A o \in msgs' \ msgs :
             /\ o.type = "round_start" /\ o.session = Own(n) /\ o.from = n /\ o.parts = acks'[n]
             /\ n \notin starting /\ n \in starting' /\ acks'[n] = cand[n]
      <4>1. \/ /\ n \notin starting /\ acks'[n] = cand[n] /\ starting' = starting \cup {n}
               /\ msgs' = msgs \cup SendAll("round_start", n, Others(n), Own(n), acks'[n])
            \/ UNCHANGED <<starting, msgs>>
        BY <2>1 DEF CollectAck, startOwnRound
      <4>. QED  BY <4>1, SentByAll
    <3>. QED
      BY <1>a, <1>b, <2>1, <3>1, <3>2 DEF CollectAck, startOwnRound, SentRightly, Starts
  <2>2. CASE Yield(n, m)  BY <1>1, <2>0, <2>2 DEF Yield
  <2>3. CASE CoordinatorAborted(n, m)  BY <1>1, <2>3 DEF CoordinatorAborted
  <2>4. CASE Accept(n, m)  BY <2>0, <2>4 DEF Accept
  <2>5. CASE JoinRound(n, m)  BY <2>5 DEF JoinRound, Agree
  <2>6. CASE TakeShrink(n, m)  BY <2>6 DEF TakeShrink, Retry
  <2>7. CASE ParticipantAborted(n, m)  BY <1>1, <2>7 DEF ParticipantAborted
  <2>. QED  BY <1>4, <2>1, <2>2, <2>3, <2>4, <2>5, <2>6, <2>7 DEF Handle
<1>. QED  BY <1>2, <1>3, <1>4 DEF RendezvousNext

-----------------------------------------------------------------------------
(* Each part of the invariant is kept. *)

LEMMA SessionsBegunKept ==
  ASSUME RendezvousTypeOK, RendezvousTypeOK', SessionsBegun,
         \A c \in Nodes : GoesOn(c), \A m \in msgs' \ msgs : SentRightly(m)
  PROVE  SessionsBegun'
<1>. SUFFICES ASSUME NEW m \in msgs' PROVE Begun(m.session)'
  BY DEF SessionsBegun, Begun
<1>1. \A s \in Session : s.owner \in Nodes /\ tries[s.owner] \in Nat /\ s.no \in Nat
  BY DEF RendezvousTypeOK, Session
<1>2. \A o \in msgs' : o.session \in Session  BY DEF RendezvousTypeOK, Message
<1>3. ASSUME NEW o \in msgs PROVE Begun(o.session)'
  <2>1. o.session \in Session  BY DEF RendezvousTypeOK, Message
  <2>2. Begun(o.session)  BY DEF SessionsBegun, Begun
  <2>. QED  BY <1>1, <2>1, <2>2 DEF Begun, GoesOn
<1>4. CASE m \notin msgs /\ ~ \E o \in msgs : m.session = o.session
  <2>1. /\ m.session.owner \in Nodes /\ m.session = Own(m.session.owner)
        /\ role'[m.session.owner] # "between" /\ tries'[m.session.owner] = tries[m.session.owner]
    BY <1>4 DEF SentRightly
  <2>2. m.session.no = tries[m.session.owner]  BY <2>1 DEF Own
  <2>. QED  BY <1>1, <1>2, <2>1, <2>2 DEF Begun
<1>. QED  BY <1>3, <1>4

LEMMA JoinedSentKept ==
  ASSUME RendezvousTypeOK, JoinedSent, RendezvousNext, msgs \subseteq msgs',
         \A m \in msgs' \ msgs : SentRightly(m)
  PROVE  JoinedSent'
<1>1. \A m \in msgs' : m.type = "round_ack" => m.parts = {}
  BY DEF JoinedSent, SentRightly
<1>2. \A n \in Nodes : joined'[n] # None => joined'[n] = joined[n] \/ joined'[n] \in msgs
  BY DEF RendezvousTypeOK, RendezvousNext, Run, Timeout, Handle, BeginAttempt, SettleWindowEnds,
     StartSent, ShrinkSent, AckTimeout, ProposalTimeout, Deadline, StartNotSent, Cancel,
     CollectAck, Yield, CoordinatorAborted, Accept, JoinRound, TakeShrink, ParticipantAborted,
     Fail, Retry, Agree
<1>. QED  BY <1>1, <1>2 DEF JoinedSent

\* What was acknowledged and offered stays so.
LEMMA FullyAckedKept ==
  ASSUME msgs \subseteq msgs', NEW s, NEW c, NEW S, FullyAcked(s, c, S)
  PROVE  FullyAcked(s, c, S)'
BY DEF FullyAcked, SendAll, Msg

LEMMA ByStartingKept ==
  ASSUME RendezvousTypeOK, \A c \in Nodes : GoesOn(c), NEW s \in Session, NEW S, ByStarting(s, S)
  PROVE  ByStarting(s, S)'
<1>1. s.owner \in Nodes /\ s.no \in Nat /\ tries[s.owner] \in Nat
  BY DEF RendezvousTypeOK, Session
<1>2. CASE tries'[s.owner] = tries[s.owner] + 1
  <2>1. s.no < tries'[s.owner]  BY <1>1, <1>2 DEF ByStarting
  <2>2. Own(s.owner)'.no = tries'[s.owner]  BY DEF Own
  <2>3. s # Own(s.owner)' /\ s.no <= tries'[s.owner]  BY <1>1, <1>2, <2>1, <2>2
  <2>. QED  BY <2>3 DEF ByStarting
<1>3. CASE tries'[s.owner] # tries[s.owner] + 1
  BY <1>1, <1>3 DEF ByStarting, Own, GoesOn
<1>. QED  BY <1>2, <1>3

\* How a collecting coordinator came to its acknowledgments in this step.
Collecting(n) ==
  \/ /\ role[n] = "coordinator" /\ acks'[n] = acks[n]
     /\ n \in starting' => n \in starting \/ acks[n] = cand[n]
  \/ \E m \in msgs :
       /\ role[n] = "coordinator"
       /\ m.type = "round_ack" /\ m.to = n /\ m.session = Own(n) /\ m.from \in cand[n] \ acks[n]
       /\ acks'[n] = acks[n] \cup {m.from}
       /\ n \in starting' => n \in starting \/ acks'[n] = cand[n]
  \/ /\ acks'[n] = {n} /\ role[n] = "between" /\ starting' = starting
     /\ SendAll("round_proposal", n, Others(n), Own(n), cand[n]) \subseteq msgs'

LEMMA AllCollect ==
  ASSUME RendezvousTypeOK, RendezvousNext, NEW p \in Nodes, role'[p] = "coordinator"
  PROVE  Collecting(p)
<1>1. ASSUME NEW n \in Nodes,
             role' = [role EXCEPT ![n] = "failed"] \/ role' = [role EXCEPT ![n] = "agreed"]
               \/ role' = [role EXCEPT ![n] = "between"] \/ role' = role,
             acks' = acks, starting' \subseteq starting
      PROVE  Collecting(p)
  BY <1>1 DEF Collecting, RendezvousTypeOK
<1>2. ASSUME NEW n \in Nodes, Run(n)  PROVE Collecting(p)
  <2>1. CASE BeginAttempt(n)
    <3>1. CASE cand[n] \notin Sets \/ tries[n] = MaxTries
      BY <1>1, <2>1, <3>1 DEF BeginAttempt, Fail
    <3>2. CASE cand[n] \in Sets /\ tries[n] # MaxTries
      <4>1. CASE p = n
        <5>1. Elect[cand[n]] = n /\ role[n] = "between"
          BY <2>1, <3>2, <4>1 DEF BeginAttempt, RendezvousTypeOK
        <5>. QED  BY <2>1, <3>2, <4>1, <5>1 DEF BeginAttempt, Collecting, RendezvousTypeOK
      <4>2. CASE p # n
        BY <2>1, <3>2, <4>2 DEF BeginAttempt, Collecting, RendezvousTypeOK
      <4>. QED  BY <4>1, <4>2
    <3>. QED  BY <3>1, <3>2
  <2>2. CASE SettleWindowEnds(n)
    <3>1. role' = role /\ acks' = acks
          /\ (starting' = starting \/ (starting' = starting \cup {n} /\ acks[n] = cand[n]))
      BY <2>2 DEF SettleWindowEnds, startOwnRound
    <3>. QED  BY <3>1 DEF Collecting
  <2>3. CASE StartSent(n)  BY <1>1, <2>3 DEF StartSent, Agree
  <2>4. CASE ShrinkSent(n)  BY <1>1, <2>4 DEF ShrinkSent, Retry
  <2>. QED  BY <1>2, <2>1, <2>2, <2>3, <2>4 DEF Run
<1>3. ASSUME NEW n \in Nodes, Timeout(n) \/ StartNotSent(n) \/ Cancel(n)
      PROVE  Collecting(p)
  <2>1. CASE AckTimeout(n)  BY <1>1, <2>1 DEF AckTimeout, Fail
  <2>2. CASE ProposalTimeout(n)  BY <1>1, <2>2 DEF ProposalTimeout, Retry
  <2>3. CASE Deadline(n)  BY <1>1, <2>3 DEF Deadline, Fail
  <2>4. CASE StartNotSent(n)  BY <1>1, <2>4 DEF StartNotSent, Fail
  <2>5. CASE Cancel(n)  BY <1>1, <2>5 DEF Cancel, Fail
  <2>. QED  BY <1>3, <2>1, <2>2, <2>3, <2>4, <2>5 DEF Timeout
<1>4. ASSUME NEW n \in Nodes, NEW m \in msgs, Handle(n, m)  PROVE Collecting(p)
  <2>1. CASE CollectAck(n, m)
    <3>1. /\ role' = role /\ acks' = [acks EXCEPT ![n] = @ \cup {m.from}]
          /\ starting' = starting \/ (starting' = starting \cup {n} /\ acks'[n] = cand[n])
      BY <2>1 DEF CollectAck, startOwnRound
    <3>2. CASE p = n
      BY <2>1, <3>1, <3>2 DEF CollectAck, Others, Collecting, RendezvousTypeOK
    <3>3. CASE p # n  BY <3>1, <3>3 DEF Collecting, RendezvousTypeOK
    <3>. QED  BY <3>2, <3>3
  <2>2. CASE Yield(n, m)  BY <1>1, <2>2 DEF Yield, Fail
  <2>3. CASE CoordinatorAborted(n, m)  BY <1>1, <2>3 DEF CoordinatorAborted, Fail
  <2>4. CASE Accept(n, m)  BY <1>1, <2>4 DEF Accept
  <2>5. CASE JoinRound(n, m)  BY <1>1, <2>5 DEF JoinRound, Agree
  <2>6. CASE TakeShrink(n, m)  BY <1>1, <2>6 DEF TakeShrink, Retry
  <2>7. CASE ParticipantAborted(n, m)  BY <1>1, <2>7 DEF ParticipantAborted, Fail
  <2>. QED  BY <1>4, <2>1, <2>2, <2>3, <2>4, <2>5, <2>6, <2>7 DEF Handle
<1>. QED  BY <1>2, <1>3, <1>4 DEF RendezvousNext

\* Only these two steps start a round.
LEMMA StartingMoves ==
  ASSUME RendezvousTypeOK, RendezvousNext, NEW p \in starting' \ starting
  PROVE  role'[p] = "coordinator"
BY DEF RendezvousTypeOK, RendezvousNext, Run, Timeout, Handle, BeginAttempt, SettleWindowEnds,
   StartSent, ShrinkSent, AckTimeout, ProposalTimeout, Deadline, StartNotSent, Cancel,
   CollectAck, Yield, CoordinatorAborted, Accept, JoinRound, TakeShrink, ParticipantAborted,
   Fail, Retry, Agree, startOwnRound

LEMMA CollectsTrulyKept ==
  ASSUME RendezvousTypeOK, RendezvousTypeOK', JoinedSent, CollectsTruly, RendezvousNext,
         \A c \in Nodes : GoesOn(c), msgs \subseteq msgs'
  PROVE  CollectsTruly'
<1>. SUFFICES ASSUME NEW n \in Nodes
     PROVE /\ role'[n] = "coordinator" =>
                /\ SendAll("round_proposal", n, cand'[n] \ {n}, Own(n)', cand'[n]) \subseteq msgs'
                /\ \A p \in acks'[n] \ {n} : Msg("round_ack", p, n, Own(n)', {}) \in msgs'
           /\ n \in starting' =>
                /\ role'[n] \notin {"between", "participant"}
                /\ role'[n] = "coordinator" => acks'[n] = cand'[n]
  BY DEF CollectsTruly, Others, SendAll, Msg
<1>1. ASSUME role'[n] = "coordinator"
      PROVE  /\ SendAll("round_proposal", n, cand'[n] \ {n}, Own(n)', cand'[n]) \subseteq msgs'
             /\ \A p \in acks'[n] \ {n} : Msg("round_ack", p, n, Own(n)', {}) \in msgs'
             /\ n \in starting' => acks'[n] = cand'[n]
  <2>0. cand'[n] = cand[n] /\ Own(n)' = Own(n) /\ Collecting(n)
    <3>1. Collecting(n)  BY <1>1, AllCollect
    <3>. QED  BY <1>1, <3>1 DEF GoesOn, Own
  <2>1. CASE /\ role[n] = "coordinator" /\ acks'[n] = acks[n]
             /\ n \in starting' => n \in starting \/ acks[n] = cand[n]
    BY <2>0, <2>1 DEF CollectsTruly, Others
  <2>2. ASSUME NEW m \in msgs, role[n] = "coordinator",
               m.type = "round_ack", m.to = n, m.session = Own(n), m.from \in cand[n] \ acks[n],
               acks'[n] = acks[n] \cup {m.from},
               n \in starting' => n \in starting \/ acks'[n] = cand[n]
        PROVE  /\ SendAll("round_proposal", n, cand'[n] \ {n}, Own(n)', cand'[n]) \subseteq msgs'
               /\ \A p \in acks'[n] \ {n} : Msg("round_ack", p, n, Own(n)', {}) \in msgs'
               /\ n \in starting' => acks'[n] = cand'[n]
    <3>1. m.parts = {} /\ m \in Message  BY <2>2 DEF JoinedSent, RendezvousTypeOK
    <3>2. m = Msg("round_ack", m.from, n, Own(n), {})
      BY <2>2, <3>1 DEF Message, Msg
    <3>3. n \notin starting  BY <2>2 DEF CollectsTruly
    <3>. QED  BY <2>0, <2>2, <3>2, <3>3 DEF CollectsTruly, Others
  <2>3. CASE /\ acks'[n] = {n} /\ role[n] = "between" /\ starting' = starting
             /\ SendAll("round_proposal", n, Others(n), Own(n), cand[n]) \subseteq msgs'
    BY <2>0, <2>3 DEF CollectsTruly, Others
  <2>. QED  BY <2>0, <2>1, <2>2, <2>3 DEF Collecting
<1>2. ASSUME n \in starting'  PROVE role'[n] \notin {"between", "participant"}
  <2>1. CASE n \in starting  BY <1>2, <2>1 DEF CollectsTruly, GoesOn
  <2>2. CASE n \notin starting  BY <1>2, <2>2, StartingMoves
  <2>. QED  BY <2>1, <2>2
<1>. QED  BY <1>1, <1>2

\* A session that has a round is not started again.
LEMMA NotStartedAgain ==
  ASSUME NEW s, NEW S, ByStarting(s, S), NEW m, Starts(m), m.session = s
  PROVE  FALSE
BY DEF ByStarting, Starts, Own

\* What is started was acknowledged by all.
LEMMA StartedRightly ==
  ASSUME RendezvousTypeOK, RendezvousTypeOK', CollectsTruly', NEW m, Starts(m), GoesOn(m.from)
  PROVE  FullyAcked(m.session, m.from, m.parts)' /\ ByStarting(m.session, m.parts)'
<1>1. /\ m.from \in Nodes /\ role'[m.from] = "coordinator"
      /\ cand'[m.from] = cand[m.from] /\ tries'[m.from] = tries[m.from]
      /\ m.session = Own(m.from)' /\ m.session.owner = m.from
      /\ m.session.no = tries'[m.from]
  BY DEF Starts, GoesOn, Own
<1>2. m.parts \in Sets /\ Elect[m.parts] = m.from
  BY <1>1 DEF RendezvousTypeOK, Starts
<1>3. SendAll("round_proposal", m.from, m.parts \ {m.from}, m.session, m.parts) \subseteq msgs'
  BY <1>1 DEF CollectsTruly, Starts, Others, SendAll, Msg
<1>4. \A p \in m.parts \ {m.from} : Msg("round_ack", p, m.from, m.session, {}) \in msgs'
  BY <1>1 DEF CollectsTruly, Starts, Msg
<1>5. tries'[m.from] \in Nat  BY <1>1 DEF RendezvousTypeOK
<1>. QED
  BY <1>1, <1>2, <1>3, <1>4, <1>5 DEF FullyAcked, ByStarting, Starts, SendAll, Msg

LEMMA StartsRightKept ==
  ASSUME RendezvousTypeOK, RendezvousTypeOK', CollectsTruly', StartsRight,
         \A c \in Nodes : GoesOn(c), msgs \subseteq msgs', \A m \in msgs' \ msgs : SentRightly(m)
  PROVE  StartsRight'
<1>. SUFFICES ASSUME NEW m \in msgs', m.type = "round_start"
     PROVE /\ FullyAcked(m.session, m.from, m.parts)'
           /\ ByStarting(m.session, m.parts)'
           /\ \A o \in msgs' : o.type = "round_start" /\ o.session = m.session => o.parts = m.parts
  BY DEF StartsRight
<1>1. \A o \in msgs' \ msgs : o.type = "round_start" => Starts(o)  BY DEF SentRightly
<1>2. CASE m \in msgs
  <2>1. FullyAcked(m.session, m.from, m.parts) /\ ByStarting(m.session, m.parts)
    BY <1>2 DEF StartsRight
  <2>2. m.session \in Session  BY DEF RendezvousTypeOK, Message
  <2>3. \A o \in msgs' : o.type = "round_start" /\ o.session = m.session => o.parts = m.parts
    BY <1>1, <1>2, <2>1, NotStartedAgain DEF StartsRight
  <2>. QED  BY <2>1, <2>2, <2>3, FullyAckedKept, ByStartingKept
<1>3. CASE m \notin msgs
  <2>1. Starts(m)  BY <1>1, <1>3
  <2>2. FullyAcked(m.session, m.from, m.parts)' /\ ByStarting(m.session, m.parts)'
    BY <2>1, StartedRightly DEF Starts
  <2>3. ASSUME NEW o \in msgs', o.type = "round_start", o.session = m.session
        PROVE  o.parts = m.parts
    <3>1. CASE o \in msgs
      <4>1. ByStarting(o.session, o.parts)  BY <2>3, <3>1 DEF StartsRight
      <4>. QED  BY <2>1, <2>3, <4>1, NotStartedAgain
    <3>2. CASE o \notin msgs
      <4>1. Starts(o)  BY <1>1, <2>3, <3>2
      <4>. QED  BY <2>1, <2>3, <4>1 DEF Starts, Own
    <3>. QED  BY <3>1, <3>2
  <2>. QED  BY <2>2, <2>3
<1>. QED  BY <1>2, <1>3

\* The step by which n takes a round as its result.
Takes(n) ==
  /\ n \in Nodes /\ result[n] = None
  /\ \A p \in Nodes \ {n} : result'[p] = result[p]
  /\ msgs' = msgs
  /\ \/ /\ role[n] = "coordinator" /\ n \in starting /\ starting' = starting
        /\ cand' = cand /\ tries' = tries
        /\ result'[n] = [session |-> Own(n), coordinator |-> n, participants |-> cand[n]]
     \/ \E m \in msgs :
          /\ m.type = "round_start" /\ n \in m.parts
          /\ result'[n] = [session |-> m.session, coordinator |-> m.from, participants |-> m.parts]

LEMMA ResultMoves ==
  ASSUME RendezvousTypeOK, RendezvousNext, result' # result
  PROVE  \E n \in Nodes : Takes(n)
<1>1. ASSUME NEW n \in Nodes, StartSent(n)  PROVE Takes(n)
  BY <1>1 DEF StartSent, Agree, Takes, RendezvousTypeOK
<1>2. ASSUME NEW n \in Nodes, NEW m \in msgs, JoinRound(n, m)  PROVE Takes(n)
  BY <1>2 DEF JoinRound, Agree, Takes, RendezvousTypeOK
<1>3. \/ \E n \in Nodes : StartSent(n)
      \/ \E n \in Nodes : \E m \in msgs : JoinRound(n, m)
  BY DEF RendezvousNext, Run, Timeout, Handle, BeginAttempt, SettleWindowEnds, ShrinkSent,
     AckTimeout, ProposalTimeout, Deadline, StartNotSent, Cancel, CollectAck, Yield,
     CoordinatorAborted, Accept, TakeShrink, ParticipantAborted, Fail, Retry
<1>. QED  BY <1>1, <1>2, <1>3

RightResult(n) == LET r == result[n] IN
  /\ n \in r.participants
  /\ FullyAcked(r.session, r.coordinator, r.participants)
  /\ ByStarting(r.session, r.participants)
  /\ \A o \in msgs : o.type = "round_start" /\ o.session = r.session => o.parts = r.participants

LEMMA TakenRightly ==
  ASSUME RendezvousTypeOK, RendezvousTypeOK', CollectsTruly, StartsRight, ResultsRight, NEW n, Takes(n),
         \A c \in Nodes : GoesOn(c)
  PROVE  /\ RightResult(n)'
         /\ \A p \in Nodes : result[p] # None /\ result[p].session = result'[n].session
              => result[p].participants = result'[n].participants
<1>1. CASE /\ role[n] = "coordinator" /\ n \in starting /\ starting' = starting
           /\ cand' = cand /\ tries' = tries
           /\ result'[n] = [session |-> Own(n), coordinator |-> n, participants |-> cand[n]]
  <2>1. /\ n \in Nodes /\ cand[n] \in Sets /\ Elect[cand[n]] = n /\ n \in cand[n]
        /\ Own(n).owner = n /\ Own(n).no = tries[n] /\ tries[n] \in Nat
    BY <1>1 DEF Takes, RendezvousTypeOK, Own
  <2>2. acks[n] = cand[n]  BY <1>1, <2>1 DEF CollectsTruly
  <2>3. FullyAcked(Own(n), n, cand[n])
    BY <1>1, <2>1, <2>2 DEF CollectsTruly, FullyAcked, Others
  <2>4. FullyAcked(Own(n), n, cand[n])'
    BY <1>1, <2>3 DEF Takes, FullyAcked, Own, SendAll, Msg
  <2>5. ByStarting(Own(n), cand[n])  BY <1>1, <2>1 DEF ByStarting
  <2>6. ByStarting(Own(n), cand[n])'  BY <1>1, <2>1, <2>5 DEF ByStarting, Own
  <2>7. Own(n)' = Own(n) /\ cand'[n] = cand[n]  BY <1>1 DEF Own
  <2>8. \A o \in msgs : o.type = "round_start" /\ o.session = Own(n) => o.parts = cand[n]
    BY <2>1 DEF StartsRight, ByStarting
  <2>9. \A p \in Nodes : result[p] # None /\ result[p].session = Own(n)
              => result[p].participants = cand[n]
    BY <2>1 DEF ResultsRight, ByStarting
  <2>. QED  BY <1>1, <2>1, <2>4, <2>6, <2>7, <2>8, <2>9 DEF RightResult, Takes
<1>2. ASSUME NEW m \in msgs, m.type = "round_start", n \in m.parts,
             result'[n] = [session |-> m.session, coordinator |-> m.from, participants |-> m.parts]
      PROVE  /\ RightResult(n)'
             /\ \A p \in Nodes : result[p] # None /\ result[p].session = result'[n].session
                  => result[p].participants = result'[n].participants
  <2>1. FullyAcked(m.session, m.from, m.parts) /\ ByStarting(m.session, m.parts)
        /\ \A o \in msgs : o.type = "round_start" /\ o.session = m.session => o.parts = m.parts
    BY <1>2 DEF StartsRight
  <2>2. m.session \in Session  BY DEF RendezvousTypeOK, Message
  <2>3. FullyAcked(m.session, m.from, m.parts)' /\ ByStarting(m.session, m.parts)'
    BY <2>1, <2>2, FullyAckedKept, ByStartingKept DEF Takes
  <2>4. \A p \in Nodes : result[p] # None /\ result[p].session = m.session
              => result[p].participants = m.parts
    BY <1>2 DEF ResultsRight
  <2>. QED  BY <1>2, <2>1, <2>3, <2>4 DEF RightResult, Takes
<1>. QED  BY <1>1, <1>2 DEF Takes

LEMMA ResultsRightKept ==
  ASSUME RendezvousTypeOK, RendezvousTypeOK', CollectsTruly, StartsRight, ResultsRight,
         RendezvousNext, \A c \in Nodes : GoesOn(c), msgs \subseteq msgs',
         \A m \in msgs' \ msgs : SentRightly(m)
  PROVE  ResultsRight'
<1>1. ASSUME NEW n \in Nodes, result[n] # None, result'[n] = result[n]
      PROVE  RightResult(n)'
  <2>1. /\ n \in result[n].participants
        /\ FullyAcked(result[n].session, result[n].coordinator, result[n].participants)
        /\ ByStarting(result[n].session, result[n].participants)
        /\ \A o \in msgs : o.type = "round_start" /\ o.session = result[n].session
             => o.parts = result[n].participants
    BY <1>1 DEF ResultsRight
  <2>2. result[n].session \in Session  BY <1>1 DEF RendezvousTypeOK, Round
  <2>3. \A o \in msgs' \ msgs : o.type = "round_start" => o.session # result[n].session
    BY <2>1, NotStartedAgain DEF SentRightly
  <2>4. FullyAcked(result[n].session, result[n].coordinator, result[n].participants)'
    BY <1>1, <2>1, FullyAckedKept DEF FullyAcked, SendAll, Msg
  <2>5. ByStarting(result[n].session, result[n].participants)'
    BY <1>1, <2>1, <2>2, ByStartingKept DEF ByStarting, Own
  <2>6. \A o \in msgs' : o.type = "round_start" /\ o.session = result'[n].session
             => o.parts = result'[n].participants
    BY <1>1, <2>1, <2>3
  <2>. QED  BY <1>1, <2>1, <2>4, <2>5, <2>6 DEF RightResult
<1>2. CASE result' = result
  <2>1. \A n \in Nodes : result'[n] # None => RightResult(n)'  BY <1>1, <1>2
  <2>. QED  BY <1>2, <2>1 DEF ResultsRight, RightResult
<1>3. CASE result' # result
  <2>1. PICK k \in Nodes : Takes(k)  BY <1>3, ResultMoves
  <2>2. RightResult(k)'
        /\ \A p \in Nodes : result[p] # None /\ result[p].session = result'[k].session
             => result[p].participants = result'[k].participants
    BY <2>1, TakenRightly
  <2>3. \A n \in Nodes : result'[n] # None => RightResult(n)'
    BY <1>1, <2>1, <2>2 DEF Takes
  <2>4. \A n, p \in Nodes :
          result'[n] # None /\ result'[p] # None /\ result'[n].session = result'[p].session
            => result'[n].participants = result'[p].participants
    BY <2>1, <2>2 DEF Takes, ResultsRight
  <2>. QED  BY <2>3, <2>4 DEF ResultsRight, RightResult
<1>. QED  BY <1>2, <1>3

LEMMA InvInit == RendezvousInit => RendezvousInv
BY TypeInit DEF RendezvousInit, RendezvousInv, SessionsBegun, JoinedSent, CollectsTruly,
   StartsRight, ResultsRight

LEMMA InvStep == RendezvousInv /\ [RendezvousNext]_rendezvousVars => RendezvousInv'
<1>. SUFFICES ASSUME RendezvousInv, [RendezvousNext]_rendezvousVars  PROVE RendezvousInv'
  OBVIOUS
<1>1. RendezvousTypeOK /\ RendezvousTypeOK' /\ SessionsBegun /\ JoinedSent /\ CollectsTruly
      /\ StartsRight /\ ResultsRight
  BY TypeStep DEF RendezvousInv
<1>2. CASE RendezvousNext
  <2>1. \A c \in Nodes : GoesOn(c)  BY <1>1, <1>2, AllGoOn
  <2>2. msgs \subseteq msgs' /\ \A m \in msgs' \ msgs : SentRightly(m)
    BY <1>1, <1>2, AllSentRightly
  <2>3. SessionsBegun'  BY <1>1, <2>1, <2>2, SessionsBegunKept
  <2>4. JoinedSent'  BY <1>1, <1>2, <2>2, JoinedSentKept
  <2>5. CollectsTruly'  BY <1>1, <1>2, <2>1, <2>2, CollectsTrulyKept
  <2>6. StartsRight'  BY <1>1, <2>1, <2>2, <2>5, StartsRightKept
  <2>7. ResultsRight'  BY <1>1, <1>2, <2>1, <2>2, ResultsRightKept
  <2>. QED  BY <1>1, <2>3, <2>4, <2>5, <2>6, <2>7 DEF RendezvousInv
<1>3. CASE UNCHANGED rendezvousVars
  <2>1. UNCHANGED <<role, cand, tries, acks, starting, joined, result, msgs>>
    BY <1>3 DEF rendezvousVars, local
  <2>2. \A n, c, s, S : Own(n)' = Own(n) /\ (ByStarting(s, S) <=> ByStarting(s, S)')
                        /\ (FullyAcked(s, c, S) <=> FullyAcked(s, c, S)')
    BY <2>1 DEF Own, ByStarting, FullyAcked, SendAll, Msg
  <2>3. SessionsBegun' /\ JoinedSent'  BY <1>1, <2>1 DEF SessionsBegun, JoinedSent
  <2>4. CollectsTruly'  BY <1>1, <2>1, <2>2 DEF CollectsTruly, Others, SendAll, Msg
  <2>5. StartsRight'  BY <1>1, <2>1, <2>2 DEF StartsRight
  <2>6. ResultsRight'  BY <1>1, <2>1, <2>2 DEF ResultsRight
  <2>. QED  BY <1>1, <2>3, <2>4, <2>5, <2>6 DEF RendezvousInv
<1>. QED  BY <1>2, <1>3

\* The parts of the invariant hold together in every state of a negotiation:
\* sessions are fresh, starts are fully acknowledged, results say what starts said.
THEOREM InvHolds == RendezvousSpec => []RendezvousInv
BY InvInit, InvStep, PTL DEF RendezvousSpec

-----------------------------------------------------------------------------
(* Theorems *)

\* Whoever leaves negotiateFusionRound with a round holds one that its elected
\* coordinator offered to every member and every member acknowledged, whatever
\* messages were late, repeated or lost and however views differed.
THEOREM RoundsAreFullyAcked == RendezvousSpec => []StartedByFullAck
<1>1. RendezvousInv => StartedByFullAck
  BY DEF RendezvousInv, ResultsRight, FullyAcked, StartedByFullAck
<1>. QED  BY <1>1, InvHolds, PTL

\* Two wallets that leave it with the same session hold the same round: the
\* retries and shrinks of one coordinator never put two sets under one session.
THEOREM SessionsAgree == RendezvousSpec => []SessionAgreement
<1>1. ASSUME RendezvousInv, NEW n \in Nodes, NEW p \in Nodes,
             result[n] # None, result[p] # None, result[n].session = result[p].session
      PROVE  result[n] = result[p]
  <2>1. result[n] \in Round /\ result[p] \in Round
    BY <1>1 DEF RendezvousInv, RendezvousTypeOK
  <2>2. result[n].participants = result[p].participants
        /\ result[n].coordinator = result[n].session.owner
        /\ result[p].coordinator = result[p].session.owner
    BY <1>1 DEF RendezvousInv, ResultsRight, FullyAcked
  <2>. QED  BY <1>1, <2>1, <2>2 DEF Round
<1>2. RendezvousInv => SessionAgreement  BY <1>1 DEF SessionAgreement
<1>. QED  BY <1>2, InvHolds, PTL
=============================================================================
