------------------------- MODULE FusionRendezvous -------------------------
(***************************************************************************)
(* How the wallets that found each other in the pool agree on one round,   *)
(* src/platform/desktop/nostr/fusionRendezvous.ts: the elected coordinator *)
(* proposes a session to its candidates, each of them acknowledges, and    *)
(* the coordinator starts the round when all have.  A silent coordinator   *)
(* is dropped, a silent participant is left out by shrinking to the        *)
(* acknowledged remainder, and a proposal that outranks one's own is       *)
(* yielded to.                                                             *)
(*                                                                         *)
(* Messages.  msgs is the set of messages sent.  A node may handle any of  *)
(* them at any time, late, out of order, again (proposals and ACKs are     *)
(* re-sent), or never.  Network, tier and epoch are the same for all.      *)
(***************************************************************************)
EXTENDS Integers, FiniteSets

CONSTANTS
  Nodes,      \* round keys of the wallets; a new round attempt has a new key
  MinSafe,    \* minSafePlayers
  Elect,      \* electCoordinator: the lowest ticket of a set, bound to the whole set
  MaxTries,   \* bound: attempts of one negotiateFusionRound
  Faults,     \* TRUE: timers may run out before messages come, sends fail, users cancel
  None

Sets == {S \in SUBSET Nodes : Cardinality(S) >= MinSafe}

ASSUME RendezvousAssumption ==
  /\ IsFiniteSet(Nodes)
  /\ MinSafe \in Nat \ {0} /\ MaxTries \in Nat
  /\ Faults \in BOOLEAN
  /\ Elect \in [Sets -> Nodes] /\ \A S \in Sets : Elect[S] \in S

VARIABLES
  role,      \* role[n]: "between" attempts, "coordinator", "participant", "agreed", "failed"
  cand,      \* cand[n]: the candidates of n, with n
  tries,     \* tries[n]: attempts n has finished
  acks,      \* acks[n]: who acknowledged the own proposal of n, with n
  settled,   \* coordinators whose settle window has passed
  starting,  \* coordinators that are sending round_start
  shrink,    \* shrink[n]: the remainder n is sending round_shrink to, or None
  joined,    \* joined[n]: the proposal n accepted or yielded to, or None
  expected,  \* expected[n]: the coordinator a participant waits for
  remainder, \* remainder[n]: the set a participant was shrunk to, or None
  result,    \* result[n]: the negotiated round, or None
  msgs

local == <<role, cand, tries, acks, settled, starting, shrink, joined, expected, remainder, result>>
rendezvousVars == <<local, msgs>>

Session == [owner : Nodes, no : 0..MaxTries]
Round == [session : Session, coordinator : Nodes, participants : SUBSET Nodes]

Kinds == {"round_proposal", "round_ack", "round_start", "round_shrink", "abort"}
Message == [type : Kinds, from : Nodes, to : Nodes, session : Session, parts : SUBSET Nodes]

ASSUME NoneAssumption ==
  /\ \A S \in SUBSET Nodes : S # None
  /\ \A r \in Round : r # None
  /\ \A m \in Message : m # None

\* A message, with the set it names ({} for those that name none).
Msg(type, from, to, session, parts) ==
  [type |-> type, from |-> from, to |-> to, session |-> session, parts |-> parts]

SendAll(type, from, dests, session, parts) ==
  {Msg(type, from, to, session, parts) : to \in dests}

Own(n) == [owner |-> n, no |-> tries[n]]
Others(n) == cand[n] \ {n}
Open == {"coordinator", "participant"}

RendezvousTypeOK ==
  /\ role \in [Nodes -> Open \cup {"between", "agreed", "failed"}]
  /\ cand \in [Nodes -> SUBSET Nodes]
  /\ tries \in [Nodes -> 0..MaxTries]
  /\ acks \in [Nodes -> SUBSET Nodes]
  /\ settled \subseteq Nodes /\ starting \subseteq Nodes
  /\ shrink \in [Nodes -> (SUBSET Nodes) \cup {None}]
  /\ joined \in [Nodes -> Message \cup {None}]
  /\ expected \in [Nodes -> Nodes]
  /\ remainder \in [Nodes -> (SUBSET Nodes) \cup {None}]
  /\ result \in [Nodes -> Round \cup {None}]
  /\ msgs \subseteq Message
  \* only a coordinator collects, and only for the set it proposed
  /\ \A n \in Nodes :
       /\ n \in cand[n]
       /\ role[n] \in Open =>
            tries[n] < MaxTries /\ cand[n] \in Sets /\ (role[n] = "coordinator" <=> Elect[cand[n]] = n)
       /\ role[n] = "coordinator" => n \in acks[n] /\ acks[n] \subseteq cand[n]
       /\ shrink[n] # None => n \in shrink[n]
       /\ role[n] = "agreed" <=> result[n] # None

RendezvousInit ==
  /\ role = [n \in Nodes |-> "between"]
  /\ cand \in [Nodes -> Sets] /\ \A n \in Nodes : n \in cand[n]
  /\ tries = [n \in Nodes |-> 0]
  /\ acks = [n \in Nodes |-> {}]
  /\ settled = {} /\ starting = {}
  /\ shrink = [n \in Nodes |-> None]
  /\ joined = [n \in Nodes |-> None]
  /\ expected = [n \in Nodes |-> n]
  /\ remainder = [n \in Nodes |-> None]
  /\ result = [n \in Nodes |-> None]
  /\ msgs = {}

-----------------------------------------------------------------------------
\* Both sides compare the same union, so both get the same answer.
outranks(from, theirs, mine) == theirs \cup mine \in Sets /\ Elect[theirs \cup mine] = from

validProposal(n, m) ==
  /\ m.type = "round_proposal" /\ m.to = n
  /\ m.parts \in Sets /\ n \in m.parts /\ Elect[m.parts] = m.from

\* The proposal of a round n is in, and messages about that round.
FromJoined(n, m) ==
  joined[n] # None /\ m.from = joined[n].from /\ m.session = joined[n].session

\* Where a new attempt of n begins.
Retry(n, set) ==
  /\ role' = [role EXCEPT ![n] = "between"]
  /\ cand' = [cand EXCEPT ![n] = set]
  /\ tries' = [tries EXCEPT ![n] = @ + 1]
  /\ settled' = settled \ {n} /\ starting' = starting \ {n}
  /\ shrink' = [shrink EXCEPT ![n] = None]
  /\ joined' = [joined EXCEPT ![n] = None]
  /\ remainder' = [remainder EXCEPT ![n] = None]
  /\ UNCHANGED <<acks, expected, result, msgs>>

Fail(n, sent) ==
  /\ role' = [role EXCEPT ![n] = "failed"]
  /\ msgs' = msgs \cup sent
  /\ UNCHANGED <<cand, tries, acks, settled, starting, shrink, joined, expected, remainder, result>>

Agree(n, session, coordinator, parts) ==
  /\ role' = [role EXCEPT ![n] = "agreed"]
  /\ result' = [result EXCEPT ![n] =
       [session |-> session, coordinator |-> coordinator, participants |-> parts]]
  /\ UNCHANGED <<cand, tries, acks, settled, starting, shrink, joined, expected, remainder, msgs>>

\* finishError tells the coordinator it yielded to, or its own candidates.
AbortNotes(n) ==
  IF joined[n] # None
  THEN SendAll("abort", n, {joined[n].from}, joined[n].session, {})
  ELSE SendAll("abort", n, Others(n), Own(n), {})

-----------------------------------------------------------------------------
(* One attempt of the loop in negotiateFusionRound. *)

\* The acknowledgments of the attempt before count for the new one.
BeginAttempt_keepsAcks(n) ==
  /\ role[n] = "between" /\ cand[n] \in Sets /\ tries[n] < MaxTries
  /\ expected' = [expected EXCEPT ![n] = Elect[cand[n]]]
  /\ acks' = [acks EXCEPT ![n] = @ \cup {n}]
  /\ IF Elect[cand[n]] = n
     THEN /\ role' = [role EXCEPT ![n] = "coordinator"]
          /\ msgs' = msgs \cup SendAll("round_proposal", n, Others(n), Own(n), cand[n])
     ELSE role' = [role EXCEPT ![n] = "participant"] /\ msgs' = msgs
  /\ UNCHANGED <<cand, tries, settled, starting, shrink, joined, remainder, result>>

BeginAttempt(n) ==
  /\ role[n] = "between"
  /\ IF cand[n] \notin Sets \/ tries[n] = MaxTries
     THEN Fail(n, {})
     ELSE LET c == Elect[cand[n]] IN
       /\ expected' = [expected EXCEPT ![n] = c]
       /\ acks' = [acks EXCEPT ![n] = {n}]
       /\ IF c = n
          THEN /\ role' = [role EXCEPT ![n] = "coordinator"]
               /\ msgs' = msgs \cup SendAll("round_proposal", n, Others(n), Own(n), cand[n])
          ELSE role' = [role EXCEPT ![n] = "participant"] /\ msgs' = msgs
       /\ UNCHANGED <<cand, tries, settled, starting, shrink, joined, remainder, result>>

-----------------------------------------------------------------------------
(* negotiateAsCoordinator *)

\* startOwnRound, once the acknowledgments are those of set.
startOwnRound_partial(n, set) ==
  IF joined[n] = None /\ n \notin starting /\ set \in Sets
  THEN /\ starting' = starting \cup {n}
       /\ msgs' = msgs \cup SendAll("round_start", n, set \ {n}, Own(n), set)
  ELSE UNCHANGED <<starting, msgs>>

startOwnRound(n, set) ==
  IF joined[n] = None /\ n \notin starting /\ set = cand[n]
  THEN /\ starting' = starting \cup {n}
       /\ msgs' = msgs \cup SendAll("round_start", n, Others(n), Own(n), set)
  ELSE UNCHANGED <<starting, msgs>>

SettleWindowEnds(n) ==
  /\ role[n] = "coordinator" /\ n \notin settled /\ joined[n] = None
  /\ settled' = settled \cup {n}
  /\ startOwnRound(n, acks[n])
  /\ UNCHANGED <<role, cand, tries, acks, shrink, joined, expected, remainder, result>>

CollectAck(n, m) ==
  /\ role[n] = "coordinator" /\ joined[n] = None
  /\ m.type = "round_ack" /\ m.to = n /\ m.session = Own(n) /\ m.from \in Others(n)
  /\ m.from \notin acks[n]
  /\ acks' = [acks EXCEPT ![n] = @ \cup {m.from}]
  /\ IF n \in settled THEN startOwnRound(n, acks'[n]) ELSE UNCHANGED <<starting, msgs>>
  /\ UNCHANGED <<role, cand, tries, settled, shrink, joined, expected, remainder, result>>

\* Every send of round_start succeeded.
StartSent(n) ==
  /\ role[n] = "coordinator" /\ n \in starting
  /\ Agree(n, Own(n), n, cand[n])

StartNotSent(n) ==
  /\ Faults /\ role[n] = "coordinator" /\ n \in starting
  /\ Fail(n, AbortNotes(n))

\* A better proposal: acknowledge it and stop collecting.  (Not asked: is this
\* round already starting, or shrinking?)
Yield(n, m) ==
  /\ role[n] = "coordinator" /\ validProposal(n, m)
  /\ outranks(m.from, m.parts, cand[n])
  /\ joined[n] # None => m.from # joined[n].from /\ outranks(m.from, m.parts, joined[n].parts)
  /\ \/ /\ joined' = [joined EXCEPT ![n] = m]
        /\ msgs' = msgs \cup {Msg("round_ack", n, m.from, m.session, {})}
        /\ UNCHANGED <<role, cand, tries, acks, settled, starting, shrink, expected, remainder, result>>
     \/ Faults /\ Fail(n, {})

CoordinatorAborted(n, m) ==
  /\ role[n] = "coordinator"
  /\ m.type = "abort" /\ m.to = n /\ FromJoined(n, m)
  /\ Fail(n, {})

\* A timer that can only shrink.
AckTimeout_noGiveUp(n) ==
  /\ Faults /\ role[n] = "coordinator"
  /\ n \notin starting /\ joined[n] = None /\ shrink[n] = None /\ acks[n] # cand[n]
  /\ acks[n] \in Sets
  /\ shrink' = [shrink EXCEPT ![n] = acks[n]]
  /\ msgs' = msgs \cup SendAll("round_shrink", n, acks[n] \ {n}, Own(n), acks[n])
                  \cup SendAll("abort", n, cand[n] \ acks[n], Own(n), {})
  /\ UNCHANGED <<role, cand, tries, acks, settled, starting, joined, expected, remainder, result>>

\* The acknowledgment timer: shrink to those who answered, or give up.
AckTimeout(n) ==
  /\ Faults /\ role[n] = "coordinator"
  /\ n \notin starting /\ joined[n] = None /\ shrink[n] = None /\ acks[n] # cand[n]
  /\ IF acks[n] \in Sets
     THEN /\ shrink' = [shrink EXCEPT ![n] = acks[n]]
          /\ msgs' = msgs \cup SendAll("round_shrink", n, acks[n] \ {n}, Own(n), acks[n])
                          \cup SendAll("abort", n, cand[n] \ acks[n], Own(n), {})
          /\ UNCHANGED <<role, cand, tries, acks, settled, starting, joined, expected, remainder, result>>
     ELSE Fail(n, AbortNotes(n))

\* All sends of the shrink have ended: leave the attempt with the remainder.
ShrinkSent(n) ==
  /\ role[n] = "coordinator" /\ shrink[n] # None
  /\ Retry(n, shrink[n])

-----------------------------------------------------------------------------
(* negotiateAsParticipant *)

WaitsFor(n) == IF joined[n] = None THEN expected[n] ELSE joined[n].from

Accept(n, m) ==
  /\ role[n] = "participant" /\ validProposal(n, m)
  /\ remainder[n] # None => m.parts = remainder[n]
  /\ IF joined[n] = None
     THEN m.from = expected[n] \/ outranks(m.from, m.parts, cand[n])
     ELSE m.from # joined[n].from /\ outranks(m.from, m.parts, joined[n].parts)
  /\ joined' = [joined EXCEPT ![n] = m]
  /\ msgs' = msgs \cup {Msg("round_ack", n, m.from, m.session, {})}
  /\ UNCHANGED <<role, cand, tries, acks, settled, starting, shrink, expected, remainder, result>>

\* round_start, from the coordinator a participant accepted or a coordinator
\* yielded to; the set it names is taken as it is.
JoinRound_anySession(n, m) ==
  /\ role[n] \in Open
  /\ m.type = "round_start" /\ m.to = n /\ joined[n] # None /\ m.from = joined[n].from
  /\ n \in m.parts
  /\ Agree(n, joined[n].session, m.from, m.parts)

JoinRound(n, m) ==
  /\ role[n] \in Open
  /\ m.type = "round_start" /\ m.to = n /\ FromJoined(n, m)
  /\ n \in m.parts
  /\ Agree(n, m.session, m.from, m.parts)

\* round_shrink names no session the participant compares.
TakeShrink(n, m) ==
  /\ role[n] = "participant"
  /\ m.type = "round_shrink" /\ m.to = n /\ m.from = WaitsFor(n)
  /\ LET previous == IF joined[n] = None THEN cand[n] ELSE joined[n].parts IN
     /\ m.parts \in Sets /\ n \in m.parts
     /\ m.parts \subseteq previous /\ m.parts # previous
  /\ IF Elect[m.parts] = n
     THEN Retry(n, m.parts)
     ELSE /\ remainder' = [remainder EXCEPT ![n] = m.parts]
          /\ expected' = [expected EXCEPT ![n] = Elect[m.parts]]
          /\ joined' = [joined EXCEPT ![n] = None]
          /\ UNCHANGED <<role, cand, tries, acks, settled, starting, shrink, result, msgs>>

ParticipantAborted(n, m) ==
  /\ role[n] = "participant"
  /\ m.type = "abort" /\ m.to = n /\ m.from = WaitsFor(n)
  /\ joined[n] # None => m.session = joined[n].session
  /\ Fail(n, {})

\* No proposal came: the coordinator is a ghost, elect among the others.
ProposalTimeout(n) ==
  /\ Faults /\ role[n] = "participant" /\ joined[n] = None /\ remainder[n] = None
  /\ Retry(n, cand[n] \ {Elect[cand[n]]})

\* The budget of the whole negotiation is used up.
Deadline(n) ==
  /\ Faults /\ (role[n] = "participant" \/ (role[n] = "between" /\ tries[n] > 0))
  /\ Fail(n, {})

\* The caller's signal: a coordinator tells the others.
Cancel(n) ==
  /\ Faults /\ role[n] \in Open
  /\ Fail(n, IF role[n] = "coordinator" THEN AbortNotes(n) ELSE {})

Handle(n, m) ==
  \/ CollectAck(n, m) \/ Yield(n, m) \/ CoordinatorAborted(n, m)
  \/ Accept(n, m) \/ JoinRound(n, m) \/ TakeShrink(n, m) \/ ParticipantAborted(n, m)

Run(n) == BeginAttempt(n) \/ SettleWindowEnds(n) \/ StartSent(n) \/ ShrinkSent(n)
Timeout(n) == AckTimeout(n) \/ ProposalTimeout(n) \/ Deadline(n)

RendezvousNext ==
  \E n \in Nodes :
    \/ Run(n) \/ Timeout(n) \/ StartNotSent(n) \/ Cancel(n)
    \/ \E m \in msgs : Handle(n, m)

RendezvousSpec == RendezvousInit /\ [][RendezvousNext]_rendezvousVars

\* Timers run out and finished sends go on; no message need ever arrive.
TimersFair == \A n \in Nodes : WF_rendezvousVars(Run(n)) /\ WF_rendezvousVars(Timeout(n))

RendezvousLossySpec == RendezvousSpec /\ TimersFair
-----------------------------------------------------------------------------
(* Properties *)

\* "The proposed set is the round": who holds a negotiated round holds one
\* that its coordinator, elected by the whole set, proposed to all of it, and
\* that every other member acknowledged; it is in the set, and the set is not
\* below the floor.
StartedByFullAck ==
  \A n \in Nodes : result[n] # None =>
    LET r == result[n]
        others == r.participants \ {r.coordinator} IN
    /\ n \in r.participants /\ r.participants \in Sets
    /\ Elect[r.participants] = r.coordinator
    /\ SendAll("round_proposal", r.coordinator, others, r.session, r.participants) \subseteq msgs
    /\ \A p \in others : Msg("round_ack", p, r.coordinator, r.session, {}) \in msgs

\* Two wallets that leave the negotiation with the same session mean the same
\* round: late and repeated messages of earlier attempts of the same
\* coordinator do not mix two sets under one session.
SessionAgreement ==
  \A n, p \in Nodes :
    result[n] # None /\ result[p] # None /\ result[n].session = result[p].session
      => result[n] = result[p]

\* "Full ACK or abort+retry together": a coordinator does not both shrink a
\* session and start it.
OneVerdictPerSession ==
  \A m, o \in msgs :
    m.type = "round_start" /\ o.type = "round_shrink" => m.session # o.session

Ended(n) == role[n] \in {"agreed", "failed"}

\* Every negotiation ends, whatever is lost (the rendezvous timeout).
EveryNegotiationEnds == \A n \in Nodes : <>Ended(n)

\* Whatever is lost, a wallet is left waiting only where it yielded its own round.
OnlyAYieldedOneWaits ==
  \A n \in Nodes : <>(Ended(n) \/ (role[n] = "coordinator" /\ joined[n] # None))
=============================================================================
