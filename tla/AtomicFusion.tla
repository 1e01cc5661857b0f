---------------------------- MODULE AtomicFusion ----------------------------
(***************************************************************************)
(* What a P2P round promises its parties: the joint transaction is handed  *)
(* to the network once, by the leader, with the signatures of all of them; *)
(* from then on only the answer of the network decides the leader's        *)
(* verdict, and the others accept after the leader has.  Until it accepts, *)
(* a party may give up on its own.                                         *)
(***************************************************************************)
CONSTANTS Parties, Leader

VARIABLES
  given,     \* the parties whose signatures left them
  handed,    \* "no", "busy" while the network is asked, "done" when it answered
  live,      \* the network has the transaction
  verdict    \* verdict[p]: "open", "fused" or "failed"

atomicVars == <<given, handed, live, verdict>>

AtomicInit ==
  /\ given = {} /\ handed = "no" /\ live = FALSE
  /\ verdict = [p \in Parties |-> "open"]

Give(p) == given' = given \cup {p} /\ UNCHANGED <<handed, live, verdict>>

HandOver ==
  /\ given = Parties /\ handed = "no" /\ verdict[Leader] = "open"
  /\ handed' = "busy" /\ UNCHANGED <<given, live, verdict>>

Answer ==
  /\ handed = "busy" /\ handed' = "done"
  /\ live' \in {live, TRUE}
  /\ \E v \in {"fused", "failed"} : verdict' = [verdict EXCEPT ![Leader] = v]
  /\ UNCHANGED given

Accept(p) ==
  /\ verdict[p] = "open" /\ verdict[Leader] = "fused"
  /\ verdict' = [verdict EXCEPT ![p] = "fused"] /\ UNCHANGED <<given, handed, live>>

Reject(p) ==
  /\ verdict[p] = "open" /\ (p = Leader => handed = "no")
  /\ verdict' = [verdict EXCEPT ![p] = "failed"] /\ UNCHANGED <<given, handed, live>>

\* A party that accepted gives the transaction to the network once more.
Relay(p) ==
  /\ verdict[p] = "fused"
  /\ live' = TRUE /\ UNCHANGED <<given, handed, verdict>>

AtomicNext ==
  \/ HandOver \/ Answer
  \/ \E p \in Parties : Give(p) \/ Accept(p) \/ Reject(p) \/ Relay(p)

AtomicSpec == AtomicInit /\ [][AtomicNext]_atomicVars
=============================================================================
