----------------------- MODULE ElectrumServer_proofs -----------------------
(***************************************************************************)
(* Proofs about ElectrumServer for any calls, networks, batches, servers   *)
(* and sockets.                                                            *)
(***************************************************************************)
EXTENDS ElectrumServer, TLAPS

-----------------------------------------------------------------------------
(* The inductive invariant. *)

Goals == {"connect", "ping", "first", "second", "rest"}

\* The stages of a call that has read a network.
Bound == Waits \cup {"asked", "drop", "dropOther"}

TypeInv ==
  /\ electrum \in Clients \cup {None} /\ connectPromise \in Calls \cup {None}
  /\ activeSubs \subseteq Items /\ net \in Networks /\ backoff \in BOOLEAN /\ idle \in BOOLEAN
  /\ at \in [Calls -> Stages] /\ goal \in [Calls -> Goals]
  /\ network \in [Calls -> Networks \cup {None}]
  /\ on \in [Calls -> Calls \cup Clients \cup {None}]
  /\ good \in [Calls -> BOOLEAN] /\ got \in [Calls -> SUBSET Items]
  /\ resumes \subseteq Calls /\ replayed \subseteq Calls
  /\ dial \in [Calls -> {"none", "dialling", "replaying"}]
  /\ hosts \in [Calls -> Nat] /\ client \in [Calls -> Clients \cup {None}]
  /\ sock \in [Clients -> {"closed", "dialling", "open"}]
  /\ heard \subseteq Clients /\ served \in [Clients -> SUBSET Items] /\ abandoned \subseteq Clients
  /\ crossed \subseteq Calls /\ overlapped \in BOOLEAN /\ split \in BOOLEAN

\* A network that call c may hold to be its own.
Read(c, n) == n \in Networks /\ (n = getNetwork(c) \/ c \in crossed)

\* What a call awaits is there, and what it carries along is of a divided batch.
CallInv == \A c \in Calls :
  /\ at[c] \in Waits => on[c] \in Calls
  /\ at[c] \in Dropping \cup {"asked"} => on[c] \in Clients
  /\ c \in resumes => at[c] \in Dropping \cup Waits \cup {"asked"}
  /\ at[c] \in Waits => dial[on[c]] # IF c \in resumes THEN "replaying" ELSE "none"
  /\ goal[c] = "rest" => split
  /\ at[c] # "asked" \/ goal[c] = "ping" => got[c] = {} \/ goal[c] = "rest"

\* Its network is that of the store while nothing crossed it, and that of the
\* connect promise it shares.
NetInv == \A c \in Calls :
  /\ at[c] \in Bound => Read(c, network[c])
  /\ at[c] = "wait" /\ c \notin resumes => network[c] = network[on[c]]

\* A connect promise that runs is awaited by its own call.
DialInv ==
  /\ connectPromise # None => dial[connectPromise] # "none"
  /\ \A a \in Calls :
       /\ dial[a] # "none" => at[a] = "wait" /\ on[a] = a /\ a \notin resumes
       /\ dial[a] = "none" => client[a] = None
       /\ dial[a] = "replaying" => client[a] # None
       /\ client[a] # None => home[client[a]] = network[a]

\* A client that is dialled is known to its connect promise only, an abandoned
\* one to nobody.
FreshInv ==
  /\ \A a \in Calls : dial[a] = "dialling" /\ client[a] # None =>
       /\ sock[client[a]] = "dialling" /\ electrum # client[a]
       /\ \A c \in Calls : on[c] # client[a] /\ (c # a => client[c] # client[a])
  /\ \A k \in abandoned :
       /\ sock[k] # "closed" /\ electrum # k
       /\ \A c \in Calls : on[c] # k /\ client[c] # k

\* While a call disconnects a client no other one becomes the shared client.
DropInv == \A c \in Calls : at[c] \in Dropping =>
  /\ electrum \in {None, on[c]}
  /\ c \in resumes => sock[on[c]] # "open"

\* There is no shared client beside the one that is dialled, and a request
\* that may be answered was asked of the shared client.
AloneInv ==
  /\ \A a \in Calls :
       /\ dial[a] # "none" => connectPromise = a
       /\ dial[a] = "dialling" => electrum = None
       /\ dial[a] = "replaying" => electrum \in {None, client[a]}
  /\ \A c \in resumes : at[c] = "wait" /\ good[c] =>
       electrum = None \/ home[electrum] = network[c]
  /\ \A c \in Calls : at[c] = "asked" =>
       /\ home[on[c]] = network[c]
       /\ sock[on[c]] = "open" => on[c] = electrum
       /\ c \in resumes => electrum = None \/ sock[electrum] # "open"

\* The members that a batch has are subscribed where its request goes on.
SubsInv == \A c \in Keeps :
  at[c] = "asked" /\ sock[on[c]] = "open" => got[c] \subseteq served[on[c]]

HeldInv == \A k \in Clients \ abandoned : sock[k] = "open" => Held(k)

Alone == overlapped \/ (AloneInv /\ HeldInv)
Undivided == overlapped \/ split \/ (SubsInv /\ SubsReplayed)

ElectrumInv ==
  /\ TypeInv /\ CallInv /\ NetInv /\ DialInv /\ FreshInv /\ DropInv
  /\ Alone /\ Undivided

-----------------------------------------------------------------------------
(* A call's turn: what the code between two awaits of one call does. *)

\* What its turn leaves to the others.
TurnFrame(c) ==
  /\ dial[c] = "none" /\ net' = net /\ abandoned' = abandoned
  /\ at[c] \in Dropping \cup Waits => c \in resumes
  /\ resumes' = resumes \ {c} /\ replayed' = replayed
  /\ electrum' = electrum \/ (electrum' = None /\ at[c] \in Dropping)
  /\ backoff' \in BOOLEAN /\ idle' \in BOOLEAN /\ split' \in BOOLEAN /\ (split => split')
  /\ good' \in [Calls -> BOOLEAN] /\ \A d \in Calls \ {c} : good'[d] = good[d]

\* The members that a call takes along to its next stage.
Carried(c, g) ==
  /\ g \in Goals /\ (g = "rest" => split')
  /\ got[c] = {} \/ g \in {"second", "rest"}

EndTurn(c) == \E m \in SUBSET Items :
  /\ End(c, m)
  /\ overlapped \/ split' \/ m = {} \/ electrum' = None \/ sock[electrum'] # "open"
AskTurn(c) == \E g \in Goals, n \in Networks :
  /\ Ask(c, g, n) /\ Carried(c, g) /\ Read(c, n)
  /\ electrum # None /\ electrum' = electrum
  /\ overlapped \/ home[electrum] = n
DropTurn(c) == \E g \in Goals, what \in Dropping, n \in Networks \cup {None} :
  /\ Drop(c, what, g, n) /\ Carried(c, g) /\ (what = "close" \/ Read(c, n))
  /\ electrum # None /\ electrum' = electrum
JoinTurn(c) == \E g \in Goals, n \in Networks :
  Join(c, g, n) /\ Carried(c, g) /\ Read(c, n) /\ connectPromise # None /\ electrum' = None
CreateTurn(c) == \E g \in Goals, n \in Networks :
  Create(c, g, n) /\ Carried(c, g) /\ Read(c, n) /\ electrum' = None

Turn(c) == EndTurn(c) \/ AskTurn(c) \/ DropTurn(c) \/ JoinTurn(c) \/ CreateTurn(c)

USE DEF Stages, Dropping, Waits, Bound, Goals

LEMMA GetsNetwork ==
  ASSUME TypeInv, NEW c \in Calls
  PROVE  getNetwork(c) \in Networks /\ Read(c, getNetwork(c))
BY ElectrumAssumption DEF TypeInv, getNetwork, Read

LEMMA ConnectTurns ==
  ASSUME TypeInv, NEW c \in Calls, NEW g \in Goals, Carried(c, g), electrum' = None, Connect(c, g)
  PROVE  Turn(c)
<1> DEFINE n == getNetwork(c)
<1>0. n \in Networks /\ Read(c, n)
  BY GetsNetwork
<1>1. CASE Throw(c, g)
  <2> DEFINE m == IF g = "rest" THEN got[c] ELSE {}
  <2>1. m \in SUBSET Items /\ End(c, m)
    BY <1>1 DEF TypeInv, Throw
  <2> QED BY <2>1 DEF Turn, EndTurn
<1>2. CASE connectPromise # None /\ Join(c, g, n)
  BY <1>0, <1>2 DEF Turn, JoinTurn
<1>3. CASE Create(c, g, n)
  BY <1>0, <1>3 DEF Turn, CreateTurn
<1> QED BY <1>1, <1>2, <1>3 DEF Connect

LEMMA ThrowTurns ==
  ASSUME TypeInv, NEW c \in Calls, NEW g \in Goals, Carried(c, g), Throw(c, g)
  PROVE  Turn(c)
<1> DEFINE m == IF g = "rest" THEN got[c] ELSE {}
<1>1. m \in SUBSET Items /\ End(c, m)
  BY DEF TypeInv, Throw
<1>2. split' \/ m = {}
  BY DEF Carried
<1> QED BY <1>1, <1>2 DEF Turn, EndTurn

LEMMA FreshTurns ==
  ASSUME TypeInv, NEW c \in Calls, Carried(c, "first"), electrum' = electrum, ensureFresh(c)
  PROVE  Turn(c)
<1> DEFINE n == getNetwork(c)
<1>0. n \in Networks /\ Read(c, n)
  BY GetsNetwork
<1>1. Carried(c, "ping")
  BY DEF Carried
<1>2. CASE electrum # None /\ home[electrum] = n /\ Ask(c, IF idle THEN "ping" ELSE "first", n)
  <2> DEFINE g == IF idle THEN "ping" ELSE "first"
  <2>1. g \in Goals /\ Carried(c, g) /\ Ask(c, g, n)
    BY <1>1, <1>2
  <2> QED BY <1>0, <1>2, <2>1 DEF Turn, AskTurn
<1>3. CASE electrum # None /\ Drop(c, "drop", "first", n)
  BY <1>0, <1>3 DEF Turn, DropTurn
<1>4. CASE electrum = None /\ Connect(c, "first")
  BY <1>4, ConnectTurns
<1> QED BY <1>2, <1>3, <1>4 DEF ensureFresh

LEMMA UseTurns ==
  ASSUME TypeInv, NEW c \in Calls, NEW g \in Goals, NEW n, Read(c, n), Carried(c, g),
         electrum' = electrum, Use(c, g, n),
         g = "connect" \/ overlapped \/ electrum = None \/ home[electrum] = n
  PROVE  Turn(c)
<1>1. CASE g = "connect"
  <2>1. Carried(c, "first") /\ ensureFresh(c)
    BY <1>1 DEF Carried, Use
  <2> QED BY <2>1, FreshTurns
<1>2. CASE g # "connect" /\ electrum # None
  BY <1>2 DEF Use, Turn, AskTurn, Read
<1>3. CASE g # "connect" /\ electrum = None
  <2>1. Connect(c, "second") \/ Throw(c, g)
    BY <1>3 DEF Use
  <2>2. Carried(c, "second")
    BY DEF Carried
  <2> QED BY <1>3, <2>1, <2>2, ConnectTurns, ThrowTurns
<1> QED BY <1>1, <1>2, <1>3

LEMMA AgainTurns ==
  ASSUME TypeInv, NEW c \in Calls, NEW g \in Goals, Carried(c, g), electrum' = electrum, Again(c, g)
  PROVE  Turn(c)
BY ConnectTurns, GetsNetwork DEF Again, Turn, DropTurn

\* What a call has before its turn.
LEMMA HasCarried ==
  ASSUME TypeInv, CallInv, NEW c \in Calls, at[c] # "asked" \/ goal[c] = "ping", split => split'
  PROVE  goal[c] \in Goals /\ Carried(c, goal[c])
BY DEF TypeInv, CallInv, Carried

CallStep(c) == Start(c) \/ Dropped(c) \/ Woken(c) \/ Pong(c) \/ Timeout(c) \/ Lost(c)

LEMMA StepFrame ==
  ASSUME ElectrumInv, NEW c \in Calls, CallStep(c)
  PROVE  TurnFrame(c)
<1> USE DEF ElectrumInv
<1>1. dial[c] = "none"
  BY DEF DialInv, CallStep, Start, Dropped, Woken, Pong, Timeout, Lost
<1>2. CASE Start(c) \/ Pong(c) \/ Timeout(c)
  BY <1>1, <1>2 DEF TypeInv, TurnFrame, Start, Pong, Timeout, Quiet
<1>3. CASE Dropped(c) \/ Lost(c)
  BY <1>1, <1>3 DEF TypeInv, TurnFrame, Dropped, Lost
<1>4. CASE Woken(c)
  BY <1>1, <1>4 DEF TypeInv, TurnFrame, Woken
<1> QED BY <1>2, <1>3, <1>4 DEF CallStep

LEMMA StartTurns ==
  ASSUME ElectrumInv, NEW c \in Calls, Start(c)
  PROVE  Turn(c)
<1> USE DEF ElectrumInv
<1> DEFINE n == getNetwork(c)
<1>0. n \in Networks /\ Read(c, n)
  BY GetsNetwork
<1>1. split' = split /\ electrum' = electrum /\ at[c] = "new"
  BY DEF Start
<1>2. goal[c] \in Goals /\ Carried(c, goal[c])
  BY <1>1, HasCarried
<1>3. CASE End(c, {})
  BY <1>3 DEF Turn, EndTurn
<1>4. CASE electrum # None /\ Drop(c, "close", goal[c], None)
  BY <1>1, <1>2, <1>4 DEF Turn, DropTurn
<1>5. CASE Enter(c)
  <2>2. CASE electrum # None /\ home[electrum] # n
    BY <1>0, <1>1, <1>2, <1>5, <2>2 DEF Enter, Turn, DropTurn
  <2>3. CASE electrum # None /\ home[electrum] = n
    <3>1. Use(c, goal[c], n)
      BY <1>5, <2>3 DEF Enter
    <3> QED BY <1>0, <1>1, <1>2, <2>3, <3>1, UseTurns
  <2>4. CASE electrum = None
    BY <1>1, <1>2, <1>5, <2>4, ConnectTurns DEF Enter
  <2> QED BY <2>2, <2>3, <2>4
<1> QED BY <1>3, <1>4, <1>5 DEF Start

LEMMA DroppedTurns ==
  ASSUME ElectrumInv, NEW c \in Calls, Dropped(c)
  PROVE  Turn(c)
<1> USE DEF ElectrumInv
<1>1. goal[c] \in Goals /\ Carried(c, goal[c])
  BY HasCarried DEF Dropped
<1>2. electrum' = None
  BY DEF Dropped
<1>3. CASE Connect(c, goal[c])
  BY <1>1, <1>2, <1>3, ConnectTurns
<1>4. CASE at[c] = "dropOther" /\ Create(c, goal[c], network[c])
  <2>1. Read(c, network[c])
    BY <1>4 DEF NetInv
  <2> QED BY <1>1, <1>2, <1>4, <2>1 DEF Turn, CreateTurn, Read
<1>5. CASE End(c, {})
  BY <1>5 DEF Turn, EndTurn
<1> QED BY <1>3, <1>4, <1>5 DEF Dropped

\* A call whose own network was connected finds a client of that network.
LEMMA WokenTurns ==
  ASSUME ElectrumInv, NEW c \in Calls, Woken(c)
  PROVE  Turn(c)
<1> USE DEF ElectrumInv
<1>1. goal[c] \in Goals /\ Carried(c, goal[c])
  BY HasCarried DEF Woken
<1>2. electrum' = electrum /\ c \in resumes /\ at[c] \in Waits
  BY DEF Woken
<1>2a. Read(c, network[c])
  BY <1>2 DEF NetInv
<1>3. CASE at[c] = "wait" /\ good[c] /\ Use(c, goal[c], network[c])
  <2>1. overlapped \/ electrum = None \/ home[electrum] = network[c]
    BY <1>2, <1>3 DEF Alone, AloneInv
  <2> QED BY <1>1, <1>2, <1>2a, <1>3, <2>1, UseTurns
<1>4. CASE Throw(c, goal[c])
  BY <1>1, <1>4, ThrowTurns
<1>5. CASE OtherLeft(c)
  <2>1. CASE electrum # None /\ home[electrum] = network[c] /\ Use(c, goal[c], network[c])
    BY <1>1, <1>2, <1>2a, <2>1, UseTurns
  <2>2. CASE electrum # None /\ Drop(c, "dropOther", goal[c], network[c])
    BY <1>1, <1>2, <1>2a, <2>2 DEF Turn, DropTurn, Read
  <2>3. CASE electrum = None /\ Create(c, goal[c], network[c])
    BY <1>1, <1>2, <1>2a, <2>3 DEF Turn, CreateTurn, Read
  <2> QED BY <1>5, <2>1, <2>2, <2>3 DEF OtherLeft
<1> QED BY <1>3, <1>4, <1>5 DEF Woken

LEMMA PongTurns ==
  ASSUME ElectrumInv, NEW c \in Calls, Pong(c)
  PROVE  Turn(c)
<1> USE DEF ElectrumInv
<1>1. split' = split /\ electrum' = electrum /\ at[c] = "asked" /\ sock[on[c]] = "open"
  BY DEF Pong
<1>2. Carried(c, "first")
  BY HasCarried, <1>1 DEF Pong, Carried
<1>3. overlapped \/ home[electrum] = network[c]
  BY <1>1 DEF Alone, AloneInv
<1>4. Read(c, network[c]) /\ Use(c, "first", network[c])
  BY <1>1 DEF NetInv, Pong
<1> QED BY <1>1, <1>2, <1>3, <1>4, UseTurns

LEMMA TimeoutTurns ==
  ASSUME ElectrumInv, NEW c \in Calls, Timeout(c)
  PROVE  Turn(c)
<1> USE DEF ElectrumInv
<1>1. split' = split /\ electrum' = electrum /\ got[c] \in SUBSET Items
  BY DEF Timeout, TypeInv
<1>2. CASE goal[c] = "ping" /\ Again(c, "first")
  <2>1. Carried(c, "first")
    BY <1>2, <1>1, HasCarried DEF Carried
  <2> QED BY <1>1, <1>2, <2>1, AgainTurns
<1>3. CASE Again(c, "second")
  BY <1>1, <1>3, AgainTurns DEF Carried
<1>4. CASE goal[c] = "second" /\ End(c, {})
  BY <1>4 DEF Turn, EndTurn
<1>5. CASE goal[c] = "rest" /\ End(c, got[c])
  <2>1. split'
    BY <1>1, <1>5 DEF CallInv
  <2> QED BY <1>1, <1>5, <2>1 DEF Turn, EndTurn
<1> QED BY <1>2, <1>3, <1>4, <1>5 DEF Timeout

LEMMA LostTurns ==
  ASSUME ElectrumInv, NEW c \in Calls, Lost(c)
  PROVE  Turn(c)
<1> USE DEF ElectrumInv
<1> DEFINE partial == goal[c] = "first" /\ got[c] # {}
<1>1. /\ split' = (split \/ partial) /\ electrum' = electrum
      /\ c \in resumes /\ at[c] = "asked" /\ got[c] \in SUBSET Items
  BY DEF Lost, TypeInv
<1>2. CASE goal[c] = "ping" /\ Again(c, "first")
  <2>1. goal[c] = "ping" => got[c] = {} \/ split'
    BY <1>1 DEF CallInv
  <2>2. Carried(c, "first")
    BY <1>2, <2>1, HasCarried DEF Carried, Lost
  <2> QED BY <1>1, <1>2, <2>2, AgainTurns
<1>3. CASE Again(c, "second")
  BY <1>1, <1>3, AgainTurns DEF Carried
<1>4. CASE partial /\ Again(c, "rest")
  <2>1. Carried(c, "rest")
    BY <1>1, <1>4 DEF Carried
  <2> QED BY <1>1, <1>4, <2>1, AgainTurns
<1>5. CASE End(c, got[c])
  <2>1. overlapped \/ electrum' = None \/ sock[electrum'] # "open"
    BY <1>1 DEF Alone, AloneInv
  <2> QED BY <1>1, <1>5, <2>1 DEF Turn, EndTurn
<1> QED BY <1>2, <1>3, <1>4, <1>5 DEF Lost

\* Every step of a call is a turn.
LEMMA StepTurns ==
  ASSUME ElectrumInv, NEW c \in Calls, CallStep(c)
  PROVE  TurnFrame(c) /\ Turn(c)
BY StepFrame, StartTurns, DroppedTurns, WokenTurns, PongTurns, TimeoutTurns, LostTurns DEF CallStep

-----------------------------------------------------------------------------
(* What Open and Create do to the sockets and the connect promises. *)

\* Connect promise a has a new client or none, and those of shut are closed.
Opened(a, n, shut) ==
  /\ hosts' \in [Calls -> Nat] /\ heard' \subseteq Clients
  /\ client' \in [Calls -> Clients \cup {None}]
  /\ client'[a] \in Free(a, n, shut) \cup {None}
  /\ \A d \in Calls \ {a} : client'[d] = client[d]
  /\ dial' = [dial EXCEPT ![a] = "dialling"]
  /\ sock' \in [Clients -> {"closed", "dialling", "open"}]
  /\ client'[a] # None => sock'[client'[a]] = "dialling"
  /\ \A k \in Clients : k \notin shut /\ k # client'[a] => sock'[k] = sock[k]
  /\ served' \in [Clients -> SUBSET Items]
  /\ \A k \in Clients : sock'[k] = "open" =>
       sock[k] = "open" /\ k \notin shut /\ served'[k] = served[k]

LEMMA OpenFacts ==
  ASSUME TypeInv, NEW a \in Calls, NEW n, NEW left \in Nat, NEW shut, Open(a, n, left, shut)
  PROVE  Opened(a, n, shut)
<1> DEFINE free == Free(a, n, shut)
           k == IF free = {} THEN None ELSE CHOOSE f \in free : TRUE
<1>0. free \subseteq Clients
  BY DEF Free
<1>1. k \in free \cup {None}
  <2> HIDE DEF free
  <2> QED OBVIOUS
<1>2. /\ hosts' = [hosts EXCEPT ![a] = left] /\ client' = [client EXCEPT ![a] = k]
      /\ dial' = [dial EXCEPT ![a] = "dialling"]
      /\ sock' = [f \in Clients |-> IF f = k THEN "dialling" ELSE IF f \in shut THEN "closed" ELSE sock[f]]
      /\ heard' = heard \ {k}
      /\ served' = [f \in Clients |-> IF f \in {k} \cup shut THEN {} ELSE served[f]]
  BY DEF Open
<1>3. None \notin Clients
  BY ElectrumAssumption
<1> HIDE DEF k, free
<1> QED BY <1>0, <1>1, <1>2, <1>3 DEF TypeInv, free, Opened

LEMMA CreateFacts ==
  ASSUME TypeInv, NEW c \in Calls, NEW g, NEW n \in Networks, Create(c, g, n)
  PROVE  /\ Move(c, "wait", c, g, n) /\ Open(c, n, HostsPerRound[n], {})
         /\ HostsPerRound[n] \in Nat
         /\ connectPromise' = c /\ activeSubs' = activeSubs
         /\ overlapped' = (overlapped \/ \E d \in Calls : dial[d] # "none")
BY ElectrumAssumption DEF Create

\* What a call's move leaves to the others, and what it is itself after it.
Moved(c, what, g, k, n) ==
  /\ at' \in [Calls -> Stages] /\ at'[c] = what
  /\ on' \in [Calls -> Calls \cup Clients \cup {None}] /\ on'[c] = k
  /\ goal' \in [Calls -> Goals] /\ goal'[c] = g
  /\ network' \in [Calls -> Networks \cup {None}] /\ network'[c] = n
  /\ got' \in [Calls -> SUBSET Items]
  /\ got'[c] = IF what = "ended" \/ g = "second" THEN {} ELSE got[c]
  /\ crossed' \subseteq Calls /\ (what # "ended" => crossed' = crossed)
  /\ \A d \in Calls \ {c} :
       /\ at'[d] = at[d] /\ on'[d] = on[d] /\ goal'[d] = goal[d] /\ network'[d] = network[d]
       /\ got'[d] = got[d] /\ (d \in crossed' <=> d \in crossed)

LEMMA MoveFacts ==
  ASSUME TypeInv, NEW c \in Calls, NEW what \in Stages, NEW g \in Goals,
         NEW k \in Calls \cup Clients \cup {None}, NEW n \in Networks \cup {None},
         Move(c, what, k, g, n)
  PROVE  Moved(c, what, g, k, n)
BY DEF Move, Moved, TypeInv

\* The turns that leave the sockets and the connect promises alone.
Stays(c, what, g, k, n) ==
  /\ NoDial
  /\ what = "ended" \/ Carried(c, g)
  /\ what # "new"
  /\ what = "ended" => g = "connect"
  /\ what \in Bound => Read(c, n)
  /\ what \in Waits => k = connectPromise /\ k \in Calls /\ electrum' = None
  /\ what = "wait" => network[k] = n
  /\ what \in Dropping \cup {"asked"} => k \in Clients /\ k = electrum /\ electrum' = electrum
  /\ what = "ended" => k = None
  /\ what = "asked" => overlapped \/ home[k] = n
  /\ activeSubs' \subseteq Items
  /\ overlapped \/ split' \/ activeSubs' = activeSubs \/ electrum' = None \/ sock[electrum'] # "open"

StayTurn(c) ==
  \E what \in Stages, g \in Goals, k \in Calls \cup Clients \cup {None}, n \in Networks \cup {None} :
    Move(c, what, k, g, n) /\ Stays(c, what, g, k, n)

LEMMA TurnsStayOrCreate ==
  ASSUME TypeInv, NEW c \in Calls, Turn(c)
  PROVE  StayTurn(c) \/ CreateTurn(c)
<1>1. CASE EndTurn(c)
  <2>1. PICK m \in SUBSET Items :
          /\ End(c, m)
          /\ overlapped \/ split' \/ m = {} \/ electrum' = None \/ sock[electrum'] # "open"
    BY <1>1 DEF EndTurn
  <2>2. activeSubs' \subseteq Items /\ (m = {} => activeSubs' = activeSubs)
    BY <2>1 DEF End, TypeInv
  <2>3. Move(c, "ended", None, "connect", None) /\ NoDial
    BY <2>1 DEF End
  <2>4. Stays(c, "ended", "connect", None, None)
    BY <2>1, <2>2, <2>3 DEF Stays
  <2> QED BY <2>3, <2>4 DEF StayTurn
<1>2. CASE AskTurn(c)
  <2>1. PICK g \in Goals, n \in Networks :
          /\ Ask(c, g, n) /\ Carried(c, g) /\ Read(c, n)
          /\ electrum # None /\ electrum' = electrum /\ (overlapped \/ home[electrum] = n)
    BY <1>2 DEF AskTurn
  <2>2. Move(c, "asked", electrum, g, n) /\ electrum \in Clients
    BY <2>1 DEF Ask, TypeInv
  <2>3. Stays(c, "asked", g, electrum, n)
    BY <2>1, <2>2 DEF Ask, Stays, TypeInv
  <2> QED BY <2>2, <2>3 DEF StayTurn
<1>3. CASE DropTurn(c)
  <2>1. PICK g \in Goals, what \in Dropping, n \in Networks \cup {None} :
          /\ Drop(c, what, g, n) /\ Carried(c, g) /\ (what = "close" \/ Read(c, n))
          /\ electrum # None /\ electrum' = electrum
    BY <1>3 DEF DropTurn
  <2>2. Move(c, what, electrum, g, n) /\ electrum \in Clients
    BY <2>1 DEF Drop, TypeInv
  <2>3. Stays(c, what, g, electrum, n)
    BY <2>1, <2>2 DEF Drop, Stays, TypeInv
  <2> QED BY <2>2, <2>3 DEF StayTurn
<1>4. CASE JoinTurn(c)
  <2>1. PICK g \in Goals, n \in Networks :
          Join(c, g, n) /\ Carried(c, g) /\ Read(c, n) /\ connectPromise # None /\ electrum' = None
    BY <1>4 DEF JoinTurn
  <2> DEFINE what == IF network[connectPromise] = n THEN "wait" ELSE "waitOther"
  <2>2. Move(c, what, connectPromise, g, n) /\ connectPromise \in Calls /\ what \in Waits
    BY <2>1 DEF Join, TypeInv
  <2>3. Stays(c, what, g, connectPromise, n)
    BY <2>1, <2>2 DEF Join, NoDial, Stays, TypeInv
  <2> QED BY <2>2, <2>3 DEF StayTurn
<1> QED BY <1>1, <1>2, <1>3, <1>4 DEF Turn

LEMMA StayKeeps ==
  ASSUME ElectrumInv, NEW c \in Calls, TurnFrame(c), StayTurn(c)
  PROVE  ElectrumInv'
<1> USE DEF ElectrumInv
<1>1. PICK what \in Stages, g \in Goals, k \in Calls \cup Clients \cup {None}, n \in Networks \cup {None} :
        Move(c, what, k, g, n) /\ Stays(c, what, g, k, n)
  BY DEF StayTurn
<1>2. Moved(c, what, g, k, n)
  BY <1>1, MoveFacts
<1>3. UNCHANGED <<connectPromise, overlapped, dial, hosts, client, sock, heard, served>>
  BY <1>1 DEF Stays, NoDial, dialVars, sockVars
<1>4. TurnFrame(c)
  OBVIOUS
<1>5. TypeInv'
  BY <1>1, <1>2, <1>3, <1>4 DEF TypeInv, Moved, Stays, TurnFrame
<1>6. CallInv'
  <2> SUFFICES ASSUME NEW d \in Calls
      PROVE  /\ (at[d] \in Waits => on[d] \in Calls)'
             /\ (at[d] \in Dropping \cup {"asked"} => on[d] \in Clients)'
             /\ (d \in resumes => at[d] \in Dropping \cup Waits \cup {"asked"})'
             /\ (at[d] \in Waits => dial[on[d]] # IF d \in resumes THEN "replaying" ELSE "none")'
             /\ (goal[d] = "rest" => split)'
             /\ (at[d] # "asked" \/ goal[d] = "ping" => got[d] = {} \/ goal[d] = "rest")'
    BY DEF CallInv
  <2>1. CASE d # c
    BY <1>2, <1>3, <1>4, <2>1 DEF CallInv, Moved, TurnFrame
  <2>2. CASE d = c
    <3>1. what \in Waits => dial'[k] # "none"
      BY <1>1, <1>3, ElectrumAssumption DEF DialInv, Stays
    <3>2. what = "ended" \/ got'[c] = {} \/ g = "rest"
      BY <1>1, <1>2 DEF Carried, Stays, Moved
    <3> QED BY <1>1, <1>2, <1>4, <2>2, <3>1, <3>2 DEF Carried, Stays, Moved, TurnFrame
  <2> QED BY <2>1, <2>2
<1>6a. NetInv'
  <2> SUFFICES ASSUME NEW d \in Calls
      PROVE  /\ (at[d] \in Bound => Read(d, network[d]))'
             /\ (at[d] = "wait" /\ d \notin resumes => network[d] = network[on[d]])'
    BY DEF NetInv
  <2>1. \A e \in Calls : getNetwork(e)' = getNetwork(e)
    BY <1>4 DEF getNetwork, TurnFrame
  <2>2. CASE d # c
    <3>1. at'[d] = "wait" /\ d \notin resumes' => on[d] \in Calls \ {c}
      BY <1>2, <1>4, <2>2 DEF CallInv, Moved, TurnFrame
    <3> QED BY <1>2, <1>4, <2>1, <2>2, <3>1 DEF NetInv, Moved, TurnFrame, Read
  <2>3. CASE d = c
    <3>1. what = "wait" => k \in Calls \ {c}
      BY <1>1, <1>4, ElectrumAssumption DEF DialInv, Stays, TurnFrame
    <3> QED BY <1>1, <1>2, <2>1, <2>3, <3>1 DEF Stays, Moved, Read
  <2> QED BY <2>2, <2>3
<1>7. DialInv'
  BY <1>2, <1>3, <1>4 DEF TypeInv, DialInv, Moved, TurnFrame
<1>7a. FreshInv'
  <2>1. \A f \in Clients : k # f \/ electrum = f
    BY <1>1, ElectrumAssumption DEF Stays
  <2>2. \A d \in Calls, f \in Clients : electrum # f /\ on[d] # f => on'[d] # f
    BY <1>2, <2>1 DEF Moved
  <2>3. electrum' = electrum \/ electrum' = None
    BY <1>4 DEF TurnFrame
  <2>4. \A a \in Calls : client[a] \in Clients \cup {None}
    BY DEF TypeInv
  <2> QED BY <1>3, <1>4, <2>2, <2>3, <2>4, ElectrumAssumption DEF FreshInv, TurnFrame, TypeInv
<1>8. DropInv'
  BY <1>1, <1>2, <1>3, <1>4 DEF TypeInv, CallInv, DropInv, Stays, Moved, TurnFrame
<1>9. ASSUME ~overlapped
      PROVE  /\ AloneInv /\ HeldInv
             /\ electrum' = electrum \/ \A d \in Calls : at[d] = "asked" => sock[on[d]] # "open"
  BY <1>4, <1>9 DEF Alone, AloneInv, DropInv, CallInv, TypeInv, TurnFrame
<1>10. Alone'
  <2> SUFFICES ASSUME ~overlapped PROVE AloneInv' /\ HeldInv'
    BY <1>3 DEF Alone
  <2>1. \A a \in Calls : (dial[a] # "none" => connectPromise = a)'
                         /\ (dial[a] = "dialling" => electrum = None)'
                         /\ (dial[a] = "replaying" => electrum \in {None, client[a]})'
    BY <1>3, <1>4, <1>9 DEF AloneInv, TurnFrame
  <2>2. \A d \in resumes' : (at[d] = "wait" /\ good[d] =>
          electrum = None \/ home[electrum] = network[d])'
    BY <1>2, <1>4, <1>9 DEF AloneInv, TypeInv, Moved, TurnFrame
  <2>3. \A d \in Calls : (at[d] = "asked" =>
          /\ home[on[d]] = network[d]
          /\ sock[on[d]] = "open" => on[d] = electrum
          /\ d \in resumes => electrum = None \/ sock[electrum] # "open")'
    BY <1>1, <1>2, <1>3, <1>4, <1>9 DEF AloneInv, TypeInv, Stays, Moved, TurnFrame
  <2>4. HeldInv'
    <3> SUFFICES ASSUME NEW f \in Clients \ abandoned', sock'[f] = "open" PROVE Held(f)'
      BY DEF HeldInv
    <3>1. Held(f)
      BY <1>3, <1>4, <1>9 DEF HeldInv, TurnFrame
    <3>2. CASE f = electrum
      BY <1>2, <1>3, <1>4, <3>2, ElectrumAssumption DEF Held, DropInv, TurnFrame, Moved
    <3>3. CASE \E d \in Calls : client[d] = f
      BY <1>3, <3>3 DEF Held
    <3>4. CASE \E d \in Calls : on[d] = f /\ at[d] \in Dropping
      <4>1. PICK d \in Calls : on[d] = f /\ at[d] \in Dropping
        BY <3>4
      <4>2. d # c
        BY <1>3, <1>4, <4>1 DEF DropInv, TurnFrame
      <4> QED BY <1>2, <4>1, <4>2 DEF Held, Moved
    <3> QED BY <3>1, <3>2, <3>3, <3>4 DEF Held
  <2> QED BY <2>1, <2>2, <2>3, <2>4 DEF AloneInv
<1>12. Undivided'
  <2> SUFFICES ASSUME ~overlapped, ~split' PROVE SubsInv' /\ SubsReplayed'
    BY <1>3 DEF Undivided
  <2>1. SubsInv /\ SubsReplayed
    BY <1>4 DEF Undivided, TypeInv, TurnFrame
  <2>2. \A d \in Keeps : (at[d] = "asked" /\ sock[on[d]] = "open" => got[d] \subseteq served[on[d]])'
    BY <1>1, <1>2, <1>3, <1>4, <2>1, ElectrumAssumption DEF SubsInv, Carried, Stays, Moved
  <2>4. SubsReplayed'
    BY <1>1, <1>3, <1>4, <2>1 DEF SubsReplayed, TypeInv, Stays, TurnFrame
  <2> QED BY <2>2, <2>4 DEF SubsInv
<1> QED BY <1>5, <1>6, <1>6a, <1>7, <1>7a, <1>8, <1>10, <1>12

LEMMA CreateKeeps ==
  ASSUME ElectrumInv, NEW c \in Calls, TurnFrame(c), CreateTurn(c)
  PROVE  ElectrumInv'
<1> USE DEF ElectrumInv
<1>1. PICK g \in Goals, n \in Networks :
        Create(c, g, n) /\ Carried(c, g) /\ Read(c, n) /\ electrum' = None
  BY DEF CreateTurn
<1>2. /\ Move(c, "wait", c, g, n) /\ Open(c, n, HostsPerRound[n], {})
      /\ HostsPerRound[n] \in Nat
      /\ connectPromise' = c /\ activeSubs' = activeSubs
      /\ overlapped' = (overlapped \/ \E d \in Calls : dial[d] # "none")
  BY <1>1, CreateFacts
<1>3. Moved(c, "wait", g, c, n)
  BY <1>2, MoveFacts
<1>4. Opened(c, n, {})
  <2>1. TypeInv /\ Open(c, n, HostsPerRound[n], {}) /\ HostsPerRound[n] \in Nat
    BY <1>2
  <2> QED BY <2>1, OpenFacts
<1>5. /\ dial[c] = "none" /\ client[c] = None
      /\ net' = net /\ abandoned' = abandoned
      /\ at[c] \in Dropping \cup Waits => c \in resumes
      /\ resumes' = resumes \ {c} /\ replayed' = replayed
      /\ electrum = None \/ at[c] \in Dropping
      /\ backoff' \in BOOLEAN /\ idle' \in BOOLEAN /\ split' \in BOOLEAN /\ (split => split')
      /\ good' \in [Calls -> BOOLEAN] /\ \A d \in Calls \ {c} : good'[d] = good[d]
  BY <1>1 DEF TurnFrame, DialInv
<1>6. \A k \in Free(c, n, {}) :
        /\ k \in Clients /\ home[k] = n /\ electrum # k /\ sock[k] = "closed"
        /\ \A d \in Calls : on[d] # k /\ client[d] # k
  BY <1>5, ElectrumAssumption DEF Free
<1>7. TypeInv'
  BY <1>1, <1>2, <1>3, <1>4, <1>5 DEF TypeInv, Moved, Opened
<1>8. CallInv'
  <2> SUFFICES ASSUME NEW d \in Calls
      PROVE  /\ (at[d] \in Waits => on[d] \in Calls)'
             /\ (at[d] \in Dropping \cup {"asked"} => on[d] \in Clients)'
             /\ (d \in resumes => at[d] \in Dropping \cup Waits \cup {"asked"})'
             /\ (at[d] \in Waits => dial[on[d]] # IF d \in resumes THEN "replaying" ELSE "none")'
             /\ (goal[d] = "rest" => split)'
             /\ (at[d] # "asked" \/ goal[d] = "ping" => got[d] = {} \/ goal[d] = "rest")'
    BY DEF CallInv
  <2>1. CASE d # c
    BY <1>3, <1>4, <1>5, <2>1 DEF CallInv, TypeInv, Moved, Opened
  <2>2. CASE d = c
    BY <1>1, <1>3, <1>4, <1>5, <2>2 DEF Carried, TypeInv, Moved, Opened
  <2> QED BY <2>1, <2>2
<1>8a. NetInv'
  <2> SUFFICES ASSUME NEW d \in Calls
      PROVE  /\ (at[d] \in Bound => Read(d, network[d]))'
             /\ (at[d] = "wait" /\ d \notin resumes => network[d] = network[on[d]])'
    BY DEF NetInv
  <2>1. \A e \in Calls : getNetwork(e)' = getNetwork(e)
    BY <1>5 DEF getNetwork
  <2>2. CASE d # c
    <3>1. at'[d] = "wait" /\ d \notin resumes' => on[d] \in Calls \ {c}
      BY <1>3, <1>5, <2>2 DEF CallInv, Moved
    <3> QED BY <1>3, <1>5, <2>1, <2>2, <3>1 DEF NetInv, Moved, Read
  <2>3. CASE d = c
    BY <1>1, <1>3, <2>1, <2>3 DEF Moved, Read
  <2> QED BY <2>2, <2>3
<1>9. DialInv'
  <2>1. \A a \in Calls : /\ (dial[a] # "none" => at[a] = "wait" /\ on[a] = a /\ a \notin resumes)'
                         /\ (dial[a] = "none" => client[a] = None)'
                         /\ (dial[a] = "replaying" => client[a] # None)'
    BY <1>3, <1>4, <1>5 DEF DialInv, TypeInv, Moved, Opened
  <2>2. \A a \in Calls : (client[a] # None => home[client[a]] = network[a])'
    BY <1>3, <1>4, <1>6 DEF DialInv, Moved, Opened
  <2>3. (connectPromise # None => dial[connectPromise] # "none")'
    BY <1>2, <1>4 DEF TypeInv, Opened
  <2> QED BY <2>1, <2>2, <2>3 DEF DialInv
<1>9a. FreshInv'
  <2>1. ASSUME NEW a \in Calls, dial'[a] = "dialling", client'[a] # None
        PROVE  /\ sock'[client'[a]] = "dialling" /\ electrum' # client'[a]
               /\ \A d \in Calls : on'[d] # client'[a] /\ (d # a => client'[d] # client'[a])
    <3> DEFINE k == client'[a]
    <3>1. k \in Clients /\ (a = c => k \in Free(c, n, {}))
      BY <1>4, <2>1 DEF Opened
    <3>2. \A d \in Calls : on[d] # k /\ (d # a => client[d] # k)
      BY <1>4, <1>6, <2>1, <3>1 DEF FreshInv, TypeInv, Opened
    <3>3. \A d \in Calls : on'[d] # k
      BY <1>3, <3>1, <3>2, ElectrumAssumption DEF Moved
    <3>4. \A d \in Calls : d # a => client'[d] # k
      BY <1>4, <1>6, <2>1, <3>1, <3>2 DEF Opened
    <3>5. sock'[k] = "dialling"
      BY <1>4, <1>6, <2>1, <3>1, <3>4 DEF FreshInv, TypeInv, Opened
    <3> QED BY <1>1, <2>1, <3>3, <3>4, <3>5
  <2>2. ASSUME NEW k \in abandoned
        PROVE  /\ sock'[k] # "closed" /\ electrum' # k
               /\ \A d \in Calls : on'[d] # k /\ client'[d] # k
    <3>1. k \in Clients /\ k # client'[c]
      BY <1>4, <1>6, <2>2, ElectrumAssumption DEF FreshInv, TypeInv, Opened
    <3> QED BY <1>1, <1>3, <1>4, <2>2, <3>1, ElectrumAssumption DEF FreshInv, Moved, Opened
  <2> QED BY <1>5, <2>1, <2>2 DEF FreshInv
<1>10. DropInv'
  BY <1>1, <1>3, <1>4, <1>5 DEF DropInv, CallInv, TypeInv, Moved, Opened
<1>11. \A k \in Clients : sock'[k] = "open" => k # electrum
  BY <1>4, <1>5, ElectrumAssumption DEF DropInv, Opened
<1>12. Alone'
  <2> SUFFICES ASSUME ~overlapped' PROVE AloneInv' /\ HeldInv'
    BY DEF Alone
  <2>1. AloneInv /\ HeldInv /\ \A d \in Calls : dial[d] = "none"
    BY <1>2 DEF Alone
  <2>2. \A a \in Calls : (dial[a] # "none" => connectPromise = a)'
                         /\ (dial[a] = "dialling" => electrum = None)'
                         /\ (dial[a] = "replaying" => electrum \in {None, client[a]})'
    BY <1>1, <1>2, <1>4, <2>1 DEF TypeInv, Opened
  <2>3. \A d \in Calls : (at[d] = "asked" =>
          /\ home[on[d]] = network[d]
          /\ sock[on[d]] = "open" => on[d] = electrum)'
    BY <1>3, <1>4, <1>11, <2>1 DEF AloneInv, CallInv, Moved, Opened
  <2>4. HeldInv'
    <3> SUFFICES ASSUME NEW f \in Clients \ abandoned, sock'[f] = "open" PROVE Held(f)'
      BY <1>5 DEF HeldInv
    <3>1. Held(f) /\ f # electrum
      BY <1>4, <1>11, <2>1 DEF HeldInv, Opened
    <3>2. \A d \in Calls : client[d] # f
      BY <2>1, ElectrumAssumption DEF DialInv, TypeInv
    <3>3. PICK d \in Calls : on[d] = f /\ at[d] \in Dropping
      BY <3>1, <3>2 DEF Held
    <3>4. d # c
      BY <1>4, <1>5, <3>3 DEF DropInv, Opened
    <3> QED BY <1>3, <3>3, <3>4 DEF Held, Moved
  <2> QED BY <1>1, <2>2, <2>3, <2>4 DEF AloneInv
<1>14. Undivided'
  <2> SUFFICES ASSUME ~overlapped', ~split' PROVE SubsInv' /\ SubsReplayed'
    BY DEF Undivided
  <2>1. SubsInv /\ \A d \in Calls : dial[d] = "none"
    BY <1>2, <1>5 DEF Undivided, TypeInv
  <2>2. \A d \in Keeps : (at[d] = "asked" /\ sock[on[d]] = "open" => got[d] \subseteq served[on[d]])'
    BY <1>3, <1>4, <2>1, ElectrumAssumption DEF SubsInv, CallInv, Moved, Opened
  <2> QED BY <1>1, <2>2 DEF SubsInv, SubsReplayed
<1> QED BY <1>7, <1>8, <1>8a, <1>9, <1>9a, <1>10, <1>12, <1>14

LEMMA CallStepKeeps ==
  ASSUME ElectrumInv, NEW c \in Calls, CallStep(c)
  PROVE  ElectrumInv'
<1>1. TurnFrame(c) /\ Turn(c)
  BY StepTurns
<1>2. StayTurn(c) \/ CreateTurn(c)
  BY <1>1, TurnsStayOrCreate DEF ElectrumInv
<1> QED BY <1>1, <1>2, StayKeeps, CreateKeeps

-----------------------------------------------------------------------------
(* The connect promises. *)

Waiting(a) == {c \in Calls : at[c] \in Waits /\ on[c] = a}

\* Connect promise a is settled, and who awaited it goes on.
Settled(a, ok) ==
  /\ connectPromise' = None
  /\ dial' = [dial EXCEPT ![a] = "none"] /\ client' = [client EXCEPT ![a] = None]
  /\ resumes' = resumes \cup Waiting(a)
  /\ good' \in [Calls -> BOOLEAN]
  /\ \A c \in Calls : good'[c] = IF c \in Waiting(a) THEN ok ELSE good[c]
  /\ hosts' \in [Calls -> Nat]

LEMMA SettleFacts ==
  ASSUME TypeInv, NEW a \in Calls, NEW ok \in BOOLEAN, Settle(a, ok)
  PROVE  Settled(a, ok)
BY DEF TypeInv, Settle, Waiting, Settled

\* Nothing else of a step of a connect promise disturbs the calls.
LEMMA SettleKeeps ==
  ASSUME ElectrumInv, NEW a \in Calls, NEW ok \in BOOLEAN, Settled(a, ok), dial[a] # "none",
         UNCHANGED sameCall
  PROVE  CallInv' /\ NetInv' /\ DialInv'
<1> USE DEF ElectrumInv
<1>1. /\ dial' = [dial EXCEPT ![a] = "none"] /\ client' = [client EXCEPT ![a] = None]
      /\ connectPromise' = None /\ resumes' = resumes \cup Waiting(a)
      /\ UNCHANGED <<at, goal, network, on, got, net, crossed, split>>
  BY DEF Settled, sameCall
<1>2. CallInv'
  <2> SUFFICES ASSUME NEW d \in Calls
      PROVE  /\ (d \in resumes => at[d] \in Dropping \cup Waits \cup {"asked"})'
             /\ (at[d] \in Waits => dial[on[d]] # IF d \in resumes THEN "replaying" ELSE "none")'
    BY <1>1 DEF CallInv
  <2> QED BY <1>1 DEF CallInv, Waiting, TypeInv
<1>3. NetInv'
  BY <1>1 DEF NetInv, Read, getNetwork
<1>4. DialInv'
  BY <1>1 DEF DialInv, Waiting, TypeInv
<1> QED BY <1>2, <1>3, <1>4

\* A failed host: its client is closed, or abandoned while it is dialled.
Leaves(a, shut) ==
  \/ shut = {client[a]} /\ abandoned' = abandoned
  \/ /\ shut = {} /\ dial[a] = "dialling" /\ client[a] \in Clients
     /\ abandoned' = abandoned \cup {client[a]}

\* The parts about the clients, whatever NextHost makes of the connect promise.
LEMMA NextHostFresh ==
  ASSUME ElectrumInv, NEW a \in Calls, NEW shut, Leaves(a, shut),
         UNCHANGED <<electrum, at, on, overlapped>>,
         \A d \in Calls \ {a} : client'[d] = client[d] /\ dial'[d] = dial[d],
         \A k \in Clients : k \notin shut /\ k # client'[a] => sock'[k] = sock[k],
         \A k \in Clients : sock'[k] = "open" => sock[k] = "open" /\ k \notin shut,
         client'[a] \in Free(a, network[a], shut) \cup {None},
         client'[a] # None => dial'[a] = "dialling" /\ sock'[client'[a]] = "dialling"
  PROVE  FreshInv' /\ (overlapped \/ HeldInv')
<1> USE DEF ElectrumInv
<1>0. \A d \in Calls : client[d] \in Clients \cup {None}
  BY DEF TypeInv
<1>1. \A k \in Free(a, network[a], shut) :
        /\ k \in Clients /\ electrum # k /\ (sock[k] = "closed" \/ k \in shut)
        /\ \A d \in Calls : on[d] # k /\ (d # a => client[d] # k)
  BY DEF Free
<1>2. \A k \in shut : k = client[a]
  BY DEF Leaves
<1>3. ASSUME NEW b \in Calls, dial'[b] = "dialling", client'[b] # None
      PROVE  /\ sock'[client'[b]] = "dialling" /\ electrum # client'[b]
             /\ \A d \in Calls : on[d] # client'[b] /\ (d # b => client'[d] # client'[b])
  <2>1. CASE b = a
    BY <1>1, <1>3, <2>1
  <2>2. CASE b # a
    <3> DEFINE k == client[b]
    <3>1. client'[b] = k /\ k \in Clients /\ dial[b] = "dialling"
      BY <1>0, <1>3, <2>2
    <3>2. /\ sock[k] = "dialling" /\ electrum # k
          /\ \A d \in Calls : on[d] # k /\ (d # b => client[d] # k)
      BY <1>3, <3>1 DEF FreshInv
    <3>3. k # client'[a] /\ k \notin shut
      BY <1>1, <1>2, <2>2, <3>1, <3>2, ElectrumAssumption
    <3> QED BY <2>2, <3>1, <3>2, <3>3
  <2> QED BY <2>1, <2>2
<1>4. ASSUME NEW k \in abandoned'
      PROVE  /\ sock'[k] # "closed" /\ electrum # k
             /\ \A d \in Calls : on[d] # k /\ client'[d] # k
  <2>1. CASE k \in abandoned
    <3>1. /\ k \in Clients /\ sock[k] # "closed" /\ electrum # k
          /\ \A d \in Calls : on[d] # k /\ client[d] # k
      BY <2>1 DEF FreshInv, TypeInv
    <3>2. k # client'[a] /\ k \notin shut
      BY <1>1, <1>2, <3>1, ElectrumAssumption
    <3> QED BY <3>1, <3>2
  <2>2. CASE k \notin abandoned
    <3>1. shut = {} /\ dial[a] = "dialling" /\ k \in Clients /\ k = client[a]
      BY <1>4, <2>2 DEF Leaves
    <3>2. /\ sock[k] = "dialling" /\ electrum # k
          /\ \A d \in Calls : on[d] # k /\ (d # a => client[d] # k)
      BY <3>1, ElectrumAssumption DEF FreshInv
    <3>3. k # client'[a]
      BY <1>1, <3>1, <3>2, ElectrumAssumption
    <3> QED BY <3>1, <3>2, <3>3
  <2> QED BY <2>1, <2>2
<1>5. overlapped \/ HeldInv'
  <2> SUFFICES ASSUME ~overlapped, NEW k \in Clients \ abandoned', sock'[k] = "open"
      PROVE  Held(k)'
    BY DEF HeldInv
  <2>1. sock[k] = "open" /\ k \notin shut /\ k \notin abandoned
    BY DEF Leaves
  <2>2. Held(k)
    BY <2>1 DEF Alone, HeldInv
  <2>3. k # client[a]
    BY <2>1 DEF Leaves
  <2> QED BY <2>2, <2>3 DEF Held
<1> QED BY <1>3, <1>4, <1>5 DEF FreshInv

LEMMA NextHostKeeps ==
  ASSUME ElectrumInv, NEW a \in Calls, NEW shut, NextHost(a, shut), dial[a] # "none",
         Leaves(a, shut), overlapped \/ electrum = None, replayed' \subseteq replayed,
         UNCHANGED <<sameCall, electrum, idle>>
  PROVE  ElectrumInv'
<1> USE DEF ElectrumInv
<1>0. /\ UNCHANGED <<activeSubs, net, at, goal, network, on, got, crossed, overlapped, split>>
      /\ UNCHANGED <<electrum, idle>>
      /\ abandoned' \subseteq Clients
  BY DEF sameCall, Leaves, TypeInv
<1>1. CASE hosts[a] > 1
  <2>1. Open(a, network[a], hosts[a] - 1, shut) /\ UNCHANGED <<connectPromise, resumes, good, backoff>>
    BY <1>1 DEF NextHost
  <2>2. hosts[a] - 1 \in Nat
    BY <1>1 DEF TypeInv
  <2>3. Opened(a, network[a], shut)
    BY <2>1, <2>2, OpenFacts
  <2>4. \A k \in Free(a, network[a], shut) : k \in Clients /\ home[k] = network[a] /\ \A d \in Calls : on[d] # k
    BY DEF Free
  <2>5. TypeInv'
    BY <1>0, <2>1, <2>3 DEF TypeInv, Opened
  <2>6. CallInv' /\ NetInv' /\ DropInv'
    <3>1. CallInv'
      BY <1>0, <2>1, <2>3 DEF TypeInv, CallInv, Opened
    <3>2. NetInv'
      BY <1>0, <2>1 DEF NetInv, Read, getNetwork
    <3>3. DropInv'
      BY <1>0, <2>1, <2>3 DEF TypeInv, DropInv, CallInv, Opened
    <3> QED BY <3>1, <3>2, <3>3
  <2>7. DialInv'
    BY <1>0, <2>1, <2>3, <2>4 DEF TypeInv, DialInv, Opened
  <2>7a. FreshInv' /\ (overlapped \/ HeldInv')
    <3>1. /\ \A d \in Calls \ {a} : client'[d] = client[d] /\ dial'[d] = dial[d]
          /\ \A k \in Clients : k \notin shut /\ k # client'[a] => sock'[k] = sock[k]
          /\ \A k \in Clients : sock'[k] = "open" => sock[k] = "open" /\ k \notin shut
          /\ client'[a] \in Free(a, network[a], shut) \cup {None}
          /\ client'[a] # None => dial'[a] = "dialling" /\ sock'[client'[a]] = "dialling"
      BY <2>3 DEF Opened, TypeInv
    <3> QED BY <1>0, <3>1, NextHostFresh
  <2>8. Alone'
    BY <1>0, <2>1, <2>3, <2>7a DEF Alone, AloneInv, CallInv, TypeInv, Opened
  <2>9. Undivided'
    BY <1>0, <2>3, ElectrumAssumption DEF Undivided, SubsInv, SubsReplayed, CallInv, Opened
  <2> QED BY <2>5, <2>6, <2>7, <2>7a, <2>8, <2>9
<1>2. CASE ~(hosts[a] > 1)
  <2>1. /\ sock' = [k \in Clients |-> IF k \in shut THEN "closed" ELSE sock[k]]
        /\ served' = [k \in Clients |-> IF k \in shut THEN {} ELSE served[k]]
        /\ backoff' = TRUE /\ Settle(a, FALSE) /\ UNCHANGED heard
    BY <1>2 DEF NextHost
  <2>2. Settled(a, FALSE)
    BY <2>1, SettleFacts
  <2>3. TypeInv'
    BY <1>0, <2>1, <2>2 DEF TypeInv, Waiting, Settled
  <2>4. CallInv' /\ NetInv' /\ DialInv'
    BY <2>2, SettleKeeps
  <2>5. DropInv'
    BY <1>0, <2>1, <2>2 DEF DropInv, CallInv, TypeInv, Waiting, Settled
  <2>5a. FreshInv' /\ (overlapped \/ HeldInv')
    <3>1. /\ \A d \in Calls \ {a} : client'[d] = client[d] /\ dial'[d] = dial[d]
          /\ \A k \in Clients : k \notin shut /\ k # client'[a] => sock'[k] = sock[k]
          /\ \A k \in Clients : sock'[k] = "open" => sock[k] = "open" /\ k \notin shut
          /\ client'[a] = None
      BY <2>1, <2>2 DEF Settled, TypeInv
    <3> QED BY <1>0, <3>1, NextHostFresh
  <2>6. Alone'
    <3> SUFFICES ASSUME ~overlapped PROVE AloneInv'
      BY <1>0, <2>5a DEF Alone
    <3> QED BY <1>0, <2>1, <2>2 DEF Alone, AloneInv, CallInv, TypeInv, Waiting, Settled
  <2>8. Undivided'
    BY <1>0, <2>1, <2>2, ElectrumAssumption DEF Undivided, SubsInv, SubsReplayed, CallInv, TypeInv, Settled
  <2> QED BY <2>3, <2>4, <2>5, <2>5a, <2>6, <2>8
<1> QED BY <1>1, <1>2

LEMMA DialFailsKeeps ==
  ASSUME ElectrumInv, NEW a \in Calls, DialFails(a) \/ DialTimesOut(a)
  PROVE  ElectrumInv'
<1>1. overlapped \/ electrum = None
  BY DEF ElectrumInv, Alone, AloneInv, DialFails, DialTimesOut
<1>2. CASE DialFails(a)
  <2>1. Leaves(a, {client[a]}) /\ NextHost(a, {client[a]})
    BY <1>2 DEF DialFails, Leaves
  <2> QED BY <1>1, <1>2, <2>1, NextHostKeeps DEF DialFails
<1>3. CASE DialTimesOut(a)
  <2>1. Leaves(a, {}) /\ NextHost(a, {})
    BY <1>3 DEF DialTimesOut, Leaves, ElectrumInv, TypeInv
  <2> QED BY <1>1, <1>3, <2>1, NextHostKeeps DEF DialTimesOut
<1> QED BY <1>2, <1>3

LEMMA DialOkKeeps ==
  ASSUME ElectrumInv, NEW a \in Calls, DialOk(a)
  PROVE  ElectrumInv'
<1> USE DEF ElectrumInv
<1>1. /\ dial[a] = "dialling" /\ client[a] \in Clients
      /\ electrum' = client[a] /\ backoff' = FALSE /\ idle' = FALSE
      /\ sock' = [sock EXCEPT ![client[a]] = "open"]
      /\ served' = [served EXCEPT ![client[a]] = activeSubs]
      /\ UNCHANGED <<activeSubs, net, at, goal, network, on, got, replayed, abandoned, crossed,
                     overlapped, split>>
      /\ UNCHANGED sameCall
      /\ resumes = {} /\ \A c \in Calls : at[c] \notin Dropping
  BY DEF DialOk, Quiet, TypeInv, sameCall
<1>2. \/ heard' = heard \cup {client[a]} /\ Settle(a, TRUE)
      \/ /\ dial' = [dial EXCEPT ![a] = "replaying"]
         /\ UNCHANGED <<heard, hosts, client, connectPromise, resumes, good>>
  BY DEF DialOk
<1>3. \/ Settled(a, TRUE) /\ heard' \subseteq Clients
      \/ /\ dial' = [dial EXCEPT ![a] = "replaying"]
         /\ UNCHANGED <<heard, hosts, client, connectPromise, resumes, good>>
  <2>1. CASE heard' = heard \cup {client[a]} /\ Settle(a, TRUE)
    <3>1. heard' \subseteq Clients
      BY <1>1, <2>1 DEF TypeInv
    <3> QED BY <2>1, <3>1, SettleFacts
  <2> QED BY <1>2, <2>1
<1>3a. /\ \A b \in Calls \ {a} : dial'[b] = dial[b] /\ client'[b] = client[b]
       /\ \/ dial'[a] = "none" /\ client'[a] = None
          \/ dial'[a] = "replaying" /\ client'[a] = client[a] /\ connectPromise' = connectPromise
       /\ resumes' \subseteq Waiting(a)
  <2>1. CASE Settled(a, TRUE)
    BY <1>1, <2>1 DEF TypeInv, Settled
  <2>2. CASE /\ dial' = [dial EXCEPT ![a] = "replaying"]
             /\ UNCHANGED <<heard, hosts, client, connectPromise, resumes, good>>
    BY <1>1, <2>2 DEF TypeInv
  <2> QED BY <1>3, <2>1, <2>2
<1>4. TypeInv'
  BY <1>1, <1>3 DEF TypeInv, Waiting, Settled
<1>5. CallInv' /\ NetInv' /\ DialInv'
  <2>1. CASE Settled(a, TRUE)
    BY <1>1, <2>1, SettleKeeps
  <2>2. CASE /\ dial' = [dial EXCEPT ![a] = "replaying"]
             /\ UNCHANGED <<heard, hosts, client, connectPromise, resumes, good>>
    <3>1. CallInv' /\ DialInv'
      BY <1>1, <2>2, ElectrumAssumption DEF CallInv, DialInv, TypeInv
    <3>2. NetInv'
      BY <1>1, <2>2 DEF NetInv, Read, getNetwork
    <3> QED BY <3>1, <3>2
  <2> QED BY <1>3, <2>1, <2>2
<1>6. DropInv'
  BY <1>1 DEF DropInv
<1>6a. FreshInv'
  <2> DEFINE k == client[a]
  <2>1. /\ k # None /\ sock[k] = "dialling"
        /\ \A c \in Calls : on[c] # k /\ (c # a => client[c] # k)
    BY <1>1, ElectrumAssumption DEF FreshInv
  <2>2. ASSUME NEW b \in Calls, dial'[b] = "dialling", client'[b] # None
        PROVE  /\ sock'[client'[b]] = "dialling" /\ electrum' # client'[b]
               /\ \A c \in Calls : on'[c] # client'[b] /\ (c # b => client'[c] # client'[b])
    <3>1. b # a /\ client'[b] = client[b] /\ dial[b] = "dialling" /\ client[b] \in Clients
      BY <1>3a, <2>2 DEF TypeInv
    <3>2. /\ sock[client[b]] = "dialling"
          /\ \A c \in Calls : on[c] # client[b] /\ (c # b => client[c] # client[b])
      BY <2>2, <3>1 DEF FreshInv
    <3>3. \A c \in Calls : c # b => client'[c] # client[b]
      BY <1>3a, <2>2, <3>1, <3>2
    <3> QED BY <1>1, <3>1, <3>2, <3>3 DEF TypeInv
  <2>3. ASSUME NEW f \in abandoned'
        PROVE  /\ sock'[f] # "closed" /\ electrum' # f
               /\ \A c \in Calls : on'[c] # f /\ client'[c] # f
    <3>1. /\ f \in Clients /\ sock[f] # "closed"
          /\ \A c \in Calls : on[c] # f /\ client[c] # f
      BY <1>1, <2>3 DEF FreshInv, TypeInv
    <3>2. \A c \in Calls : client'[c] # f
      BY <1>3a, <3>1, ElectrumAssumption
    <3> QED BY <1>1, <3>1, <3>2 DEF TypeInv
  <2> QED BY <2>2, <2>3 DEF FreshInv
<1>7. overlapped \/ \A c \in Calls : /\ electrum = None /\ (c # a => dial[c] = "none" /\ client[c] = None)
                                     /\ at[c] = "asked" => sock[on[c]] # "open"
  BY <1>1, ElectrumAssumption DEF Alone, AloneInv, DialInv, CallInv
<1>8. Alone'
  <2> SUFFICES ASSUME ~overlapped PROVE AloneInv' /\ HeldInv'
    BY <1>1 DEF Alone
  <2>1. \A b \in Calls : (dial[b] # "none" => connectPromise = b)'
                         /\ (dial[b] = "dialling" => electrum = None)'
                         /\ (dial[b] = "replaying" => electrum \in {None, client[b]})'
    BY <1>1, <1>7, <1>3a DEF Alone, AloneInv
  <2>2. \A c \in resumes' : at'[c] = "wait" => home[electrum'] = network'[c]
    <3> SUFFICES ASSUME NEW c \in resumes', at[c] = "wait" PROVE home[client[a]] = network[c]
      BY <1>1
    <3>1. c \in Calls /\ on[c] = a /\ c \notin resumes
      BY <1>1, <1>3a DEF Waiting
    <3>2. network[c] = network[a]
      BY <3>1 DEF NetInv
    <3>3. home[client[a]] = network[a]
      BY <1>1, ElectrumAssumption DEF DialInv
    <3> QED BY <3>2, <3>3
  <2>3. \A c \in Calls : (at[c] = "asked" =>
          /\ home[on[c]] = network[c]
          /\ sock[on[c]] = "open" => on[c] = electrum
          /\ c \notin resumes)'
    <3> SUFFICES ASSUME NEW c \in Calls, at[c] = "asked"
        PROVE  /\ home[on[c]] = network[c]
               /\ sock'[on[c]] = "open" => on[c] = client[a]
               /\ c \notin resumes'
      BY <1>1
    <3>1. home[on[c]] = network[c] /\ on[c] \in Clients
      BY DEF Alone, AloneInv, CallInv
    <3>2. sock'[on[c]] = "open" => on[c] = client[a]
      BY <1>1, <1>7, <3>1 DEF TypeInv
    <3> QED BY <1>3a, <3>1, <3>2 DEF Waiting
  <2>4. HeldInv'
    <3> SUFFICES ASSUME NEW f \in Clients \ abandoned, sock'[f] = "open", f # client[a]
        PROVE  FALSE
      BY <1>1 DEF HeldInv, Held
    <3>1. Held(f)
      BY <1>1 DEF Alone, HeldInv, TypeInv
    <3> QED BY <1>1, <1>7, <3>1, ElectrumAssumption DEF Held
  <2> QED BY <2>1, <2>2, <2>3, <2>4 DEF AloneInv
<1>10. Undivided'
  <2> SUFFICES ASSUME ~overlapped, ~split PROVE SubsInv' /\ SubsReplayed'
    BY <1>1 DEF Undivided
  <2>1. \A c \in Keeps : at'[c] = "asked" => sock'[on'[c]] # "open"
    <3>1. \A c \in Calls : on[c] # client[a]
      BY <1>1, ElectrumAssumption DEF FreshInv
    <3> QED BY <1>1, <1>7, <3>1, ElectrumAssumption DEF CallInv, TypeInv
  <2> QED BY <1>1, <2>1 DEF SubsInv, SubsReplayed, TypeInv
<1> QED BY <1>4, <1>5, <1>6, <1>6a, <1>8, <1>10

LEMMA WireKeeps ==
  ASSUME ElectrumInv, NEW a \in Calls, Wire(a)
  PROVE  ElectrumInv'
<1> USE DEF ElectrumInv
<1>1. /\ dial[a] = "replaying" /\ replayed' = replayed \ {a}
      /\ UNCHANGED <<electrum, idle, activeSubs, net, at, goal, network, on, got, abandoned, crossed,
                     overlapped, split>>
      /\ UNCHANGED sameCall
  BY DEF Wire, sameCall
<1>2. CASE electrum = None
  <2>1. Leaves(a, {client[a]}) /\ NextHost(a, {client[a]})
    BY <1>1, <1>2 DEF Leaves, Wire
  <2> QED BY <1>1, <1>2, <2>1, NextHostKeeps
<1>3. CASE electrum # None
  <2>1. heard' = heard \cup {electrum} /\ Settle(a, TRUE) /\ UNCHANGED <<sock, served, backoff>>
    BY <1>3 DEF Wire
  <2>2. Settled(a, TRUE)
    BY <2>1, SettleFacts
  <2>3. TypeInv'
    BY <1>1, <1>3, <2>1, <2>2 DEF TypeInv, Waiting, Settled
  <2>4. CallInv' /\ NetInv' /\ DialInv'
    BY <1>1, <2>2, SettleKeeps
  <2>5. DropInv'
    BY <1>1, <2>1, <2>2 DEF DropInv, CallInv, TypeInv, Waiting, Settled
  <2>5a. FreshInv'
    <3>1. \A b \in Calls : dial'[b] = "dialling" => dial[b] = "dialling" /\ client'[b] = client[b]
      BY <1>1, <2>2 DEF Settled, TypeInv
    <3>2. \A b \in Calls : client'[b] = client[b] \/ client'[b] = None
      BY <2>2 DEF Settled, TypeInv
    <3>3. \A f \in abandoned : f # None
      BY ElectrumAssumption DEF TypeInv
    <3> QED BY <1>1, <2>1, <3>1, <3>2, <3>3 DEF FreshInv
  <2>6. overlapped \/ (electrum = client[a] /\ home[electrum] = network[a])
    BY <1>1, <1>3 DEF Alone, AloneInv, DialInv
  <2>7. Alone'
    <3> SUFFICES ASSUME ~overlapped PROVE AloneInv' /\ HeldInv'
      BY <1>1 DEF Alone
    <3>1. AloneInv /\ HeldInv
      BY DEF Alone
    <3>2. \A b \in Calls : dial'[b] = "none"
      BY <1>1, <2>2, <3>1 DEF AloneInv, TypeInv, Settled
    <3>3. \A c \in resumes' : (at[c] = "wait" /\ good[c] =>
            electrum = None \/ home[electrum] = network[c])'
      <4> SUFFICES ASSUME NEW c \in resumes', at[c] = "wait", good'[c]
          PROVE  home[electrum] = network[c]
        BY <1>1
      <4>1. CASE c \in resumes /\ ~(c \in Waiting(a))
        BY <1>3, <2>2, <3>1, <4>1 DEF AloneInv, TypeInv, Settled
      <4>2. CASE c \in resumes /\ c \in Waiting(a)
        <5>1. c \in Calls /\ on[c] = a
          BY <4>2 DEF Waiting
        <5> QED BY <1>1, <4>2, <5>1 DEF CallInv
      <4>3. CASE c \notin resumes
        <5>1. c \in Calls /\ on[c] = a
          BY <2>2, <4>3 DEF Waiting, Settled
        <5>2. network[c] = network[a]
          BY <4>3, <5>1 DEF NetInv
        <5> QED BY <2>6, <5>2
      <4> QED BY <4>1, <4>2, <4>3
    <3>4. \A c \in Calls : (at[c] = "asked" =>
            /\ home[on[c]] = network[c]
            /\ sock[on[c]] = "open" => on[c] = electrum
            /\ c \in resumes => electrum = None \/ sock[electrum] # "open")'
      BY <1>1, <2>1, <2>2, <3>1 DEF AloneInv, Waiting, Settled
    <3>5. HeldInv'
      <4> SUFFICES ASSUME NEW f \in Clients \ abandoned, sock[f] = "open" PROVE Held(f)'
        BY <1>1, <2>1 DEF HeldInv
      <4>1. Held(f)
        BY <3>1 DEF HeldInv
      <4>2. \A d \in Calls : client[d] = f => d = a \/ client'[d] = f
        BY <2>2 DEF Settled, TypeInv
      <4> QED BY <1>1, <2>6, <4>1, <4>2 DEF Held
    <3> QED BY <3>2, <3>3, <3>4, <3>5 DEF AloneInv
  <2>9. Undivided'
    BY <1>1, <2>1 DEF Undivided, SubsInv, SubsReplayed
  <2> QED BY <2>3, <2>4, <2>5, <2>5a, <2>7, <2>9
<1> QED BY <1>2, <1>3

-----------------------------------------------------------------------------
(* The sockets and the answers. *)

LEMMA GoneKeeps ==
  ASSUME ElectrumInv, NEW k \in Clients, Lose(k) \/ Close(k)
  PROVE  ElectrumInv'
<1> USE DEF ElectrumInv
<1>1. /\ sock' = [sock EXCEPT ![k] = "closed"]
      /\ heard' = heard \ {k} /\ served' = [served EXCEPT ![k] = {}]
      /\ electrum' = electrum \/ (electrum' = None /\ electrum = k)
      /\ resumes' = resumes \cup {c \in Calls : on[c] = k /\ at[c] \in Dropping \cup {"asked"}}
      /\ replayed' = replayed \cup {a \in Calls : dial[a] = "replaying" /\ client[a] = k}
      /\ abandoned' = abandoned \ {k}
      /\ UNCHANGED <<connectPromise, activeSubs, net, backoff, idle, at, goal, network, on, good, got,
                     dial, hosts, client, crossed, overlapped, split>>
  BY DEF Lose, Close, Gone, sameCall, dialVars
<1>2. TypeInv'
  BY <1>1 DEF TypeInv
<1>3. CallInv' /\ DialInv' /\ DropInv'
  BY <1>1 DEF TypeInv, CallInv, DialInv, DropInv
<1>3a. NetInv'
  BY <1>1 DEF NetInv, Read, getNetwork
<1>3b. FreshInv'
  <2>1. sock[k] = "open" \/ \E c \in Calls : on[c] = k
    BY DEF Lose, Close
  <2>2. \A a \in Calls : dial[a] = "dialling" /\ client[a] # None => client[a] # k
    BY <2>1 DEF FreshInv
  <2> QED BY <1>1, <2>2, ElectrumAssumption DEF FreshInv, TypeInv
<1>4. overlapped \/ electrum \in {None, k} \/ \A c \in Calls : at[c] = "asked" => on[c] # k
  BY DEF Lose, Close, Alone, AloneInv, DropInv
<1>5. Alone'
  <2> SUFFICES ASSUME ~overlapped PROVE AloneInv' /\ HeldInv'
    BY <1>1 DEF Alone
  <2>1. \A c \in Calls : (at[c] = "asked" =>
          /\ home[on[c]] = network[c]
          /\ sock[on[c]] = "open" => on[c] = electrum
          /\ c \in resumes => electrum = None \/ sock[electrum] # "open")'
    BY <1>1, <1>4 DEF Alone, AloneInv, CallInv, TypeInv
  <2>2. HeldInv'
    BY <1>1 DEF Alone, HeldInv, Held, TypeInv
  <2> QED BY <1>1, <2>1, <2>2 DEF Alone, AloneInv
<1>7. Undivided'
  BY <1>1, ElectrumAssumption DEF Undivided, SubsInv, SubsReplayed, CallInv, TypeInv
<1> QED BY <1>2, <1>3, <1>3a, <1>3b, <1>5, <1>7

\* A late answer opens a socket that no call knows of.
LEMMA LateAnswerKeeps ==
  ASSUME ElectrumInv, NEW k \in Clients, LateAnswer(k)
  PROVE  ElectrumInv'
<1> USE DEF ElectrumInv
<1>1. /\ k \in abandoned /\ sock[k] = "dialling"
      /\ \/ sock' = [sock EXCEPT ![k] = "open"] /\ abandoned' = abandoned
         \/ sock' = [sock EXCEPT ![k] = "closed"] /\ abandoned' = abandoned \ {k}
      /\ UNCHANGED <<activeSubs, net, at, goal, network, on, got, crossed, overlapped, split, electrum,
                     connectPromise, backoff, idle, good, resumes, dial, hosts, client, replayed,
                     heard, served>>
  BY DEF LateAnswer, sameCall, dialVars
<1>2. /\ electrum # k /\ \A c \in Calls : on[c] # k /\ client[c] # k
      /\ \A f \in Clients : f # k => sock'[f] = sock[f]
  BY <1>1 DEF FreshInv, TypeInv
<1>3. TypeInv' /\ CallInv' /\ DialInv'
  BY <1>1 DEF TypeInv, CallInv, DialInv
<1>4. NetInv'
  BY <1>1 DEF NetInv, Read, getNetwork
<1>5. DropInv'
  BY <1>1, <1>2 DEF DropInv, CallInv
<1>6. FreshInv'
  BY <1>1, <1>2 DEF FreshInv, TypeInv
<1>7. Alone'
  <2> SUFFICES ASSUME ~overlapped PROVE AloneInv' /\ HeldInv'
    BY <1>1 DEF Alone
  <2>1. AloneInv'
    BY <1>1, <1>2 DEF Alone, AloneInv, CallInv, TypeInv
  <2>2. HeldInv'
    BY <1>1, <1>2 DEF Alone, HeldInv, Held, TypeInv
  <2> QED BY <2>1, <2>2
<1>8. Undivided'
  BY <1>1, <1>2, ElectrumAssumption DEF Undivided, SubsInv, SubsReplayed, CallInv, TypeInv
<1> QED BY <1>3, <1>4, <1>5, <1>6, <1>7, <1>8

LEMMA AnswerKeeps ==
  ASSUME ElectrumInv, NEW c \in Calls, NEW i \in Items, Answer(c, i)
  PROVE  ElectrumInv'
<1> USE DEF ElectrumInv
<1>1. /\ resumes = {} /\ at[c] = "asked" /\ goal[c] # "ping" /\ sock[on[c]] = "open"
      /\ on[c] \in Clients /\ i \in items[c] /\ idle' = FALSE
      /\ UNCHANGED <<electrum, net, backoff, good, resumes, replayed, connectPromise,
                     dial, hosts, client, sock, heard, abandoned, overlapped, split>>
  BY DEF Answer, Quiet, CallInv, dialVars
<1>2. /\ served' \in [Clients -> SUBSET Items]
      /\ \A k \in Clients : served[k] \subseteq served'[k]
      /\ c \in Keeps => i \in served'[on[c]]
  BY <1>1 DEF Answer, TypeInv
<1>3. /\ at' \in [Calls -> Stages] /\ goal' \in [Calls -> Goals]
      /\ network' \in [Calls -> Networks \cup {None}] /\ crossed' \subseteq Calls
      /\ on' \in [Calls -> Calls \cup Clients \cup {None}] /\ got' \in [Calls -> SUBSET Items]
      /\ \A d \in Calls \ {c} :
           /\ at'[d] = at[d] /\ on'[d] = on[d] /\ goal'[d] = goal[d] /\ network'[d] = network[d]
           /\ got'[d] = got[d] /\ (d \in crossed' <=> d \in crossed)
      /\ \/ at'[c] = "ended" /\ on'[c] = None /\ goal'[c] = "connect" /\ got'[c] = {}
         \/ /\ at'[c] = "asked" /\ on'[c] = on[c] /\ goal'[c] = goal[c] /\ network'[c] = network[c]
            /\ got'[c] = got[c] \cup {i} /\ activeSubs' = activeSubs /\ crossed' = crossed
      /\ \/ activeSubs' = activeSubs
         \/ c \in Keeps /\ activeSubs' = activeSubs \cup got[c] \cup {i}
  <2>1. CASE got[c] \cup {i} = items[c]
    <3>1. /\ Move(c, "ended", None, "connect", None)
          /\ activeSubs' = IF c \in Keeps THEN activeSubs \cup items[c] ELSE activeSubs
      BY <2>1 DEF Answer
    <3>2. activeSubs' = activeSubs \/ (c \in Keeps /\ activeSubs' = activeSubs \cup got[c] \cup {i})
      BY <2>1, <3>1
    <3> QED BY <3>1, <3>2 DEF Move, TypeInv
  <2>2. CASE got[c] \cup {i} # items[c]
    <3>1. /\ got' = [got EXCEPT ![c] = got[c] \cup {i}]
          /\ UNCHANGED <<at, on, goal, network, crossed, activeSubs>>
      BY <2>2 DEF Answer
    <3> QED BY <1>1, <3>1 DEF TypeInv
  <2> QED BY <2>1, <2>2
<1>4. TypeInv'
  BY <1>1, <1>2, <1>3 DEF TypeInv
<1>5. CallInv' /\ NetInv' /\ DialInv' /\ DropInv'
  <2>1. CallInv'
    BY <1>1, <1>3 DEF CallInv
  <2>2. DialInv' /\ DropInv'
    BY <1>1, <1>3 DEF DialInv, DropInv
  <2>3. NetInv'
    <3> SUFFICES ASSUME NEW d \in Calls
        PROVE  /\ (at[d] \in Bound => Read(d, network[d]))'
               /\ (at[d] = "wait" /\ d \notin resumes => network[d] = network[on[d]])'
      BY DEF NetInv
    <3>1. getNetwork(d)' = getNetwork(d)
      BY <1>1 DEF getNetwork
    <3>2. at[d] = "wait" => on[d] \in Calls \ {c}
      BY <1>1 DEF CallInv, DialInv
    <3> QED BY <1>1, <1>3, <3>1, <3>2 DEF NetInv, Read
  <2> QED BY <2>1, <2>2, <2>3
<1>5a. FreshInv'
  BY <1>1, <1>3, ElectrumAssumption DEF FreshInv, TypeInv
<1>6. Alone'
  <2> SUFFICES ASSUME ~overlapped PROVE AloneInv' /\ HeldInv'
    BY <1>1 DEF Alone
  <2>1. AloneInv'
    BY <1>1, <1>3 DEF Alone, AloneInv
  <2>2. HeldInv'
    BY <1>1, <1>3 DEF Alone, HeldInv, Held
  <2> QED BY <2>1, <2>2
<1>7. Undivided'
  <2> SUFFICES ASSUME ~overlapped, ~split PROVE SubsInv' /\ SubsReplayed'
    BY <1>1 DEF Undivided
  <2>1. SubsInv /\ SubsReplayed /\ on[c] = electrum
    BY <1>1 DEF Undivided, Alone, AloneInv
  <2>2. \A d \in Keeps : (at[d] = "asked" /\ sock[on[d]] = "open" => got[d] \subseteq served[on[d]])'
    BY <1>1, <1>2, <1>3, <2>1, ElectrumAssumption DEF SubsInv, CallInv
  <2>4. SubsReplayed'
    BY <1>1, <1>2, <1>3, <2>1 DEF SubsReplayed, SubsInv
  <2> QED BY <2>2, <2>4 DEF SubsInv
<1> QED BY <1>4, <1>5, <1>5a, <1>6, <1>7

\* The passing of time disturbs nothing, and a switch only who it crosses.
LEMMA TimeKeeps ==
  ASSUME ElectrumInv, BackoffEnds \/ GoesIdle \/ UNCHANGED electrumVars \/ \E n \in Networks : Switch(n)
  PROVE  ElectrumInv'
<1>1. /\ backoff' \in BOOLEAN /\ idle' \in BOOLEAN /\ net' \in Networks /\ crossed' \subseteq Calls
      /\ UNCHANGED <<electrum, connectPromise, activeSubs, at, goal, network, on, good, got, resumes,
                     dial, hosts, client, replayed, sock, heard, served, abandoned, overlapped, split>>
  BY DEF BackoffEnds, GoesIdle, Switch, electrumVars, sameCall, callVars, dialVars, sockVars, ElectrumInv, TypeInv
<1>2. TypeInv' /\ CallInv' /\ DialInv' /\ FreshInv' /\ DropInv'
  BY <1>1 DEF ElectrumInv, TypeInv, CallInv, DialInv, FreshInv, DropInv
<1>3. Alone' /\ Undivided'
  BY <1>1 DEF ElectrumInv, Alone, AloneInv, HeldInv, Held, Undivided, SubsInv, SubsReplayed
<1>4. NetInv'
  <2> SUFFICES ASSUME NEW c \in Calls, at[c] \in Bound
      PROVE  Read(c, network[c])'
    BY <1>1 DEF ElectrumInv, NetInv
  <2>1. Read(c, network[c])
    BY DEF ElectrumInv, NetInv
  <2>2. CASE UNCHANGED <<net, crossed>>
    BY <1>1, <2>1, <2>2 DEF Read, getNetwork
  <2>3. CASE crossed' = crossed \cup {d \in Calls : at[d] \notin {"new", "ended"} /\ override[d] = None}
    BY <1>1, <2>1, <2>3 DEF Read, getNetwork
  <2> QED BY <2>2, <2>3 DEF BackoffEnds, GoesIdle, Switch, electrumVars, sameCall
<1> QED BY <1>2, <1>3, <1>4 DEF ElectrumInv

-----------------------------------------------------------------------------
(* The theorems. *)

LEMMA InvInit == ElectrumInit => ElectrumInv
<1> SUFFICES ASSUME ElectrumInit PROVE ElectrumInv
  OBVIOUS
<1>1. TypeInv
  BY DEF ElectrumInit, TypeInv
<1>2. CallInv /\ NetInv /\ DialInv /\ FreshInv /\ DropInv
  BY DEF ElectrumInit, CallInv, NetInv, DialInv, FreshInv, DropInv
<1>3. Alone /\ Undivided
  BY ElectrumAssumption DEF ElectrumInit, Alone, AloneInv, HeldInv, Undivided, SubsInv, SubsReplayed
<1> QED BY <1>1, <1>2, <1>3 DEF ElectrumInv

LEMMA InvStep ==
  ASSUME ElectrumInv, [ElectrumNext]_electrumVars
  PROVE  ElectrumInv'
<1>1. ASSUME NEW c \in Calls, CallStep(c)
      PROVE  ElectrumInv'
  BY <1>1, CallStepKeeps
<1>2. ASSUME NEW c \in Calls, NEW i \in Items, Answer(c, i)
      PROVE  ElectrumInv'
  BY <1>2, AnswerKeeps
<1>3. ASSUME NEW a \in Calls, DialOk(a) \/ DialFails(a) \/ DialTimesOut(a) \/ Wire(a)
      PROVE  ElectrumInv'
  BY <1>3, DialOkKeeps, DialFailsKeeps, WireKeeps
<1>4. ASSUME NEW k \in Clients, Close(k) \/ Lose(k) \/ LateAnswer(k)
      PROVE  ElectrumInv'
  BY <1>4, GoneKeeps, LateAnswerKeeps
<1> QED BY <1>1, <1>2, <1>3, <1>4, TimeKeeps DEF ElectrumNext, Progress, CallStep

\* The inductive invariant holds in every reachable state of ElectrumServer.
THEOREM ElectrumInvariant == ElectrumSpec => []ElectrumInv
BY InvInit, InvStep, PTL DEF ElectrumSpec

\* ElectrumServer's type invariant, and that connectPromise is cleared when its
\* promise settles (the finally of electrumConnect), so no call awaits for ever
\* a promise that is gone.
THEOREM ElectrumTypeCorrect == ElectrumSpec => []ElectrumTypeOK
<1>1. ElectrumInv => ElectrumTypeOK
  BY DEF ElectrumInv, TypeInv, CallInv, DialInv, ElectrumTypeOK
<1> QED BY <1>1, ElectrumInvariant, PTL

\* Every retry of requestMany, request and ensureFreshConnection asks a server of
\* the network it has just read from the store, and that is the call's own as long
\* as the app does not switch under it; while connect promises do not overlap.
THEOREM NetworksStayApart == ElectrumSpec => []RightNetworkAlone
<1>1. ElectrumInv => RightNetworkAlone
  BY DEF ElectrumInv, Alone, AloneInv, NetInv, Read, RightNetworkAlone, RightNetwork, Asked
<1> QED BY <1>1, ElectrumInvariant, PTL

\* electrumDisconnect, a failed host and a lost socket leave no open socket without
\* an owner: only a native connect that answers after its timer does, and always
\* (the first half while connect promises do not overlap).
THEOREM SocketsAreOwned == ElectrumSpec => []NoLeak
<1>1. ASSUME ElectrumInv PROVE NoLeak
  <2> SUFFICES ASSUME ~overlapped, NEW k \in Clients, sock[k] = "open"
      PROVE  Held(k) <=> k \notin abandoned
    BY DEF NoLeak
  <2>1. k \notin abandoned => Held(k)
    BY <1>1 DEF ElectrumInv, Alone, HeldInv
  <2>2. k \in abandoned => ~Held(k)
    BY <1>1 DEF ElectrumInv, FreshInv, Held
  <2> QED BY <2>1, <2>2
<1> QED BY <1>1, ElectrumInvariant, PTL

\* The replay of activeSubs brings every recorded subscription to the shared
\* server, unless a batch was divided or promises overlapped.
THEOREM SubscriptionsAreReplayed == ElectrumSpec => []SubsReplayed
<1>1. ElectrumInv => SubsReplayed
  BY DEF ElectrumInv, Undivided, SubsReplayed
<1> QED BY <1>1, ElectrumInvariant, PTL
=============================================================================
