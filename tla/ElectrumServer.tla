--------------------------- MODULE ElectrumServer ---------------------------
(***************************************************************************)
(* The shared Electrum connection of apis/ElectrumServer/ElectrumServer.ts:*)
(* one socket, one connect promise and one registry of subscriptions that  *)
(* every caller of the app reads and writes between its awaits.            *)
(*                                                                         *)
(* JavaScript runs to the next await: an action is the code between two.   *)
(* What an event resolves runs before the next event (Quiet): the calls in *)
(* resumes, the promises in replayed and the disconnects, in any order.    *)
(*                                                                         *)
(* Hosts, their health scores and latencies are left out: which server of  *)
(* the network is dialled does not matter here.                            *)
(***************************************************************************)
EXTENDS Naturals

CONSTANTS
  Calls,      \* calls of request, requestMany, subscribeMany, electrumDisconnect
  Batches,    \* those of requestMany and subscribeMany
  Keeps,      \* those of subscribeMany
  Closes,     \* those of electrumDisconnect
  Networks, override, \* override[c]: networkOverride of the call, or None
  Items, items,       \* items[c]: the members of a batch, one of a request
  Clients,    \* sockets; a closed one that nobody holds is used again
  home,       \* home[k]: the network of the servers that k is used for
  HostsPerRound,  \* of a network: its servers, MAX_CONNECT_HOSTS_PER_ROUND at most
  None

ASSUME ElectrumAssumption ==
  /\ Keeps \subseteq Batches /\ Batches \subseteq Calls \ Closes /\ Closes \subseteq Calls
  /\ override \in [Calls -> Networks \cup {None}] /\ home \in [Clients -> Networks]
  /\ items \in [Calls -> SUBSET Items]
  /\ HostsPerRound \in [Networks -> Nat \ {0}]
  /\ None \notin Calls \cup Clients \cup Networks /\ Calls \cap Clients = {}

VARIABLES
  electrum, connectPromise, activeSubs,  \* as in the code
  net,        \* the store's network
  backoff,    \* now < nextAllowedConnectTs
  idle,       \* no success for IDLE_RECONNECT_AFTER_MS
  at,         \* at[c]: what call c awaits
  goal,       \* goal[c]: what it connects for
  network,    \* network[c]: the network it read last; None before it starts and at its end
  on,         \* on[c]: the client it uses or disconnects, or the call whose
              \* connect promise it awaits
  good,       \* good[c]: that promise was fulfilled
  got,        \* got[c]: the members answered
  resumes,    \* calls whose await is over
  dial,       \* dial[c]: the connect promise of c: "none", "dialling", "replaying"
  hosts,      \* hosts[c]: hosts left in its round
  client,     \* client[c]: the client it opens
  replayed,   \* connect promises whose replay is over
  sock,       \* sock[k]: "closed", "dialling" or "open"
  abandoned,  \* clients disconnected before electrum_tcp_connect had answered
  heard,      \* clients with the handler of markSocketStale
  served,     \* served[k]: the subscriptions its server has
  crossed,    \* history: calls under way since before the store's network changed
  overlapped, \* history: two connect promises ran at once
  split       \* history: a batch was divided between two servers

callVars == <<at, goal, network, on, good, got>>
dialVars == <<dial, hosts, client>>
sockVars == <<sock, heard, served>>
electrumVars == <<electrum, connectPromise, activeSubs, net, backoff, idle, callVars, resumes,
                  dialVars, replayed, sockVars, abandoned, crossed, overlapped, split>>

\* "wait": for a connect promise of its own network, "waitOther": of another one.
\* "drop": electrumDisconnect on the way to electrumConnect;
\* "dropOther": the one after another network's connect promise.
Stages == {"new", "drop", "dropOther", "close", "wait", "waitOther", "asked", "ended"}
Dropping == {"drop", "dropOther", "close"}
Waits == {"wait", "waitOther"}

\* Types, and the connect promise is neither left behind when it has settled
\* nor awaited by a call that nothing will wake.
ElectrumTypeOK ==
  /\ electrum \in Clients \cup {None} /\ connectPromise \in Calls \cup {None}
  /\ activeSubs \subseteq Items /\ net \in Networks /\ backoff \in BOOLEAN /\ idle \in BOOLEAN
  /\ network \in [Calls -> Networks \cup {None}] /\ at \in [Calls -> Stages]
  /\ goal \in [Calls -> {"connect", "ping", "first", "second", "rest"}]
  /\ on \in [Calls -> Calls \cup Clients \cup {None}]
  /\ good \in [Calls -> BOOLEAN] /\ got \in [Calls -> SUBSET Items]
  /\ resumes \subseteq Calls /\ replayed \subseteq Calls
  /\ dial \in [Calls -> {"none", "dialling", "replaying"}]
  /\ hosts \in [Calls -> Nat] /\ client \in [Calls -> Clients \cup {None}]
  /\ sock \in [Clients -> {"closed", "dialling", "open"}]
  /\ heard \subseteq Clients /\ served \in [Clients -> SUBSET Items] /\ abandoned \subseteq Clients
  /\ crossed \subseteq Calls /\ overlapped \in BOOLEAN /\ split \in BOOLEAN
  /\ connectPromise # None => dial[connectPromise] # "none"
  /\ \A c \in Calls : at[c] \in Waits /\ c \notin resumes => dial[on[c]] # "none"

\* getNetworkAndServers, at the time it is called.
getNetwork(c) == IF override[c] = None THEN net ELSE override[c]

ElectrumInit ==
  /\ electrum = None /\ connectPromise = None /\ activeSubs = {} /\ backoff = FALSE /\ idle = FALSE
  /\ net \in Networks /\ network = [c \in Calls |-> None]
  /\ at = [c \in Calls |-> "new"]
  /\ goal = [c \in Calls |-> IF c \in Batches THEN "connect" ELSE "first"]
  /\ on = [c \in Calls |-> None]
  /\ good = [c \in Calls |-> FALSE] /\ got = [c \in Calls |-> {}]
  /\ resumes = {} /\ replayed = {}
  /\ dial = [c \in Calls |-> "none"] /\ hosts = [c \in Calls |-> 0]
  /\ client = [c \in Calls |-> None]
  /\ sock = [k \in Clients |-> "closed"]
  /\ heard = {} /\ served = [k \in Clients |-> {}] /\ abandoned = {}
  /\ crossed = {} /\ overlapped = FALSE /\ split = FALSE

-----------------------------------------------------------------------------
(* What a call does next.  Each operator of this section assigns at, goal,  *)
(* network, on, got, crossed, activeSubs, connectPromise, overlapped,       *)
(* dialVars and sockVars.                                                   *)

Quiet == resumes = {} /\ replayed = {} /\ \A c \in Calls : at[c] \notin Dropping

\* Call c goes on with network n; a call that ends or starts over forgets the
\* members it had.
Move(c, what, k, g, n) ==
  /\ at' = [at EXCEPT ![c] = what] /\ on' = [on EXCEPT ![c] = k]
  /\ goal' = [goal EXCEPT ![c] = g] /\ network' = [network EXCEPT ![c] = n]
  /\ got' = [got EXCEPT ![c] = IF what = "ended" \/ g = "second" THEN {} ELSE got[c]]
  /\ crossed' = IF what = "ended" THEN crossed \ {c} ELSE crossed

NoDial == UNCHANGED <<connectPromise, overlapped, dialVars, sockVars>>

\* A result or an exception; subscribeMany records the members it has.
End(c, members) ==
  /\ Move(c, "ended", None, "connect", None) /\ NoDial
  /\ activeSubs' = IF c \in Keeps THEN activeSubs \cup members ELSE activeSubs

\* The retry of the lost members returns what it has; other failures throw.
Throw(c, g) == End(c, IF g = "rest" THEN got[c] ELSE {})

\* The request, the ping or the batch goes out on the client there is.
Ask(c, g, n) == Move(c, "asked", electrum, g, n) /\ NoDial /\ UNCHANGED activeSubs

\* electrumDisconnect up to its await.
Drop(c, what, g, n) == Move(c, what, electrum, g, n) /\ NoDial /\ UNCHANGED activeSubs

Free(a, n, shut) == {k \in Clients :
  /\ home[k] = n /\ electrum # k /\ (sock[k] = "closed" \/ k \in shut)
  /\ \A c \in Calls : on[c] # k /\ (c # a => client[c] # k)}

\* A new client of network n for connect promise a, which closes those of shut;
\* a host that gets none does not answer.
Open(a, n, left, shut) ==
  LET free == Free(a, n, shut)
      k == IF free = {} THEN None ELSE CHOOSE f \in free : TRUE IN
  /\ hosts' = [hosts EXCEPT ![a] = left] /\ client' = [client EXCEPT ![a] = k]
  /\ dial' = [dial EXCEPT ![a] = "dialling"]
  /\ sock' = [f \in Clients |-> IF f = k THEN "dialling" ELSE IF f \in shut THEN "closed" ELSE sock[f]]
  /\ heard' = heard \ {k} /\ served' = [f \in Clients |-> IF f \in {k} \cup shut THEN {} ELSE served[f]]

\* A new connect promise, which replaces one that may be there.
Create(c, g, n) ==
  /\ Move(c, "wait", c, g, n)
  /\ connectPromise' = c
  /\ overlapped' = (overlapped \/ \E d \in Calls : dial[d] # "none")
  /\ Open(c, n, HostsPerRound[n], {}) /\ UNCHANGED activeSubs

\* connectPromiseNetwork is the network its own call read.
Join(c, g, n) ==
  /\ Move(c, IF network[connectPromise] = n THEN "wait" ELSE "waitOther", connectPromise, g, n)
  /\ UNCHANGED <<activeSubs, connectPromise, overlapped, dialVars, sockVars>>

\* electrumConnect once there is no client.  (While a disconnect ends the store's
\* network stays: what electrumConnect reads before and after it is the same.)
Connect(c, g) ==
  \/ backoff /\ Throw(c, g)
  \/ ~backoff /\ connectPromise # None /\ Join(c, g, getNetwork(c))
  \/ ~backoff /\ connectPromise = None /\ Create(c, g, getNetwork(c))

ensureFresh_noCheck(c) ==
  \/ electrum # None /\ Ask(c, IF idle THEN "ping" ELSE "first", getNetwork(c))
  \/ electrum = None /\ Connect(c, "first")

\* ensureFreshConnection: reads the network again, and pings an idle server.
ensureFresh(c) ==
  \/ /\ electrum # None /\ home[electrum] = getNetwork(c)
     /\ Ask(c, IF idle THEN "ping" ELSE "first", getNetwork(c))
  \/ electrum # None /\ home[electrum] # getNetwork(c) /\ Drop(c, "drop", "first", getNetwork(c))
  \/ electrum = None /\ Connect(c, "first")

\* electrumConnect has answered a call that read network n; only requestMany looks
\* at the network again.  A batch without a client goes to its catch.
Use(c, g, n) ==
  \/ g = "connect" /\ ensureFresh(c)
  \/ g # "connect" /\ electrum # None /\ Ask(c, g, n)
  \/ g = "first" /\ electrum = None /\ c \in Batches /\ Connect(c, "second")
  \/ g \in {"second", "rest"} /\ electrum = None /\ Throw(c, g)
  \/ g = "first" /\ electrum = None /\ c \notin Batches /\ Throw(c, g)

\* electrumConnect at the start: a client of another network is dropped first.
Enter(c) ==
  \/ electrum # None /\ home[electrum] # getNetwork(c) /\ Drop(c, "drop", goal[c], getNetwork(c))
  \/ electrum # None /\ home[electrum] = getNetwork(c) /\ Use(c, goal[c], getNetwork(c))
  \/ electrum = None /\ Connect(c, goal[c])

\* The next server: electrumDisconnect, then electrumConnect, which reads the
\* network again.
Again(c, g) ==
  \/ electrum # None /\ Drop(c, "drop", g, getNetwork(c))
  \/ electrum = None /\ Connect(c, g)

-----------------------------------------------------------------------------
(* The calls. *)

Start(c) ==
  /\ Quiet /\ at[c] = "new"
  /\ \/ c \notin Closes /\ Enter(c)
     \/ c \in Closes /\ electrum = None /\ End(c, {})
     \/ c \in Closes /\ electrum # None /\ Drop(c, "close", goal[c], None)
  /\ UNCHANGED <<electrum, net, backoff, idle, good, resumes, replayed, abandoned, split>>

\* The disconnect of on[c] is over; electrum is cleared whatever it is now.
Dropped(c) ==
  /\ c \in resumes /\ at[c] \in Dropping
  /\ electrum' = None /\ resumes' = resumes \ {c}
  /\ \/ at[c] = "drop" /\ Connect(c, goal[c])
     \/ at[c] = "dropOther" /\ Create(c, goal[c], network[c])
     \/ at[c] = "close" /\ End(c, {})
  /\ UNCHANGED <<net, backoff, idle, good, replayed, abandoned, split>>

OtherLeft_noDiscard(c) ==
  \/ electrum # None /\ home[electrum] = network[c] /\ Use(c, goal[c], network[c])
  \/ (electrum # None => home[electrum] # network[c]) /\ Create(c, goal[c], network[c])

\* The connect promise of another network was only waited for: the client it
\* left is discarded, then a promise is made, whatever connectPromise is now.
OtherLeft(c) ==
  \/ electrum # None /\ home[electrum] = network[c] /\ Use(c, goal[c], network[c])
  \/ electrum # None /\ home[electrum] # network[c] /\ Drop(c, "dropOther", goal[c], network[c])
  \/ electrum = None /\ Create(c, goal[c], network[c])

\* The connect promise that c awaits is settled.
Woken(c) ==
  /\ c \in resumes /\ at[c] \in Waits
  /\ resumes' = resumes \ {c}
  /\ \/ at[c] = "wait" /\ good[c] /\ Use(c, goal[c], network[c])
     \/ at[c] = "wait" /\ ~good[c] /\ Throw(c, goal[c])
     \/ at[c] = "waitOther" /\ OtherLeft(c)
  /\ backoff' = (at[c] = "wait" /\ backoff)  \* resetBackoff
  /\ good' = [good EXCEPT ![c] = FALSE]
  /\ UNCHANGED <<electrum, net, idle, replayed, abandoned, split>>

\* A ping is answered: the batch goes to the client there is now.
Pong(c) ==
  /\ Quiet /\ at[c] = "asked" /\ goal[c] = "ping" /\ sock[on[c]] = "open"
  /\ Use(c, "first", network[c]) /\ idle' = FALSE
  /\ UNCHANGED <<electrum, net, backoff, good, resumes, replayed, abandoned, split>>

\* One member is answered; the last one ends the call.
Answer(c, i) ==
  /\ Quiet /\ at[c] = "asked" /\ goal[c] # "ping" /\ sock[on[c]] = "open"
  /\ i \in items[c] \ got[c] /\ idle' = FALSE
  /\ served' = IF c \in Keeps THEN [served EXCEPT ![on[c]] = served[on[c]] \cup {i}] ELSE served
  /\ IF got[c] \cup {i} = items[c]
     THEN /\ Move(c, "ended", None, "connect", None)
          /\ activeSubs' = IF c \in Keeps THEN activeSubs \cup items[c] ELSE activeSubs
     ELSE got' = [got EXCEPT ![c] = got[c] \cup {i}] /\ UNCHANGED <<at, on, goal, network, crossed, activeSubs>>
  /\ UNCHANGED <<electrum, net, backoff, good, resumes, replayed, connectPromise,
                 dialVars, sock, heard, abandoned, overlapped, split>>

Timeout_never(c) == FALSE /\ UNCHANGED electrumVars

\* withTimeout, or a request that no socket takes: what came is dropped too.
Timeout(c) ==
  /\ Quiet /\ at[c] = "asked"
  /\ \/ goal[c] = "ping" /\ Again(c, "first")
     \/ goal[c] = "first" /\ Again(c, "second")
     \/ goal[c] = "second" /\ End(c, {})
     \/ goal[c] = "rest" /\ End(c, got[c])
  /\ UNCHANGED <<electrum, net, backoff, idle, good, resumes, replayed, abandoned, split>>

\* The socket of the request is gone: a batch keeps the members that came and
\* asks the next server for the others, once.
Lost(c) ==
  LET partial == goal[c] = "first" /\ got[c] # {} IN
  /\ c \in resumes /\ at[c] = "asked"
  /\ resumes' = resumes \ {c}
  /\ \/ goal[c] = "ping" /\ Again(c, "first")
     \/ goal[c] = "first" /\ ~partial /\ Again(c, "second")
     \/ partial /\ Again(c, "rest")
     \/ goal[c] \in {"second", "rest"} /\ End(c, got[c])
  /\ split' = (split \/ partial)
  /\ UNCHANGED <<electrum, net, backoff, idle, good, replayed, abandoned>>

\* The app selects the other network; the calls under way are not told.
Switch(n) ==
  /\ Quiet /\ n # net /\ net' = n
  /\ crossed' = crossed \cup {c \in Calls : at[c] \notin {"new", "ended"} /\ override[c] = None}
  /\ UNCHANGED <<electrum, connectPromise, activeSubs, backoff, idle, callVars, resumes,
                 dialVars, replayed, sockVars, abandoned, overlapped, split>>

-----------------------------------------------------------------------------
(* The connect promises and the sockets. *)

Settle_keepsPromise(a, ok) ==
  LET waiting == {c \in Calls : at[c] \in Waits /\ on[c] = a} IN
  /\ dial' = [dial EXCEPT ![a] = "none"] /\ client' = [client EXCEPT ![a] = None]
  /\ resumes' = resumes \cup waiting
  /\ good' = [c \in Calls |-> IF c \in waiting THEN ok ELSE good[c]]
  /\ hosts' = [hosts EXCEPT ![a] = 0] /\ UNCHANGED connectPromise

\* finally: connectPromise is cleared, and those who await this one go on.
Settle(a, ok) ==
  LET waiting == {c \in Calls : at[c] \in Waits /\ on[c] = a} IN
  /\ connectPromise' = None
  /\ dial' = [dial EXCEPT ![a] = "none"] /\ client' = [client EXCEPT ![a] = None]
  /\ resumes' = resumes \cup waiting
  /\ good' = [c \in Calls |-> IF c \in waiting THEN ok ELSE good[c]]
  /\ hosts' = [hosts EXCEPT ![a] = 0]

\* catch of a host: next host, or back off.
NextHost(a, shut) ==
  IF hosts[a] > 1
  THEN /\ Open(a, network[a], hosts[a] - 1, shut)
       /\ UNCHANGED <<connectPromise, resumes, good, backoff>>
  ELSE /\ sock' = [k \in Clients |-> IF k \in shut THEN "closed" ELSE sock[k]]
       /\ served' = [k \in Clients |-> IF k \in shut THEN {} ELSE served[k]]
       /\ backoff' = TRUE
       /\ Settle(a, FALSE) /\ UNCHANGED heard

\* What no step of a connect promise or a socket changes.
sameCall == <<activeSubs, net, at, goal, network, on, got, crossed, overlapped, split>>

\* The server refuses, or is too slow for the handshake: disconnect closes it.
DialFails(a) ==
  /\ Quiet /\ dial[a] = "dialling" /\ NextHost(a, {client[a]})
  /\ UNCHANGED <<sameCall, electrum, idle, replayed, abandoned>>

\* The timer comes before electrum_tcp_connect answers: there is no connId yet,
\* so disconnect closes nothing.
DialTimesOut(a) ==
  /\ Quiet /\ dial[a] = "dialling" /\ client[a] # None /\ NextHost(a, {})
  /\ abandoned' = abandoned \cup {client[a]}
  /\ UNCHANGED <<sameCall, electrum, idle, replayed>>

\* electrum_tcp_connect answers a client that was disconnected meanwhile.
LateAnswer(k) ==
  /\ Quiet /\ k \in abandoned /\ sock[k] = "dialling"
  /\ \/ sock' = [sock EXCEPT ![k] = "open"] /\ UNCHANGED abandoned
     \/ sock' = [sock EXCEPT ![k] = "closed"] /\ abandoned' = abandoned \ {k}
  /\ UNCHANGED <<sameCall, electrum, connectPromise, backoff, idle, good, resumes, dialVars,
                 replayed, heard, served>>

DialOk_noReplay(a) ==
  /\ Quiet /\ dial[a] = "dialling" /\ client[a] # None
  /\ electrum' = client[a] /\ backoff' = FALSE /\ idle' = FALSE
  /\ sock' = [sock EXCEPT ![client[a]] = "open"]
  /\ heard' = heard \cup {client[a]} /\ Settle(a, TRUE)
  /\ UNCHANGED <<sameCall, replayed, served, abandoned>>

\* The client is the shared one before its subscriptions are replayed; the
\* handler of markSocketStale comes after the replay.
DialOk(a) ==
  /\ Quiet /\ dial[a] = "dialling" /\ client[a] # None
  /\ electrum' = client[a] /\ backoff' = FALSE /\ idle' = FALSE
  /\ sock' = [sock EXCEPT ![client[a]] = "open"]
  /\ served' = [served EXCEPT ![client[a]] = activeSubs]
  /\ IF activeSubs = {}
     THEN heard' = heard \cup {client[a]} /\ Settle(a, TRUE)
     ELSE /\ dial' = [dial EXCEPT ![a] = "replaying"]
          /\ UNCHANGED <<heard, hosts, client, connectPromise, resumes, good>>
  /\ UNCHANGED <<sameCall, replayed, abandoned>>

\* The replay is over, answered or lost: the shared client is wired, or there
\* is none any more, which throws.
Wire(a) ==
  /\ dial[a] = "replaying" /\ (a \in replayed \/ (Quiet /\ sock[client[a]] = "open"))
  /\ replayed' = replayed \ {a}
  /\ IF electrum = None THEN NextHost(a, {client[a]})
     ELSE heard' = heard \cup {electrum} /\ Settle(a, TRUE) /\ UNCHANGED <<sock, served, backoff>>
  /\ UNCHANGED <<sameCall, electrum, idle, abandoned>>

\* 'disconnected' of client k: its requests, disconnects and replay are over.
Gone(k) ==
  /\ sock' = [sock EXCEPT ![k] = "closed"]
  /\ heard' = heard \ {k} /\ served' = [served EXCEPT ![k] = {}]
  /\ electrum' = IF k \in heard /\ electrum = k THEN None ELSE electrum
  /\ resumes' = resumes \cup {c \in Calls : on[c] = k /\ at[c] \in Dropping \cup {"asked"}}
  /\ replayed' = replayed \cup {a \in Calls : dial[a] = "replaying" /\ client[a] = k}
  /\ abandoned' = abandoned \ {k}
  /\ UNCHANGED <<sameCall, connectPromise, backoff, idle, good, dialVars>>

Lose(k) == Quiet /\ sock[k] = "open" /\ Gone(k)

\* A disconnect closes the socket, which reports that it is closed at once.
Close(k) ==
  /\ \E c \in Calls \ resumes : on[c] = k /\ at[c] \in Dropping
  /\ Gone(k)

BackoffEnds ==
  /\ Quiet /\ backoff /\ backoff' = FALSE
  /\ UNCHANGED <<sameCall, electrum, connectPromise, idle, good, resumes, dialVars, replayed,
                 sockVars, abandoned>>

\* The idle time is longer than every timer of a request or a connection.
GoesIdle ==
  /\ Quiet /\ electrum # None /\ ~idle /\ idle' = TRUE
  /\ \A c \in Calls : at[c] # "asked" /\ dial[c] # "dialling"
  /\ UNCHANGED <<sameCall, electrum, connectPromise, backoff, good, resumes, dialVars, replayed,
                 sockVars, abandoned>>

-----------------------------------------------------------------------------
Progress ==
  \/ \E c \in Calls : \/ Dropped(c) \/ Woken(c) \/ Lost(c) \/ Timeout(c) \/ Pong(c)
                      \/ \E i \in Items : Answer(c, i)
                      \/ DialOk(c) \/ DialFails(c) \/ DialTimesOut(c) \/ Wire(c)
  \/ \E k \in Clients : Close(k)

ElectrumNext ==
  \/ Progress \/ BackoffEnds \/ GoesIdle
  \/ \E c \in Calls : Start(c)
  \/ \E k \in Clients : Lose(k) \/ LateAnswer(k)
  \/ \E n \in Networks : Switch(n)

\* An await ends: by an answer, by its timer, by the socket's loss.
ElectrumSpec == ElectrumInit /\ [][ElectrumNext]_electrumVars /\ WF_electrumVars(Progress)

-----------------------------------------------------------------------------
Asked == {c \in Calls : at[c] = "asked"}

\* A request is asked of a server of the network that its call read last, and
\* this is the call's own network unless the app switched while it was under way:
\* a call that is crossed goes on with members of the old network, and every
\* retry and ensureFreshConnection read the new one.
RightNetwork == \A c \in Asked :
  home[on[c]] = network[c] /\ (c \notin crossed => network[c] = getNetwork(c))

\* The same while the connect promise keeps connections from overlapping.
RightNetworkAlone == overlapped \/ RightNetwork

\* Someone will use or close k: it is the shared client, that of a connect
\* promise, or about to be closed by the call that holds it.
Held(k) == k = electrum \/ \E c \in Calls : client[c] = k \/ (on[c] = k /\ at[c] \in Dropping)

\* No open socket is forgotten, except those of a native connect that answered
\* after its timer: nothing closes these but their server.
NoLeak ==
  overlapped \/ \A k \in Clients : sock[k] = "open" => (Held(k) <=> k \notin abandoned)

\* Every recorded subscription is on the shared server, across reconnects,
\* unless a batch was divided between two servers.
SubsReplayed ==
  overlapped \/ split \/ electrum = None \/ sock[electrum] # "open"
  \/ activeSubs \subseteq served[electrum]

\* Records every sub in activeSubs so reconnect resubscribes them all.
SubsFollowSocket ==
  overlapped \/ electrum = None \/ sock[electrum] # "open" \/ activeSubs \subseteq served[electrum]

\* Every call that starts ends, whatever the servers, the sockets and the others
\* do: as none starts twice, there is again and again none under way.
Settles == []<>(\A c \in Calls : at[c] \in {"new", "ended"})
=============================================================================
