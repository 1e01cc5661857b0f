----------------------- MODULE OutboundTracker_proofs -----------------------
(***************************************************************************)
(* What the tracker keeps of a transaction once its bytes are out, for any *)
(* number of windows and any interleaving of their unlocked operations.    *)
(*                                                                         *)
(* The argument: every record that is stored or about to be written over   *)
(* the stored one is fit (Fit), so a lost update can replace a record but  *)
(* never by a worse one; and no flow is ever at a step that removes the    *)
(* record of a transaction that may be live.                               *)
(***************************************************************************)
EXTENDS OutboundTracker, TLAPS

\* No flow of this instance stores a text that reads as a refusal.
NoRefusals == TorOnly \/ ~knows

\* The flow that relays a Fusion.
Relayer == IF role = "peer" THEN "delayed" ELSE "main"

USE DEF TorOnly, NoRefusals, Relayer, path

RelaySteps == {"reserve", "relay", "park", "refused"}
CompleteSteps == {"record", "broadcasted", "finish", "stamp"}

\* The steps a flow is ever at.
OnPath(f, s) ==
  \/ f = "main" /\ s = "done"
  \/ f = "main" /\ role = "sender" /\ s \in SendSteps
  \/ f = "main" /\ TorOnly /\ s \in CompleteSteps
  \/ f = "main" /\ role = "coordinator" /\ s \in RelaySteps
  \/ f = "delayed" /\ s = "done"
  \/ f = "delayed" /\ role = "peer" /\ s \in RelaySteps
  \/ f = "user" /\ s \in {"check", "done"}
  \/ f = "user" /\ ~TorOnly /\ s = "removing"
  \/ f \in Windows /\ s \in {"idle", "down", "stale", "local", "spent"}
  \/ f \in Windows /\ ~TorOnly /\ s \in PassSteps
  \/ f \in Windows /\ ~TorOnly /\ s \in SendSteps \ {"enrich"}

\* What any write may leave in the store.
Fit(r) ==
  r # None =>
    /\ r \in Record
    /\ r.state \in {"seen", "broadcasted"} => ~r.pending
    /\ TorOnly => r.ins
    /\ NoRefusals => r.err # "final"

Shape ==
  /\ role \in {"sender", "coordinator", "peer"} /\ knows \in BOOLEAN
  /\ net \in BOOLEAN /\ valid \in BOOLEAN /\ handed \in BOOLEAN
  /\ row \in BOOLEAN /\ coin \in BOOLEAN
  /\ at \in [Flows -> Steps]
  /\ mid \in [Flows -> Record \cup {None}]
  /\ prior \in [Flows -> Errors \cup {None}]
  /\ \A f \in Flows : OnPath(f, at[f])

RecordsFit == Fit(rec) /\ \A f \in Flows : Fit(mid[f])

RefusalsAreTrue ==
  /\ net => valid
  /\ \A f \in Flows : at[f] = "refused" => ~valid
  /\ NoRefusals => \A f \in Flows : prior[f] # "final" /\ at[f] \notin {"dropping", "known"}

\* A flow about to hand bytes over has written its record.
Writing == {"rearm", "node", "relay"}
About(f) == at[f] \in Writing /\ mid[f] = None

LiveHasRecord ==
  NoRefusals /\ role # "peer" /\ valid /\ at["user"] # "done"
  /\ (net \/ \E f \in Flows : About(f))
    => rec # None

HandedHasRecord ==
  TorOnly =>
    /\ handed \/ About(Relayer) => rec # None
    /\ handed => at[Relayer] \notin {"reserve", "relay", "refused"}

TrackerInv ==
  /\ Shape /\ RecordsFit /\ RefusalsAreTrue /\ LiveHasRecord /\ HandedHasRecord

-----------------------------------------------------------------------------
(* Names, and what the tracker's operations return. *)

LEMMA FlowNames ==
  /\ {"main", "delayed", "user", Relayer} \subseteq Flows
  /\ Windows \subseteq Flows
  /\ \A w \in Windows : w # "main" /\ w # "delayed" /\ w # "user"
  /\ Relayer # "user" /\ Relayer \notin Windows
BY TrackerAssumption DEF Flows, Relayer

\* trackAttempt makes a record, and a fit one out of a fit one.
LEMMA TrackFit ==
  ASSUME NEW r, Fit(r), NEW ins \in BOOLEAN, TorOnly => ins
  PROVE  /\ Fit(trackAttempt(r, ins)) /\ trackAttempt(r, ins) # None
         /\ trackAttempt(r, ins) \in Record
<1>1. CASE r = None
  <2>1. trackAttempt(r, ins) \in Record
    BY <1>1 DEF trackAttempt, Record, States, Errors, ReleaseAge
  <2>. QED  BY <1>1, <2>1, NoneAssumption DEF trackAttempt, Fit
<1>2. CASE r # None
  <2>1. r \in Record  BY <1>2 DEF Fit
  <2>2. trackAttempt(r, ins) \in Record
    BY <1>2, <2>1 DEF trackAttempt, Record, States, ReleaseAge
  <2>. QED  BY <1>2, <2>1, <2>2, NoneAssumption DEF trackAttempt, Fit, Record
<1>. QED  BY <1>1, <1>2

\* markState stores what it is told and clears the verification of what is done.
LEMMA MarkFit ==
  ASSUME NEW r, Fit(r), r # None, NEW state \in States, NEW err \in Errors,
         NoRefusals => err # "final"
  PROVE  Fit(markState(r, state, err)) /\ markState(r, state, err) \in Record
<1>1. r \in Record  BY DEF Fit
<1>2. markState(r, state, err) \in Record
  BY <1>1 DEF markState, Record, ReleaseAge
<1>. QED  BY <1>1, <1>2 DEF markState, Fit, Record

\* markVerificationPending leaves a done record alone and parks any other.
LEMMA PendingFit ==
  ASSUME NEW r, Fit(r), r # None
  PROVE  /\ Fit(markVerificationPending(r))
         /\ markVerificationPending(r) \in Record \cup {None}
<1>1. r \in Record  BY DEF Fit
<1>2. CASE r.state \in {"seen", "broadcasted"}
  BY <1>2 DEF markVerificationPending, Fit
<1>3. CASE r.state \notin {"seen", "broadcasted"}
  <2>1. markVerificationPending(r) \in Record
    BY <1>1, <1>3 DEF markVerificationPending, Record, States, Errors, ReleaseAge
  <2>. QED  BY <1>1, <1>3, <2>1 DEF markVerificationPending, Fit, Record
<1>. QED  BY <1>2, <1>3

LEMMA MarkedFit ==
  ASSUME Fit(rec), NEW state \in States, NEW err \in Errors, NoRefusals => err # "final"
  PROVE  Fit(Marked(state, err)) /\ Marked(state, err) \in Record \cup {None}
<1>1. CASE rec = None  BY <1>1 DEF Marked, Fit
<1>2. CASE rec # None  BY <1>2, MarkFit DEF Marked
<1>. QED  BY <1>1, <1>2

LEMMA MarkedIfFit ==
  ASSUME Fit(rec), NEW test, NEW state \in States
  PROVE  Fit(MarkedIf(test, state)) /\ MarkedIf(test, state) \in Record \cup {None}
<1>1. CASE Active /\ test
  <2>1. rec # None /\ "none" \in Errors  BY <1>1 DEF Active, Errors
  <2>. QED  BY <1>1, <2>1, MarkFit DEF MarkedIf
<1>2. CASE ~(Active /\ test)  BY <1>2 DEF MarkedIf, Fit
<1>. QED  BY <1>1, <1>2

-----------------------------------------------------------------------------
(* How a move of one flow keeps the invariant. *)

\* A flow that goes on, whether or not it leaves something to write.
LEMMA ChangeKeeps ==
  ASSUME TrackerInv, role' = role, knows' = knows, NEW f \in Flows, NEW s, NEW next \in Steps, NEW new \in Record \cup {None},
         Change(f, s, next, new), Fit(new), OnPath(f, next),
         next \notin {"refused", "dropping", "known", "reserve"},
         next \in {"rearm", "relay"} => new # None,
         next = "node" => s = "rearm", next = "relay" => s = "reserve", s # "done"
  PROVE  TrackerInv'
<1>. USE FlowNames
<1>0. /\ at[f] = s /\ mid[f] = None
      /\ at' = [at EXCEPT ![f] = next] /\ mid' = [mid EXCEPT ![f] = new]
      /\ rec' = rec /\ net' = net /\ valid' = valid /\ handed' = handed
      /\ row' = row /\ coin' = coin /\ prior' = prior
  BY DEF Change, At, Goto, Stored
<1>1. Shape'  BY <1>0 DEF TrackerInv, Shape, OnPath
<1>2. RecordsFit'  BY <1>0 DEF TrackerInv, Shape, RecordsFit, Fit
<1>3. RefusalsAreTrue'  BY <1>0 DEF TrackerInv, Shape, RefusalsAreTrue
<1>4. \A g \in Flows : About(g)' => About(g)
  BY <1>0 DEF TrackerInv, Shape, About, Writing
<1>5. LiveHasRecord'
  <2>1. at'["user"] # "done" => at["user"] # "done"
    BY <1>0 DEF TrackerInv, Shape
  <2>2. (\E g \in Flows : About(g)') => (\E g \in Flows : About(g))
    BY <1>4
  <2>. QED  BY <1>0, <2>1, <2>2 DEF TrackerInv, LiveHasRecord
<1>6. HandedHasRecord'
  <2>1. About(Relayer)' => About(Relayer)
    <3>1. \A g \in Flows : (About(g))' = (at'[g] \in Writing /\ mid'[g] = None)
      BY DEF About, Writing
    <3>2. Relayer' = Relayer  BY DEF Relayer
    <3>. QED  BY <1>4, <3>1, <3>2 DEF About, Writing
  <2>2. handed /\ TorOnly => at'[Relayer] \notin {"reserve", "relay", "refused"}
    BY <1>0 DEF TrackerInv, Shape, HandedHasRecord
  <2>3. (handed \/ About(Relayer)) /\ TorOnly => rec # None
    BY DEF TrackerInv, HandedHasRecord
  <2>. QED  BY <1>0, <2>1, <2>2, <2>3 DEF HandedHasRecord, Relayer
<1>. QED  BY <1>1, <1>2, <1>3, <1>5, <1>6 DEF TrackerInv

\* A write: the record may be older than what it replaces, and is still fit.
LEMMA SaveKeeps ==
  ASSUME TrackerInv, role' = role, knows' = knows, NEW f \in Flows, Save(f)
  PROVE  TrackerInv'
<1>. USE FlowNames
<1>0. /\ mid[f] # None /\ rec' = mid[f] /\ mid' = [mid EXCEPT ![f] = None]
      /\ net' = net /\ valid' = valid /\ handed' = handed
      /\ row' = row /\ coin' = coin /\ prior' = prior /\ at' = at
  BY DEF Save
<1>1. Shape'
  <2>1. \A g \in Flows : OnPath(g, at[g])' = OnPath(g, at'[g])
    BY DEF OnPath
  <2>2. \A g \in Flows : OnPath(g, at'[g])
    BY <1>0 DEF TrackerInv, Shape
  <2>. QED  BY <1>0, <2>1, <2>2 DEF TrackerInv, Shape
<1>2. RecordsFit'
  <2>1. Fit(rec)'  BY <1>0 DEF TrackerInv, RecordsFit, Fit
  <2>2. \A g \in Flows : Fit(mid'[g])
    BY <1>0 DEF TrackerInv, Shape, RecordsFit, Fit
  <2>. QED  BY <2>1, <2>2 DEF RecordsFit, Fit
<1>3. RefusalsAreTrue'  BY <1>0 DEF TrackerInv, RefusalsAreTrue
<1>4. rec' # None  BY <1>0
<1>5. LiveHasRecord'  BY <1>4 DEF LiveHasRecord
<1>6. HandedHasRecord'
  BY <1>0, <1>4 DEF TrackerInv, HandedHasRecord, Relayer
<1>. QED  BY <1>1, <1>2, <1>3, <1>5, <1>6 DEF TrackerInv

\* A removal: of a refused transaction, or by the user of one that is not parked.
LEMMA RemoveKeeps ==
  ASSUME TrackerInv, role' = role, knows' = knows, NEW f \in Flows, NEW s \in {"refused", "dropping", "removing"},
         NEW next \in {"history", "done", "idle"}, OnPath(f, next), Remove(f, s, next),
         s = "removing" => f = "user" /\ next = "done"
  PROVE  TrackerInv'
<1>. USE FlowNames
<1>0. /\ at[f] = s /\ mid[f] = None /\ rec' = None /\ at' = [at EXCEPT ![f] = next]
      /\ net' = net /\ valid' = valid /\ handed' = handed /\ mid' = mid
      /\ row' = row /\ coin' = coin /\ prior' = prior
  BY DEF Remove, At, Goto
<1>1. Shape'
  <2>1. next \in Steps  BY DEF Steps, PassSteps
  <2>. QED  BY <1>0, <2>1 DEF TrackerInv, Shape, OnPath
<1>2. RecordsFit'  BY <1>0 DEF TrackerInv, RecordsFit, Fit
<1>3. RefusalsAreTrue'  BY <1>0 DEF TrackerInv, Shape, RefusalsAreTrue
<1>4. LiveHasRecord'
  <2>1. CASE s = "refused"
    BY <1>0, <2>1 DEF TrackerInv, LiveHasRecord, RefusalsAreTrue
  <2>2. CASE s = "dropping"
    BY <1>0, <2>2 DEF TrackerInv, LiveHasRecord, RefusalsAreTrue
  <2>3. CASE s = "removing"
    BY <1>0, <2>3 DEF TrackerInv, Shape, LiveHasRecord
  <2>. QED  BY <2>1, <2>2, <2>3
<1>5. HandedHasRecord'
  <2>1. ASSUME TorOnly
        PROVE  s = "refused" /\ f = Relayer
    BY <1>0, <2>1, FlowNames
       DEF TrackerInv, Shape, OnPath, TorOnly, Relayer, SendSteps, RelaySteps, CompleteSteps, PassSteps
  <2>2. ASSUME TorOnly
        PROVE  ~handed' /\ at'[Relayer] \notin Writing
    BY <1>0, <2>1, <2>2 DEF TrackerInv, Shape, HandedHasRecord, Writing
  <2>3. ASSUME TorOnly
        PROVE  ~About(Relayer)'
    BY <2>2, <2>3 DEF About, Relayer
  <2>. QED  BY <2>2, <2>3 DEF HandedHasRecord, Relayer
<1>. QED  BY <1>1, <1>2, <1>3, <1>4, <1>5 DEF TrackerInv

\* A flow that goes on without touching the record or its copy of it.
LEMMA MoveKeeps ==
  ASSUME TrackerInv, role' = role, knows' = knows, NEW f \in Flows, NEW next \in Steps,
         at' = [at EXCEPT ![f] = next], OnPath(f, next),
         next \notin {"refused", "known", "reserve", "rearm", "relay", "node"},
         NoRefusals => next # "dropping",
         at[f] = "done" => next = "done",
         \A g \in Flows : mid'[g] = mid[g] \/ (g = f /\ mid'[g] = None),
         mid' \in [Flows -> Record \cup {None}],
         prior' \in [Flows -> Errors \cup {None}],
         NoRefusals => \A g \in Flows : prior'[g] # "final",
         UNCHANGED <<rec, net, valid, handed>>, row' \in BOOLEAN, coin' \in BOOLEAN
  PROVE  TrackerInv'
<1>. USE FlowNames
<1>0. rec' = rec /\ net' = net /\ valid' = valid /\ handed' = handed
  OBVIOUS
<1>1. Shape'
  <2>1. /\ net' \in BOOLEAN /\ valid' \in BOOLEAN /\ handed' \in BOOLEAN
        /\ at' \in [Flows -> Steps]
        /\ role' \in {"sender", "coordinator", "peer"} /\ knows' \in BOOLEAN
    BY <1>0 DEF TrackerInv, Shape
  <2>2. \A g \in Flows : OnPath(g, at'[g])
    BY DEF TrackerInv, Shape
  <2>3. \A g \in Flows : OnPath(g, at[g])' = OnPath(g, at'[g])
    BY DEF OnPath
  <2>. QED  BY <2>1, <2>2, <2>3 DEF Shape
<1>2. RecordsFit'
  <2>1. Fit(rec)'  BY <1>0 DEF TrackerInv, RecordsFit, Fit
  <2>2. \A g \in Flows : Fit(mid'[g])
    BY DEF TrackerInv, RecordsFit, Fit
  <2>. QED  BY <2>1, <2>2 DEF RecordsFit, Fit
<1>3. RefusalsAreTrue'  BY <1>0 DEF TrackerInv, Shape, RefusalsAreTrue
<1>4. \A g \in Flows : (at'[g] \in Writing /\ mid'[g] = None) => About(g)
  BY DEF TrackerInv, Shape, About, Writing
<1>5. LiveHasRecord'
  <2>1. at'["user"] # "done" => at["user"] # "done"
    BY DEF TrackerInv, Shape
  <2>2. (\E g \in Flows : About(g)') => (\E g \in Flows : About(g))
    BY <1>4 DEF About, Writing
  <2>. QED  BY <1>0, <2>1, <2>2 DEF TrackerInv, LiveHasRecord
<1>6. HandedHasRecord'
  <2>1. About(Relayer)' => About(Relayer)
    BY <1>4 DEF About, Writing, Relayer
  <2>2. handed /\ TorOnly => at'[Relayer] \notin {"reserve", "relay", "refused"}
    BY DEF TrackerInv, Shape, HandedHasRecord
  <2>3. (handed \/ About(Relayer)) /\ TorOnly => rec # None
    BY DEF TrackerInv, HandedHasRecord
  <2>. QED  BY <1>0, <2>1, <2>2, <2>3 DEF HandedHasRecord, Relayer
<1>. QED  BY <1>1, <1>2, <1>3, <1>5, <1>6 DEF TrackerInv

-----------------------------------------------------------------------------
(* The steps of each flow. *)

LEMMA StepKeeps ==
  ASSUME TrackerInv, role' = role, knows' = knows, NEW f \in Flows, NEW s, NEW next \in Steps, Step(f, s, next), OnPath(f, next),
         next \notin {"refused", "known", "reserve", "rearm", "relay", "node"},
         NoRefusals => next # "dropping", s # "done"
  PROVE  TrackerInv'
BY MoveKeeps DEF Step, At, Goto, Stored, TrackerInv, Shape, RefusalsAreTrue

LEMMA RefusedKeeps ==
  ASSUME TrackerInv, role' = role, knows' = knows, NEW f \in Flows, Refused(f)
  PROVE  TrackerInv'
<1>1. at[f] = "refused" /\ OnPath(f, "refused")
  BY DEF Refused, Remove, At, TrackerInv, Shape
<1>2. OnPath(f, AfterRefusal(f)) /\ AfterRefusal(f) \in {"history", "done"}
  BY <1>1, FlowNames, TrackerAssumption
     DEF OnPath, AfterRefusal, SendSteps, RelaySteps, CompleteSteps, PassSteps, TorOnly
<1>. QED  BY <1>2, RemoveKeeps DEF Refused

\* sendTransaction, by the user's send or a rebroadcast: a refusal is final,
\* and any other answer leaves the record.
LEMMA SendKeeps ==
  ASSUME TrackerInv, role' = role, knows' = knows, NEW f \in Flows, Send(f)
  PROVE  TrackerInv'
<1>. USE FlowNames
<1>0. /\ Fit(rec) /\ OnPath(f, at[f]) /\ "none" \in Errors /\ "network" \in Errors
      /\ {"broadcasting", "broadcasted", "submitted"} \subseteq States
  BY DEF TrackerInv, Shape, RecordsFit, Errors, States
<1>1. at[f] \in SendSteps \ {"refused"} => ~TorOnly /\ (f = "main" \/ f \in Windows)
  BY <1>0 DEF OnPath, SendSteps, RelaySteps, CompleteSteps, TorOnly, PassSteps
<1>2. ASSUME ~TorOnly, f = "main" \/ f \in Windows
      PROVE  /\ \A s \in SendSteps \ {"enrich"} : OnPath(f, s)
             /\ OnPath(f, AfterSend(f)) /\ AfterSend(f) \in Steps \cap {"enrich", "history"}
  BY <1>2, TrackerAssumption DEF OnPath, AfterSend, SendSteps, PassSteps, Steps, TorOnly
<1>3. {"track", "rearm", "node", "accepted", "unsure", "known", "refused"}
        \subseteq SendSteps \cap (Steps \ {"enrich"})
  BY DEF SendSteps, Steps
<1>4. CASE ReadPrior(f)
  <2>0. at[f] = "prior" /\ mid' = mid /\ UNCHANGED <<rec, net, valid, handed, row, coin>>
    BY <1>4 DEF ReadPrior, At
  <2>1. ~TorOnly /\ (f = "main" \/ f \in Windows)
    BY <1>1, <2>0 DEF SendSteps
  <2>2. /\ row' \in BOOLEAN /\ coin' \in BOOLEAN /\ mid' \in [Flows -> Record \cup {None}]
        /\ prior \in [Flows -> Errors \cup {None}]
        /\ NoRefusals => \A g \in Flows : prior[g] # "final"
    BY <2>0 DEF TrackerInv, Shape, RefusalsAreTrue
  <2>3. CASE rec # None /\ rec.state \in {"broadcasting", "broadcasted"}
    <3>1. at' = [at EXCEPT ![f] = AfterSend(f)] /\ prior' = prior
      BY <1>4, <2>3 DEF ReadPrior, Goto
    <3>. QED  BY <1>2, <2>0, <2>1, <2>2, <3>1, MoveKeeps
  <2>4. CASE ~(rec # None /\ rec.state \in {"broadcasting", "broadcasted"})
    <3>. DEFINE kept == IF rec # None /\ rec.state = "submitted" THEN rec.err ELSE None
    <3>1. at' = [at EXCEPT ![f] = "track"] /\ prior' = [prior EXCEPT ![f] = kept]
      BY <1>4, <2>4 DEF ReadPrior, Goto
    <3>2. kept \in Errors \cup {None} /\ (NoRefusals => kept # "final")
      BY <1>0, NoneAssumption DEF Fit, Record, Errors
    <3>. HIDE DEF kept
    <3>3. prior' \in [Flows -> Errors \cup {None}] /\ (NoRefusals => \A g \in Flows : prior'[g] # "final")
      BY <2>2, <3>1, <3>2
    <3>4. OnPath(f, "track") /\ "track" \in Steps  BY <1>2, <1>3, <2>1
    <3>. QED  BY <2>0, <2>2, <3>1, <3>3, <3>4, MoveKeeps
  <2>. QED  BY <2>3, <2>4
<1>5. CASE TrackSend(f)
  <2>1. ~TorOnly /\ (f = "main" \/ f \in Windows)
    BY <1>1, <1>5 DEF TrackSend, Change, At, SendSteps
  <2>2. trackAttempt(rec, FALSE) \in Record /\ Fit(trackAttempt(rec, FALSE))
        /\ trackAttempt(rec, FALSE) # None
    BY <1>0, <2>1, TrackFit
  <2>3. OnPath(f, "rearm") /\ "rearm" \in Steps  BY <1>2, <1>3, <2>1
  <2>. QED  BY <1>5, <2>2, <2>3, ChangeKeeps DEF TrackSend
<1>6. CASE Rearm(f)
  <2>1. ~TorOnly /\ (f = "main" \/ f \in Windows)
    BY <1>1, <1>6 DEF Rearm, Change, At, SendSteps
  <2>2. OnPath(f, "node") /\ "node" \in Steps  BY <1>2, <1>3, <2>1
  <2>3. prior[f] # None => prior[f] \in Errors /\ (NoRefusals => prior[f] # "final")
    BY DEF TrackerInv, Shape, RefusalsAreTrue
  <2>. DEFINE new == IF prior[f] = None THEN None ELSE Marked("broadcasting", prior[f])
  <2>4. Fit(new) /\ new \in Record \cup {None}
    <3>1. CASE prior[f] = None  BY <3>1 DEF Fit
    <3>2. CASE prior[f] # None  BY <1>0, <2>3, <3>2, MarkedFit
    <3>. QED  BY <3>1, <3>2
  <2>5. Change(f, "rearm", "node", new)  BY <1>6 DEF Rearm
  <2>. HIDE DEF new
  <2>. QED  BY <2>2, <2>4, <2>5, ChangeKeeps
<1>7. CASE AskNode(f)
  <2>0. at[f] = "node" /\ mid[f] = None /\ UNCHANGED <<rec, valid, handed, row, coin, mid, prior>>
    BY <1>7 DEF AskNode, At
  <2>1. PICK next \in {"accepted", "unsure", "known", "refused"} : at' = [at EXCEPT ![f] = next]
    BY <1>7 DEF AskNode, Goto
  <2>2. ~TorOnly /\ (f = "main" \/ f \in Windows)
    BY <1>1, <2>0 DEF SendSteps
  <2>3. /\ OnPath(f, next) /\ next \in Steps
        /\ next = "refused" => ~valid
        /\ next = "known" => knows
        /\ net' \in BOOLEAN /\ (net' => valid)
    <3>1. OnPath(f, next) /\ next \in Steps  BY <1>2, <1>3, <2>1, <2>2
    <3>2. at'[f] = next  BY <2>1 DEF TrackerInv, Shape
    <3>3. \A t : Goto(f, t) => at'[f] = t  BY DEF Goto, TrackerInv, Shape
    <3>4. net \in BOOLEAN /\ valid \in BOOLEAN /\ (net => valid)
      BY DEF TrackerInv, Shape, RefusalsAreTrue
    <3>5. \/ valid /\ net' = TRUE /\ next = "accepted"
          \/ net' \in {net, valid \/ net} /\ next = "unsure"
          \/ knows /\ net /\ net' = net /\ next = "known"
          \/ ~valid /\ net' = net /\ next = "refused"
      BY <1>7, <3>2, <3>3 DEF AskNode
    <3>6. net' = net \/ (net' = TRUE /\ valid) \/ net' = (valid \/ net)
      BY <3>5
    <3>7. net' \in BOOLEAN /\ (net' => valid)
      <4>1. CASE net' = net  BY <3>4, <4>1
      <4>2. CASE net' = TRUE /\ valid  BY <4>2
      <4>3. CASE net' = (valid \/ net)
        <5>1. (valid \/ net) \in BOOLEAN  BY <3>4
        <5>2. (valid \/ net) => valid  BY <3>4, Zenon
        <5>3. net' \in BOOLEAN  BY <4>3, <5>1, Zenon
        <5>. QED  BY <4>3, <5>2, <5>3, Zenon
      <4>. QED  BY <3>6, <4>1, <4>2, <4>3
    <3>8. (next = "refused" => ~valid) /\ (next = "known" => knows)
      BY <3>5
    <3>. QED  BY <3>1, <3>7, <3>8
  <2>4. Shape'
    <3>1. \A g \in Flows : OnPath(g, at'[g])
      BY <2>1, <2>3 DEF TrackerInv, Shape
    <3>2. \A g \in Flows : OnPath(g, at[g])' = OnPath(g, at'[g])
      BY DEF OnPath
    <3>. QED  BY <2>0, <2>1, <2>3, <3>1, <3>2 DEF TrackerInv, Shape
  <2>5. RecordsFit'  BY <2>0 DEF TrackerInv, RecordsFit, Fit
  <2>6. RefusalsAreTrue'
    BY <2>0, <2>1, <2>2, <2>3 DEF TrackerInv, Shape, RefusalsAreTrue, NoRefusals
  <2>7. LiveHasRecord'
    <3>1. at'["user"] # "done" => at["user"] # "done"
      BY <2>1, <2>2, TrackerAssumption DEF TrackerInv, Shape
    <3>2. About(f)  BY <2>0 DEF About, Writing
    <3>. QED  BY <2>0, <3>1, <3>2 DEF TrackerInv, LiveHasRecord
  <2>8. HandedHasRecord'  BY <2>2 DEF HandedHasRecord
  <2>. QED  BY <2>4, <2>5, <2>6, <2>7, <2>8 DEF TrackerInv
<1>8. CASE NodeAccepted(f)
  <2>1. ~TorOnly /\ (f = "main" \/ f \in Windows)
    BY <1>1, <1>8 DEF NodeAccepted, Change, At, SendSteps
  <2>2. Fit(Marked("broadcasted", "none")) /\ Marked("broadcasted", "none") \in Record \cup {None}
    BY <1>0, MarkedFit
  <2>. QED  BY <1>2, <1>8, <2>1, <2>2, ChangeKeeps DEF NodeAccepted
<1>9. CASE NodeUnsure(f)
  <2>1. ~TorOnly /\ (f = "main" \/ f \in Windows)
    BY <1>1, <1>9 DEF NodeUnsure, Change, At, SendSteps
  <2>2. Fit(Marked("submitted", "network")) /\ Marked("submitted", "network") \in Record \cup {None}
    BY <1>0, MarkedFit
  <2>. QED  BY <1>2, <1>9, <2>1, <2>2, ChangeKeeps DEF NodeUnsure
<1>10. CASE NodeKnewIt(f)
  <2>1. ~TorOnly /\ (f = "main" \/ f \in Windows)
    BY <1>1, <1>10 DEF NodeKnewIt, Change, At, SendSteps
  <2>2. ~NoRefusals
    BY <1>10 DEF NodeKnewIt, Change, At, TrackerInv, RefusalsAreTrue
  <2>3. Fit(Marked("broadcasted", "final")) /\ Marked("broadcasted", "final") \in Record \cup {None}
    BY <1>0, <2>2, MarkedFit DEF Errors
  <2>. QED  BY <1>2, <1>10, <2>1, <2>3, ChangeKeeps DEF NodeKnewIt
<1>11. CASE Refused(f)  BY <1>11, RefusedKeeps
<1>12. CASE Enrich(f)
  <2>1. ~TorOnly /\ (f = "main" \/ f \in Windows)
    BY <1>1, <1>12 DEF Enrich, Change, At, SendSteps
  <2>2. OnPath(f, "done")
    BY <1>0, <1>12, <2>1 DEF Enrich, Change, At, OnPath, PassSteps
  <2>3. Fit(trackAttempt(rec, TRUE)) /\ trackAttempt(rec, TRUE) \in Record
    BY <1>0, TrackFit
  <2>4. "done" \in Steps  BY DEF Steps
  <2>. QED  BY <1>12, <2>2, <2>3, <2>4, ChangeKeeps DEF Enrich
<1>. QED  BY <1>4, <1>5, <1>6, <1>7, <1>8, <1>9, <1>10, <1>11, <1>12 DEF Send

\* The relay of a Fusion: whatever it answers, the record was written before.
LEMMA RelayKeeps ==
  ASSUME TrackerInv, role' = role, knows' = knows, NEW f \in Flows, Relay(f)
  PROVE  TrackerInv'
<1>. USE FlowNames
<1>0. at[f] = "relay" /\ mid[f] = None /\ UNCHANGED <<rec, valid, row, coin, mid, prior>>
  BY DEF Relay, At
<1>1. TorOnly /\ f = Relayer
  BY <1>0, TrackerAssumption
     DEF TrackerInv, Shape, OnPath, TorOnly, Relayer, SendSteps, PassSteps, CompleteSteps
<1>2. PICK next \in {"record", "done", "park", "refused"} :
        /\ at' = [at EXCEPT ![f] = next]
        /\ next = "record" => f = "main"
  BY DEF Relay, Goto
<1>3. at'[f] = next /\ \A t : Goto(f, t) => at'[f] = t
  BY <1>2 DEF Goto, TrackerInv, Shape
<1>4. /\ net' = TRUE \/ net' = net \/ net' = (valid \/ net)
      /\ net' = TRUE => (valid \/ net)
      /\ handed' \in BOOLEAN
      /\ next = "refused" => ~valid /\ handed' = FALSE
  <2>1. CASE valid /\ net' = TRUE /\ handed' = TRUE /\ Goto(f, IF f = "main" THEN "record" ELSE "done")
    BY <1>3, <2>1
  <2>2. CASE /\ net' \in {net, valid \/ net} /\ handed' = TRUE
             /\ \/ Goto(f, "park")
                \/ net' /\ Goto(f, IF f = "main" THEN "record" ELSE "done")
    <3>1. next # "refused"  BY <1>3, <2>2
    <3>2. net' = net \/ net' = (valid \/ net)  BY <2>2
    <3>3. net' = TRUE => (valid \/ net)  BY <3>2, Zenon
    <3>. QED  BY <2>2, <3>1, <3>2, <3>3
  <2>3. CASE ~valid /\ UNCHANGED net /\ handed' = FALSE /\ Goto(f, "refused")
    BY <2>3, Zenon
  <2>. QED  BY <2>1, <2>2, <2>3 DEF Relay
<1>5. net \in BOOLEAN /\ valid \in BOOLEAN /\ (net => valid)
  BY DEF TrackerInv, Shape, RefusalsAreTrue
<1>6. net' \in BOOLEAN /\ (net' => valid)
  <2>1. (valid \/ net) \in BOOLEAN  BY <1>5
  <2>2. net' \in BOOLEAN  BY <1>4, <1>5, <2>1, Zenon
  <2>3. net' = TRUE => valid  BY <1>4, <1>5, Zenon
  <2>. QED  BY <2>2, <2>3, Zenon
<1>7. Shape'
  <2>1. next \in Steps /\ OnPath(f, next)
    BY <1>0, <1>1, <1>2
       DEF TrackerInv, Shape, Steps, FusionSteps, OnPath, RelaySteps, CompleteSteps, Relayer, TorOnly
  <2>2. \A g \in Flows : OnPath(g, at'[g])
    BY <1>2, <2>1 DEF TrackerInv, Shape
  <2>3. \A g \in Flows : OnPath(g, at[g])' = OnPath(g, at'[g])
    BY DEF OnPath
  <2>. QED  BY <1>0, <1>2, <1>4, <1>6, <2>1, <2>2, <2>3 DEF TrackerInv, Shape
<1>8. RecordsFit'  BY <1>0 DEF TrackerInv, RecordsFit, Fit
<1>9. RefusalsAreTrue'
  BY <1>0, <1>2, <1>4, <1>6 DEF TrackerInv, Shape, RefusalsAreTrue
<1>10. About(Relayer)  BY <1>0, <1>1 DEF About, Writing
<1>11. rec' # None  BY <1>0, <1>1, <1>10 DEF TrackerInv, HandedHasRecord
<1>12. LiveHasRecord'  BY <1>11 DEF LiveHasRecord
<1>13. HandedHasRecord'
  BY <1>1, <1>2, <1>3, <1>4, <1>11 DEF HandedHasRecord, Relayer
<1>. QED  BY <1>7, <1>8, <1>9, <1>12, <1>13 DEF TrackerInv

\* The broadcast callback of runP2pFusion and completeFusionBroadcast.
LEMMA FuseKeeps ==
  ASSUME TrackerInv, role' = role, knows' = knows, NEW f \in Flows, Fuse(f)
  PROVE  TrackerInv'
<1>. USE FlowNames
<1>0. /\ Fit(rec) /\ OnPath(f, at[f]) /\ "none" \in Errors
      /\ {"broadcasted", "seen"} \subseteq States
      /\ {"relay", "done", "broadcasted", "finish", "stamp"} \subseteq Steps
  BY DEF TrackerInv, Shape, RecordsFit, Errors, States, Steps, FusionSteps
<1>1. /\ at[f] = "reserve" => OnPath(f, "relay")
      /\ at[f] \in {"park", "stamp"} => OnPath(f, "done")
      /\ at[f] = "record" => OnPath(f, "broadcasted")
      /\ at[f] = "broadcasted" => OnPath(f, "finish") /\ OnPath(f, "stamp")
      /\ at[f] = "finish" => OnPath(f, "stamp")
  BY <1>0 DEF OnPath, SendSteps, RelaySteps, CompleteSteps, PassSteps
<1>2. Fit(trackAttempt(rec, TRUE)) /\ trackAttempt(rec, TRUE) \in Record
      /\ trackAttempt(rec, TRUE) # None
  BY <1>0, TrackFit
<1>3. CASE Reserve(f)
  <2>1. at[f] = "reserve"  BY <1>3 DEF Reserve, Change, At
  <2>. QED  BY <1>0, <1>1, <1>2, <1>3, <2>1, ChangeKeeps DEF Reserve
<1>4. CASE Relay(f)  BY <1>4, RelayKeeps
<1>5. CASE Park(f)
  <2>1. at[f] = "park"  BY <1>5 DEF Park, Change, At
  <2>. DEFINE new == IF rec = None THEN None ELSE markVerificationPending(rec)
  <2>2. Fit(new) /\ new \in Record \cup {None}
    <3>1. CASE rec = None  BY <3>1 DEF Fit
    <3>2. CASE rec # None  BY <1>0, <3>2, PendingFit
    <3>. QED  BY <3>1, <3>2
  <2>3. Change(f, "park", "done", new)  BY <1>5 DEF Park
  <2>. HIDE DEF new
  <2>. QED  BY <1>0, <1>1, <2>1, <2>2, <2>3, ChangeKeeps
<1>6. CASE Refused(f)  BY <1>6, RefusedKeeps
<1>7. CASE RecordBroadcast(f)
  <2>1. at[f] = "record"  BY <1>7 DEF RecordBroadcast, Change, At
  <2>. QED  BY <1>0, <1>1, <1>2, <1>7, <2>1, ChangeKeeps DEF RecordBroadcast
<1>8. CASE MarkBroadcasted(f)
  <2>1. CASE rec # None /\ Change(f, "broadcasted", "finish", markState(rec, "broadcasted", "none"))
    <3>1. at[f] = "broadcasted"  BY <2>1 DEF Change, At
    <3>2. /\ Fit(markState(rec, "broadcasted", "none"))
          /\ markState(rec, "broadcasted", "none") \in Record
      BY <1>0, <2>1, MarkFit
    <3>. QED  BY <1>0, <1>1, <2>1, <3>1, <3>2, ChangeKeeps
  <2>2. CASE Step(f, "broadcasted", "stamp")
    <3>1. at[f] = "broadcasted"  BY <2>2 DEF Step, At
    <3>. QED  BY <1>0, <1>1, <2>2, <3>1, StepKeeps
  <2>. QED  BY <1>8, <2>1, <2>2 DEF MarkBroadcasted
<1>9. CASE MarkSeen(f)
  <2>1. at[f] = "finish"  BY <1>9 DEF MarkSeen, Change, At
  <2>2. Fit(Marked("seen", "none")) /\ Marked("seen", "none") \in Record \cup {None}
    BY <1>0, MarkedFit
  <2>. QED  BY <1>0, <1>1, <1>9, <2>1, <2>2, ChangeKeeps DEF MarkSeen
<1>10. CASE StampHistory(f)
  <2>1. at[f] = "stamp"  BY <1>10 DEF StampHistory, At
  <2>. QED  BY <1>0, <1>1, <1>10, <2>1, MoveKeeps
            DEF StampHistory, At, Goto, TrackerInv, Shape, RefusalsAreTrue
<1>. QED  BY <1>3, <1>4, <1>5, <1>6, <1>7, <1>8, <1>9, <1>10 DEF Fuse

\* A reconcile pass.  Only an ordinary send's record can be dropped, and only
\* when it holds a refusal.
LEMMA PassKeeps ==
  ASSUME TrackerInv, role' = role, knows' = knows, NEW w \in Windows, Pass(w)
  PROVE  TrackerInv'
<1>. USE FlowNames
<1>0. /\ w \in Flows /\ Fit(rec) /\ OnPath(w, at[w])
      /\ "none" \in Errors /\ {"submitted", "seen"} \subseteq States
      /\ {"stale", "dropping", "local", "spent", "ask", "retry", "history", "prior", "local2", "idle"}
           \subseteq Steps
  BY DEF TrackerInv, Shape, RecordsFit, Errors, States, Steps, PassSteps, SendSteps
<1>1. \A s \in {"stale", "local", "spent", "idle"} : OnPath(w, s)
  BY DEF OnPath
<1>2. ~TorOnly =>
        \A s \in {"dropping", "ask", "retry", "history", "prior", "local2"} : OnPath(w, s)
  BY DEF OnPath, PassSteps, SendSteps
<1>3. at[w] \in {"dropping", "ask", "retry", "history", "local2"} => ~TorOnly
  BY <1>0 DEF OnPath
<1>4. \A test : Fit(MarkedIf(test, "seen")) /\ MarkedIf(test, "seen") \in Record \cup {None}
  BY <1>0, MarkedIfFit
<1>5. CASE BeginPass(w)
  <2>1. CASE isDeterministicBroadcastError(rec.err)
    <3>1. rec # None  BY <1>5 DEF BeginPass, Active
    <3>2. ~NoRefusals  BY <1>0, <2>1, <3>1 DEF Fit, isDeterministicBroadcastError
    <3>. QED  BY <1>0, <1>2, <1>5, <2>1, <3>2, StepKeeps DEF BeginPass, NoRefusals
  <2>2. CASE ~isDeterministicBroadcastError(rec.err)
    BY <1>0, <1>1, <1>5, <2>2, StepKeeps DEF BeginPass
  <2>. QED  BY <2>1, <2>2
<1>6. CASE DropRefused(w)  BY <1>0, <1>1, <1>6, RemoveKeeps DEF DropRefused
<1>7. CASE MarkStale(w)
  <2>. DEFINE new == IF rec # None /\ rec.state = "broadcasting" /\ rec.upd >= StaleAge
                     THEN markState(rec, "submitted", rec.err) ELSE None
  <2>1. Fit(new) /\ new \in Record \cup {None}
    <3>1. CASE rec = None  BY <3>1 DEF Fit
    <3>2. CASE rec # None
      <4>1. rec.err \in Errors /\ (NoRefusals => rec.err # "final")
        BY <1>0, <3>2 DEF Fit, Record
      <4>2. /\ Fit(markState(rec, "submitted", rec.err))
            /\ markState(rec, "submitted", rec.err) \in Record
        BY <1>0, <3>2, <4>1, MarkFit
      <4>. QED  BY <4>2 DEF Fit
    <3>. QED  BY <3>1, <3>2
  <2>2. Change(w, "stale", "local", new)  BY <1>7 DEF MarkStale
  <2>. HIDE DEF new
  <2>. QED  BY <1>0, <1>1, <2>1, <2>2, ChangeKeeps
<1>8. CASE CheckHistory(w)
  <2>1. CASE Change(w, "local", "spent", MarkedIf(row, "seen"))
    BY <1>0, <1>1, <1>4, <2>1, ChangeKeeps
  <2>2. CASE Change(w, "local2", "idle", MarkedIf(row, "seen"))
    BY <1>0, <1>1, <1>4, <2>2, ChangeKeeps
  <2>. QED  BY <1>8, <2>1, <2>2 DEF CheckHistory
<1>9. CASE CheckSpentCoins(w)
  <2>. DEFINE next == IF TorOnly THEN "idle" ELSE "ask"
  <2>1. OnPath(w, next) /\ next \in {"idle", "ask"}  BY <1>1, <1>2
  <2>2. Change(w, "spent", next, MarkedIf(rec.ins /\ ~coin, "seen"))
    BY <1>9 DEF CheckSpentCoins
  <2>. HIDE DEF next
  <2>. QED  BY <1>0, <1>4, <2>1, <2>2, ChangeKeeps
<1>10. CASE CheckVisibility(w)
  <2>1. PICK answer : Change(w, "ask", "retry", MarkedIf(answer, "seen"))
    BY <1>10 DEF CheckVisibility
  <2>2. OnPath(w, "retry")  BY <1>2, <1>3, <2>1 DEF Change, At
  <2>. QED  BY <1>0, <1>4, <2>1, <2>2, ChangeKeeps
<1>11. CASE Rebroadcast(w)
  <2>1. at[w] = "retry"  BY <1>11 DEF Rebroadcast, Step, At
  <2>. QED  BY <1>0, <1>1, <1>2, <1>3, <1>11, <2>1, StepKeeps DEF Rebroadcast
<1>12. CASE FetchHistories(w)
  <2>1. at[w] = "history" /\ UNCHANGED <<rec, net, valid, handed, coin, mid, prior>>
    BY <1>12 DEF FetchHistories, At
  <2>2. PICK next \in {"local2", "idle"} : at' = [at EXCEPT ![w] = next]
    BY <1>12 DEF FetchHistories, Goto
  <2>3. OnPath(w, next)  BY <1>1, <1>2, <1>3, <2>1
  <2>4. row' \in BOOLEAN
    <3>1. row' = row \/ row' = (row \/ net)  BY <1>12 DEF FetchHistories
    <3>2. row \in BOOLEAN /\ (row \/ net) \in BOOLEAN  BY DEF TrackerInv, Shape
    <3>. QED  BY <3>1, <3>2, Zenon
  <2>. QED  BY <1>0, <2>1, <2>2, <2>3, <2>4, MoveKeeps DEF TrackerInv, Shape, RefusalsAreTrue
<1>. QED  BY <1>5, <1>6, <1>7, <1>8, <1>9, <1>10, <1>11, <1>12 DEF Pass

LEMMA FlowStepKeeps ==
  ASSUME TrackerInv, role' = role, knows' = knows, NEW f \in Flows, FlowStep(f)
  PROVE  TrackerInv'
<1>1. CASE f \in Windows /\ Restart(f)
  <2>1. OnPath(f, "idle") /\ "idle" \in Steps  BY <1>1 DEF OnPath, Steps
  <2>. QED  BY <1>1, <2>1, StepKeeps DEF Restart
<1>. QED  BY <1>1, SaveKeeps, SendKeeps, FuseKeeps, PassKeeps DEF FlowStep

\* A kill takes what was read and not written.
LEMMA CrashKeeps ==
  ASSUME TrackerInv, role' = role, knows' = knows, NEW f \in Flows, Crash(f)
  PROVE  TrackerInv'
<1>. DEFINE next == IF f \in Windows THEN "down" ELSE "done"
<1>1. /\ at' = [at EXCEPT ![f] = next] /\ mid' = [mid EXCEPT ![f] = None]
      /\ prior' = [prior EXCEPT ![f] = None]
      /\ UNCHANGED <<rec, net, valid, handed, row, coin>>
  BY DEF Crash, Goto
<1>2. next \in Steps \cap {"down", "done"} /\ OnPath(f, next)
  BY FlowNames DEF Steps, OnPath, Flows
<1>3. at[f] = "done" => next = "done"
  BY FlowNames DEF TrackerInv, Shape, OnPath, PassSteps, SendSteps
<1>4. /\ mid' \in [Flows -> Record \cup {None}] /\ prior' \in [Flows -> Errors \cup {None}]
      /\ NoRefusals => \A g \in Flows : prior'[g] # "final"
      /\ \A g \in Flows : mid'[g] = mid[g] \/ (g = f /\ mid'[g] = None)
      /\ row' \in BOOLEAN /\ coin' \in BOOLEAN
  BY <1>1, NoneAssumption DEF TrackerInv, Shape, RefusalsAreTrue, Errors
<1>. HIDE DEF next
<1>. QED  BY <1>1, <1>2, <1>3, <1>4, MoveKeeps

\* Whatever an Outbox release may clear, it is not a parked Fusion.
LEMMA CheckReleaseKeeps ==
  ASSUME TrackerInv, role' = role, knows' = knows, CheckRelease
  PROVE  TrackerInv'
<1>1. rec # None /\ (canClear(rec) \/ canRelease(rec)) /\ Step("user", "check", "removing")
  BY DEF CheckRelease
<1>2. ~TorOnly
  <2>. SUFFICES ASSUME TorOnly PROVE FALSE
    OBVIOUS
  <2>1. rec.err # "final"  BY <1>1 DEF TrackerInv, RecordsFit, Fit, NoRefusals
  <2>2. rec.state = "seen" \/ isFusionVerificationPending(rec)
    BY <2>1 DEF isFusionVerificationPending, isDeterministicBroadcastError
  <2>. QED  BY <1>1, <2>1, <2>2 DEF canClear, canRelease, isDeterministicBroadcastError
<1>3. OnPath("user", "removing") /\ "removing" \in Steps /\ "user" \in Flows
  BY <1>2, FlowNames DEF OnPath, Steps
<1>. QED  BY <1>1, <1>3, StepKeeps

LEMMA ReleaseKeeps ==
  ASSUME TrackerInv, role' = role, knows' = knows, Release
  PROVE  TrackerInv'
<1>1. OnPath("user", "done") /\ "user" \in Flows  BY FlowNames DEF OnPath
<1>. QED  BY <1>1, RemoveKeeps DEF Release

\* Steps of the world around the flows that leave the record alone.
LEMMA WorldKeeps ==
  ASSUME TrackerInv, role' = role, knows' = knows, UNCHANGED <<rec, valid, handed, at, mid, prior>>,
         net' \in BOOLEAN, row' \in BOOLEAN, coin' \in BOOLEAN, net' => valid,
         net' = net \/ role = "peer"
  PROVE  TrackerInv'
<1>1. Shape'
  <2>1. \A g \in Flows : OnPath(g, at[g])' = OnPath(g, at'[g])
    BY DEF OnPath
  <2>. QED  BY <2>1 DEF TrackerInv, Shape
<1>2. RecordsFit'  BY DEF TrackerInv, RecordsFit, Fit
<1>3. RefusalsAreTrue'  BY DEF TrackerInv, RefusalsAreTrue
<1>4. LiveHasRecord'  BY DEF TrackerInv, LiveHasRecord, About
<1>5. HandedHasRecord'  BY DEF TrackerInv, HandedHasRecord, About, Relayer
<1>. QED  BY <1>1, <1>2, <1>3, <1>4, <1>5 DEF TrackerInv

LEMMA TimeKeeps ==
  ASSUME TrackerInv, role' = role, knows' = knows, TimePasses
  PROVE  TrackerInv'
<1>1. rec # None /\ rec \in Record  BY DEF TimePasses, TrackerInv, RecordsFit, Fit
<1>2. /\ rec' \in Record /\ rec'.state = rec.state /\ rec'.pending = rec.pending
      /\ rec'.ins = rec.ins /\ rec'.err = rec.err
  <2>. DEFINE u == IF rec.upd < ReleaseAge THEN rec.upd + 1 ELSE rec.upd
              c == IF rec.chk = None THEN None ELSE 1
  <2>1. rec' = [rec EXCEPT !.upd = u, !.chk = c]  BY DEF TimePasses
  <2>2. u \in 0..ReleaseAge /\ c \in 0..1 \cup {None}
    BY <1>1 DEF Record, ReleaseAge
  <2>. HIDE DEF u, c
  <2>. QED  BY <1>1, <2>1, <2>2 DEF Record
<1>3. rec' # None  BY <1>2, NoneAssumption
<1>4. UNCHANGED <<net, valid, handed, row, coin, at, mid, prior>>
  BY DEF TimePasses
<1>5. Shape'
  <2>1. \A g \in Flows : OnPath(g, at[g])' = OnPath(g, at'[g])
    BY DEF OnPath
  <2>. QED  BY <1>4, <2>1 DEF TrackerInv, Shape
<1>6. RecordsFit'  BY <1>1, <1>2, <1>4 DEF TrackerInv, RecordsFit, Fit
<1>7. RefusalsAreTrue'  BY <1>4 DEF TrackerInv, RefusalsAreTrue
<1>8. LiveHasRecord'  BY <1>3 DEF LiveHasRecord
<1>9. HandedHasRecord'  BY <1>3, <1>4 DEF TrackerInv, HandedHasRecord, Relayer
<1>. QED  BY <1>5, <1>6, <1>7, <1>8, <1>9 DEF TrackerInv

-----------------------------------------------------------------------------
(* The theorems. *)

LEMMA InvInit == TrackerInit => TrackerInv
<1>. SUFFICES ASSUME TrackerInit PROVE TrackerInv
  OBVIOUS
<1>1. \A f \in Flows :
        /\ FirstStep(f) \in Steps /\ OnPath(f, FirstStep(f))
        /\ FirstStep(f) \notin Writing \cup {"refused", "dropping", "known"}
  BY TrackerAssumption
     DEF Flows, FirstStep, Steps, SendSteps, FusionSteps, PassSteps, OnPath, RelaySteps,
         CompleteSteps, TorOnly, Writing
<1>2. \A f \in Flows : at[f] = FirstStep(f) /\ mid[f] = None /\ prior[f] = None
  BY DEF TrackerInit
<1>3. Shape  BY <1>1, <1>2, TrackerAssumption DEF TrackerInit, Shape
<1>4. RecordsFit  BY <1>2 DEF TrackerInit, RecordsFit, Fit
<1>5. RefusalsAreTrue
  BY <1>1, <1>2, NoneAssumption DEF TrackerInit, RefusalsAreTrue, Errors
<1>6. LiveHasRecord  BY <1>1, <1>2 DEF TrackerInit, LiveHasRecord, About
<1>7. HandedHasRecord  BY <1>1, <1>2, FlowNames DEF TrackerInit, HandedHasRecord, About
<1>. QED  BY <1>3, <1>4, <1>5, <1>6, <1>7 DEF TrackerInv

\* No step leaves the path its wallet took.
LEMMA PathKept ==
  ASSUME [TrackerNext]_trackerVars
  PROVE  role' = role /\ knows' = knows
<1>. USE DEF Change, Step, Remove, Stored
<1>1. ASSUME NEW f, Send(f) PROVE UNCHANGED path
  BY <1>1 DEF Send, ReadPrior, TrackSend, Rearm, AskNode, NodeAccepted, NodeUnsure, NodeKnewIt,
              Refused, Enrich
<1>2. ASSUME NEW f, Fuse(f) PROVE UNCHANGED path
  BY <1>2 DEF Fuse, Reserve, Relay, Park, Refused, RecordBroadcast, MarkBroadcasted, MarkSeen,
              StampHistory
<1>3. ASSUME NEW w, Pass(w) PROVE UNCHANGED path
  BY <1>3 DEF Pass, BeginPass, DropRefused, MarkStale, CheckHistory, CheckSpentCoins,
              CheckVisibility, Rebroadcast, FetchHistories
<1>4. ASSUME NEW f, FlowStep(f) \/ Crash(f) PROVE UNCHANGED path
  BY <1>1, <1>2, <1>3, <1>4 DEF FlowStep, Save, Restart, Crash
<1>5. ASSUME \/ CheckRelease \/ Release
             \/ RefreshCoins \/ SyncHistory \/ OthersRelay \/ TimePasses
      PROVE  UNCHANGED path
  BY <1>5 DEF CheckRelease, Release, RefreshCoins, SyncHistory, OthersRelay, TimePasses
<1>. QED  BY <1>4, <1>5 DEF TrackerNext, trackerVars

LEMMA InvStep == TrackerInv /\ [TrackerNext]_trackerVars => TrackerInv'
<1>. SUFFICES ASSUME TrackerInv, [TrackerNext]_trackerVars PROVE TrackerInv'
  OBVIOUS
<1>0. /\ net \in BOOLEAN /\ row \in BOOLEAN /\ coin \in BOOLEAN /\ (net => valid)
  BY DEF TrackerInv, Shape, RefusalsAreTrue
<1>path. role' = role /\ knows' = knows  BY PathKept
<1>1. ASSUME NEW f \in Flows, FlowStep(f) \/ Crash(f) PROVE TrackerInv'
  BY <1>1, <1>path, FlowStepKeeps, CrashKeeps
<1>2. CASE CheckRelease \/ Release  BY <1>2, <1>path, CheckReleaseKeeps, ReleaseKeeps
<1>3. CASE RefreshCoins
  <2>1. coin' \in BOOLEAN  BY <1>3 DEF RefreshCoins
  <2>. QED  BY <1>0, <1>3, <1>path, <2>1, WorldKeeps DEF RefreshCoins
<1>4. CASE SyncHistory  BY <1>0, <1>4, <1>path, WorldKeeps DEF SyncHistory
<1>5. CASE OthersRelay  BY <1>0, <1>5, <1>path, WorldKeeps DEF OthersRelay
<1>6. CASE TimePasses  BY <1>6, <1>path, TimeKeeps
<1>7. CASE UNCHANGED trackerVars  BY <1>0, <1>7, <1>path, WorldKeeps DEF trackerVars
<1>. QED  BY <1>1, <1>2, <1>3, <1>4, <1>5, <1>6, <1>7 DEF TrackerNext

\* In every behaviour of the flows, stored and unwritten records are fit and
\* no flow is at a step that removes the record of a live transaction.
THEOREM TrackerInvHolds == TrackerSpec => []TrackerInv
BY InvInit, InvStep, PTL DEF TrackerSpec

\* The tracker's store is well formed, and no record is both done and waiting
\* for its verification, however writes overtake each other.
THEOREM TrackerTypeCorrect == TrackerSpec => []TrackerTypeOK
<1>1. TrackerInv => TrackerTypeOK
  BY DEF TrackerInv, Shape, RecordsFit, Fit, TrackerTypeOK
<1>. QED  BY <1>1, TrackerInvHolds, PTL

\* From the hand-over of a Fusion to its relay on, no crash, retry, pass or
\* release leaves its inputs unreserved or lets the next round start, until the
\* record says seen.
THEOREM HandedOverStaysParked == TrackerSpec => []HandedOverIsParked
<1>1. TrackerInv => HandedOverIsParked
  <2>. SUFFICES ASSUME TrackerInv, TorOnly, handed
                PROVE  rec # None /\ (rec.state = "seen" \/ (isFusionVerificationPending(rec) /\ Reserved))
    BY DEF HandedOverIsParked
  <2>1. rec # None  BY DEF TrackerInv, HandedHasRecord
  <2>2. rec.ins /\ rec.err # "final"
    BY <2>1 DEF TrackerInv, RecordsFit, Fit, NoRefusals
  <2>. QED  BY <2>1, <2>2
            DEF isFusionVerificationPending, isDeterministicBroadcastError, Reserved, Active
<1>. QED  BY <1>1, TrackerInvHolds, PTL

\* A transaction that this wallet alone hands over, to a node that does not
\* answer an error to what it has, is never on the network without a record,
\* unless the user cleared it.
THEOREM LiveIsTracked == TrackerSpec => []OnWireIsTracked
<1>1. TrackerInv => OnWireIsTracked
  BY DEF TrackerInv, LiveHasRecord, RefusalsAreTrue, OnWireIsTracked
<1>. QED  BY <1>1, TrackerInvHolds, PTL
=============================================================================
