--------------------------- MODULE PalmTreeProofs ---------------------------
(***************************************************************************)
(* Proofs about PalmTree, for any number of relays and any fanout, with    *)
(* and without faults, reordering and suspending sends: the parents form a *)
(* forest, every step is a step of the abstract Forest, and the variables  *)
(* have their types, the window of a relay being within its links.         *)
(*                                                                         *)
(* The argument is causal.  Only a settled relay sends checks, so only a   *)
(* settled relay is asked for a connection, dials and becomes a parent;    *)
(* and only a relay that is not settled takes a parent.                    *)
(***************************************************************************)
EXTENDS PalmTree, FiniteSetTheorems, WellFoundedInduction, TLAPS

StreamState == {"none", "dialing", "ok", "closed", "up", "failed"}

TreeType ==
  /\ fut \in [Relays -> {"pending", "cancelled", "result"}]
  /\ parent \in [Relays -> Relays]
  /\ waiting \in [Relays -> SUBSET Relays]
  /\ adding \in [Relays -> SUBSET Relays]
  /\ stream \in [Relays -> [Relays -> StreamState]]

\* Checks come from settled relays, answers to checks go to settled relays.
MessagesSettled ==
  \A m \in net :
    /\ m.kind = "check" => m.src \in Relays /\ Done(m.src)
    /\ m.kind \in {"reject", "upgrade"} => m.dst \in Relays /\ Done(m.dst)

\* A relay waits for, and is dialled by, settled relays.
PeersSettled ==
  \A n, p \in Relays :
    p \in waiting[n] \/ p \in adding[n] \/ stream[p][n] = "dialing" => Done(p)

\* The center settles first, when it starts the formation.
CenterFirst == \A n \in Relays : Done(n) => Done(Center) /\ phase = "formed"

Causal == TreeType /\ MessagesSettled /\ PeersSettled /\ CenterFirst

\* A parent settled before its child did.
ParentsSettled == \A n \in Members : Done(parent[n])

TreeInv == Causal /\ ParentsSettled /\ Acyclic

-----------------------------------------------------------------------------
(* What a step does to the tree *)

Plants ==
  /\ ~Done(Center) /\ phase' = "formed"
  /\ fut' = [fut EXCEPT ![Center] = "result"] /\ parent' = parent

Abandons(n) ==
  /\ n # Center /\ ~Done(n) /\ Done(Center)
  /\ fut' = [fut EXCEPT ![n] = "cancelled"] /\ parent' = parent

Attaches(n, p) ==
  /\ n # Center /\ ~Done(n) /\ Done(p)
  /\ fut' = [fut EXCEPT ![n] = "result"] /\ parent' = [parent EXCEPT ![n] = p]

TreeStep ==
  \/ Plants
  \/ \E n \in Relays : Abandons(n)
  \/ \E n, p \in Relays : Attaches(n, p)
  \/ UNCHANGED tree

\* The center is a relay.
LEMMA CenterIsRelay == Center \in Relays
  BY SizeAssumption DEF Center, Relays

\* A settled relay stays as it is, and the types of the tree are kept.
LEMMA SettledStays ==
  ASSUME TreeType, TreeStep
  PROVE  /\ \A n \in Relays : Done(n) => Done(n)' /\ fut'[n] = fut[n] /\ parent'[n] = parent[n]
         /\ fut' \in [Relays -> {"pending", "cancelled", "result"}]
         /\ parent' \in [Relays -> Relays]
<1> USE DEF TreeType, Done
<1>1. CASE Plants
  BY <1>1, CenterIsRelay DEF Plants
<1>2. ASSUME NEW n \in Relays, Abandons(n)
      PROVE  /\ \A k \in Relays : Done(k) => fut'[k] = fut[k] /\ parent'[k] = parent[k]
             /\ fut' \in [Relays -> {"pending", "cancelled", "result"}]
             /\ parent' \in [Relays -> Relays]
  BY <1>2 DEF Abandons
<1>3. ASSUME NEW n \in Relays, NEW p \in Relays, Attaches(n, p)
      PROVE  /\ \A k \in Relays : Done(k) => fut'[k] = fut[k] /\ parent'[k] = parent[k]
             /\ fut' \in [Relays -> {"pending", "cancelled", "result"}]
             /\ parent' \in [Relays -> Relays]
  BY <1>3 DEF Attaches
<1>4. CASE UNCHANGED tree
  BY <1>4 DEF tree
<1> QED BY <1>1, <1>2, <1>3, <1>4 DEF TreeStep

\* Every step of the protocol changes the tree in one of these ways.
LEMMA StepsOfTheTree ==
  ASSUME Causal, Next
  PROVE  TreeStep
<1> USE DEF Causal
<1>1. CASE \E C \in Confirmed : InformPeers(C)
  BY <1>1 DEF InformPeers, TreeStep
<1>2. CASE UpdateStates
  BY <1>2 DEF UpdateStates, TreeStep
<1>3. CASE TriggerSpanningFormation
  <2>1. ~Done(Center)
    BY <1>3, CenterIsRelay DEF TriggerSpanningFormation, CenterFirst
  <2> QED BY <1>3, <2>1 DEF TriggerSpanningFormation, TreeStep, Plants
<1>4. CASE \E n \in Others : UpdateState(n)
  BY <1>4 DEF UpdateState, TreeStep
<1>5. ASSUME NEW n \in Relays, NEW s \in Relays, Step(n, s)
      PROVE  TreeStep
  <2>1. CASE TreeCheck(n, s)
    BY <2>1 DEF TreeCheck, TreeStep
  <2>2. CASE ParentArrived(n, s)
    BY <2>2 DEF ParentArrived, TreeStep
  <2>3. CASE TreeReject(n, s)
    BY <2>3 DEF TreeReject, TreeStep
  <2>4. CASE UpgradeConnection(n, s)
    BY <2>4 DEF UpgradeConnection, TreeStep
  <2>5. CASE AddStreamLink(n, s)
    <3>1. Done(s) /\ (~Done(n) => n # Center)
      BY <2>5 DEF AddStreamLink, PeersSettled, CenterFirst
    <3>2. (\E p \in Relays : Attaches(n, p)) \/ UNCHANGED tree
      BY <2>5, <3>1 DEF AddStreamLink, Attaches, tree
    <3> QED BY <3>2 DEF TreeStep
  <2>6. CASE SetParent(n, s)
    <3>1. Done(s) /\ (~Done(n) => n # Center)
      BY <2>6 DEF SetParent, PeersSettled, CenterFirst
    <3>2. (\E p \in Relays : Attaches(n, p)) \/ UNCHANGED tree
      BY <2>6, <3>1 DEF SetParent, Attaches, tree
    <3> QED BY <3>2 DEF TreeStep
  <2>7. CASE ActivateLink(n, s)
    BY <2>7 DEF ActivateLink, TreeStep
  <2> QED BY <1>5, <2>1, <2>2, <2>3, <2>4, <2>5, <2>6, <2>7 DEF Step
<1>6. ASSUME NEW n \in Relays, NEW s \in Relays, UpgradeTimeout(n, s)
      PROVE  TreeStep
  <2>1. Done(Center)
    BY <1>6 DEF UpgradeTimeout, PeersSettled, CenterFirst
  <2>2. Abandons(n) \/ UNCHANGED tree
    BY <1>6, <2>1 DEF UpgradeTimeout, Abandons, Done, tree
  <2> QED BY <2>2 DEF TreeStep
<1>7. CASE \E n, s \in Relays : DialFails(n, s)
  BY <1>7 DEF DialFails, TreeStep
<1>8. CASE \E m \in net : Lose(m)
  BY <1>8 DEF Lose, TreeStep
<1>9. CASE Quiet /\ UNCHANGED vars
  BY <1>9 DEF vars, tree, TreeStep
<1> QED BY <1>1, <1>2, <1>3, <1>4, <1>5, <1>6, <1>7, <1>8, <1>9 DEF Next, Progress, Fault

-----------------------------------------------------------------------------
(* The causal order *)

\* A step adds no check of an unsettled relay and no answer to one.
LEMMA MessagesStep ==
  ASSUME Causal, Next
  PROVE  MessagesSettled'
<1> DEFINE Fine(m) == /\ m.kind = "check" => m.src \in Relays /\ Done(m.src)'
                      /\ m.kind \in {"reject", "upgrade"} => m.dst \in Relays /\ Done(m.dst)'
<1>0. TreeStep
  BY StepsOfTheTree
<1>1. \A m \in net : Fine(m)
  BY <1>0, SettledStays DEF Causal, MessagesSettled
<1>2. ASSUME NEW n \in Relays, Done(n)', NEW s, NEW inc, NEW gone, ForwardTreeCheck(n, s, inc, gone)
      PROVE  \A m \in net' : Fine(m)
  BY <1>1, <1>2 DEF ForwardTreeCheck, Msg
<1> HIDE DEF Fine
<1>3. \A m \in net' : Fine(m)
  <2>1. CASE \E C \in Confirmed : InformPeers(C)
    BY <1>1, <2>1 DEF InformPeers
  <2>2. CASE UpdateStates
    <3>1. \A n \in Relays : Fine(Msg("state", Center, n))
      BY DEF Fine, Msg
    <3>2. \A m \in net' : m \in net \/ \E n \in confirmed : m = Msg("state", Center, n)
      BY <2>2 DEF UpdateStates
    <3> QED BY <1>1, <3>2 DEF Fine, Msg
  <2>3. CASE TriggerSpanningFormation
    <3>1. Done(Center)'
      BY <2>3, CenterIsRelay DEF TriggerSpanningFormation, Done, Causal, TreeType
    <3> QED BY <1>2, <2>3, <3>1, CenterIsRelay DEF TriggerSpanningFormation
  <2>4. CASE \E n \in Others : UpdateState(n)
    BY <1>1, <2>4 DEF UpdateState
  <2>5. ASSUME NEW n \in Relays, NEW s \in Relays, Step(n, s)
        PROVE  \A m \in net' : Fine(m)
    <3>1. CASE TreeCheck(n, s)
      <4>1. Done(s)'
        <5>1. Msg("check", s, n) \in net
          BY <3>1 DEF TreeCheck
        <5>2. Fine(Msg("check", s, n))
          BY <1>1, <5>1
        <5> QED BY <5>2 DEF Fine, Msg
      <4>2. Fine(Msg("reject", n, s)) /\ Fine(Msg("upgrade", n, s))
        BY <4>1 DEF Fine, Msg
      <4> QED BY <1>1, <3>1, <4>2 DEF TreeCheck
    <3>2. CASE ParentArrived(n, s)
      <4>1. Done(n)'
        BY <3>2, <1>0, SettledStays DEF ParentArrived, Done, Causal
      <4> QED BY <1>2, <3>2, <4>1 DEF ParentArrived
    <3>3. CASE TreeReject(n, s)
      <4>1. Done(n)'
        <5>1. Msg("reject", s, n) \in net
          BY <3>3 DEF TreeReject
        <5>2. Fine(Msg("reject", s, n))
          BY <1>1, <5>1
        <5> QED BY <5>2 DEF Fine, Msg
      <4>2. \/ net' \subseteq net
            \/ ForwardTreeCheck(n, s, incoming[n], {Msg("reject", s, n)})
        BY <3>3 DEF TreeReject
      <4> QED BY <1>1, <1>2, <4>1, <4>2
    <3>4. CASE UpgradeConnection(n, s)
      BY <1>1, <3>4 DEF UpgradeConnection
    <3>5. CASE AddStreamLink(n, s)
      BY <1>1, <3>5 DEF AddStreamLink
    <3>6. CASE SetParent(n, s)
      BY <1>1, <3>6 DEF SetParent
    <3>7. CASE ActivateLink(n, s)
      BY <1>1, <3>7 DEF ActivateLink
    <3> QED BY <2>5, <3>1, <3>2, <3>3, <3>4, <3>5, <3>6, <3>7 DEF Step
  <2>6. ASSUME NEW n \in Relays, NEW s \in Relays, UpgradeTimeout(n, s)
        PROVE  \A m \in net' : Fine(m)
    <3>1. Done(n)'
      BY <2>6 DEF UpgradeTimeout, Done, Causal, TreeType
    <3> QED BY <1>2, <2>6, <3>1 DEF UpgradeTimeout
  <2>7. CASE \E n, s \in Relays : DialFails(n, s)
    BY <1>1, <2>7 DEF DialFails
  <2>8. CASE \E m \in net : Lose(m)
    BY <1>1, <2>8 DEF Lose
  <2>9. CASE Quiet /\ UNCHANGED vars
    BY <1>1, <2>9 DEF vars
  <2> QED BY <2>1, <2>2, <2>3, <2>4, <2>5, <2>6, <2>7, <2>8, <2>9 DEF Next, Progress, Fault
<1> QED BY <1>3 DEF Fine, MessagesSettled

\* The sets of peers a relay waits for or is answering, and the streams to it.
Ties(n, p) == p \in waiting[n] \/ p \in adding[n] \/ stream[p][n] = "dialing"

\* The state of one stream changes.
LEMMA StreamSet ==
  ASSUME NEW f \in [Relays -> [Relays -> StreamState]], NEW a \in Relays, NEW b \in Relays,
         NEW v \in StreamState, NEW g, g = [f EXCEPT ![a][b] = v]
  PROVE  /\ g \in [Relays -> [Relays -> StreamState]]
         /\ g[a][b] = v
         /\ \A p, q \in Relays : p # a \/ q # b => g[p][q] = f[p][q]
<1>1. g = [f EXCEPT ![a] = [f[a] EXCEPT ![b] = v]]
  OBVIOUS
<1>2. [f[a] EXCEPT ![b] = v] \in [Relays -> StreamState]
  OBVIOUS
<1> QED BY <1>1, <1>2

\* A step ties a relay only to peers that it was tied to or that are settled.
LEMMA PeersStep ==
  ASSUME Causal, Next
  PROVE  /\ waiting' \in [Relays -> SUBSET Relays]
         /\ adding' \in [Relays -> SUBSET Relays]
         /\ stream' \in [Relays -> [Relays -> StreamState]]
         /\ PeersSettled'
<1> DEFINE Types == /\ waiting' \in [Relays -> SUBSET Relays]
                    /\ adding' \in [Relays -> SUBSET Relays]
                    /\ stream' \in [Relays -> [Relays -> StreamState]]
           Goal == Types /\ \A k, p \in Relays : Ties(k, p)' => Ties(k, p) \/ Done(p)
<1> USE DEF Causal, TreeType, Ties
<1>0. stream \in [Relays -> [Relays -> StreamState]]
  OBVIOUS
<1>s. ASSUME NEW a \in Relays, NEW b \in Relays, NEW v \in StreamState \ {"dialing"},
             stream' = [stream EXCEPT ![a][b] = v]
      PROVE  /\ stream' \in [Relays -> [Relays -> StreamState]]
             /\ \A p, q \in Relays : stream'[p][q] = "dialing" => stream[p][q] = "dialing"
  BY <1>0, <1>s, StreamSet
<1>1. ASSUME UNCHANGED <<waiting, adding, stream>>
      PROVE  Goal
  BY <1>1
<1>2. ASSUME NEW n \in Relays, NEW s \in Relays, Step(n, s)
      PROVE  Goal
  <2>1. CASE TreeCheck(n, s)
    <3>1. Done(s)
      <4>1. Msg("check", s, n) \in net
        BY <2>1 DEF TreeCheck
      <4> QED BY <4>1 DEF MessagesSettled, Msg
    <3>2. waiting' = waiting \/ waiting' = [waiting EXCEPT ![n] = @ \cup {s}]
      BY <2>1 DEF TreeCheck
    <3>3. waiting' \in [Relays -> SUBSET Relays]
      BY <3>2
    <3>4. \A k, p \in Relays : p \in waiting'[k] => p \in waiting[k] \/ p = s
      BY <3>2
    <3>5. UNCHANGED <<adding, stream>>
      BY <2>1 DEF TreeCheck
    <3> QED BY <3>1, <3>3, <3>4, <3>5
  <2>2. CASE ParentArrived(n, s)
    BY <2>2 DEF ParentArrived
  <2>3. CASE TreeReject(n, s)
    BY <2>3 DEF TreeReject
  <2>4. CASE UpgradeConnection(n, s)
    <3>1. Done(n)
      <4>1. Msg("upgrade", s, n) \in net
        BY <2>4 DEF UpgradeConnection
      <4> QED BY <4>1 DEF MessagesSettled, Msg
    <3>2. stream' = stream \/ stream' = [stream EXCEPT ![n][s] = "dialing"]
      BY <2>4 DEF UpgradeConnection
    <3>3. /\ stream' \in [Relays -> [Relays -> StreamState]]
          /\ \A p, q \in Relays : p # n => stream'[p][q] = stream[p][q]
      <4>1. "dialing" \in StreamState
        BY DEF StreamState
      <4>2. CASE stream' = [stream EXCEPT ![n][s] = "dialing"]
        BY <1>0, <4>1, <4>2, StreamSet
      <4> QED BY <1>0, <3>2, <4>2
    <3> QED BY <2>4, <3>1, <3>3 DEF UpgradeConnection, own
  <2>5. CASE AddStreamLink(n, s)
    <3>1. Done(s)
      BY <2>5 DEF AddStreamLink, PeersSettled
    <3>2. \/ stream' = [stream EXCEPT ![s][n] = "closed"]
          \/ stream' = [stream EXCEPT ![s][n] = "ok"]
      BY <2>5 DEF AddStreamLink
    <3>3. adding' = adding \/ adding' = [adding EXCEPT ![n] = @ \cup {s}]
      BY <2>5 DEF AddStreamLink
    <3>4. waiting' = waiting
      BY <2>5 DEF AddStreamLink
    <3>5. /\ stream' \in [Relays -> [Relays -> StreamState]]
          /\ \A p, q \in Relays : stream'[p][q] = "dialing" => stream[p][q] = "dialing"
      BY <1>s, <3>2 DEF StreamState
    <3>6. adding' \in [Relays -> SUBSET Relays]
      BY <3>3
    <3>7. \A k, p \in Relays : p \in adding'[k] => p \in adding[k] \/ p = s
      BY <3>3
    <3> QED BY <3>1, <3>4, <3>5, <3>6, <3>7
  <2>6. CASE SetParent(n, s)
    BY <2>6 DEF SetParent
  <2>7. CASE ActivateLink(n, s)
    <3>1. \/ stream' = [stream EXCEPT ![n][s] = "up"]
          \/ stream' = [stream EXCEPT ![n][s] = "failed"]
      BY <2>7 DEF ActivateLink
    <3>2. /\ stream' \in [Relays -> [Relays -> StreamState]]
          /\ \A p, q \in Relays : stream'[p][q] = "dialing" => stream[p][q] = "dialing"
      BY <1>s, <3>1 DEF StreamState
    <3> QED BY <2>7, <3>2 DEF ActivateLink
  <2> QED BY <1>2, <2>1, <2>2, <2>3, <2>4, <2>5, <2>6, <2>7 DEF Step
<1>3. ASSUME NEW n \in Relays, NEW s \in Relays, UpgradeTimeout(n, s)
      PROVE  Goal
  <2>1. \/ waiting' = [waiting EXCEPT ![n] = {}]
        \/ waiting' = [waiting EXCEPT ![n] = @ \ {s}]
    BY <1>3 DEF UpgradeTimeout
  <2>2. waiting' \in [Relays -> SUBSET Relays]
    BY <2>1
  <2>3. \A k, p \in Relays : p \in waiting'[k] => p \in waiting[k]
    BY <2>1
  <2>4. UNCHANGED <<adding, stream>>
    BY <1>3 DEF UpgradeTimeout
  <2> QED BY <2>2, <2>3, <2>4
<1>4. ASSUME NEW n \in Relays, NEW s \in Relays, DialFails(n, s)
      PROVE  Goal
  <2>1. /\ stream' \in [Relays -> [Relays -> StreamState]]
        /\ \A p, q \in Relays : stream'[p][q] = "dialing" => stream[p][q] = "dialing"
    BY <1>4, <1>s DEF DialFails, StreamState
  <2> QED BY <1>4, <2>1 DEF DialFails, own
<1>5. UNCHANGED <<waiting, adding, stream>> \/ Goal
  <2>1. CASE \E C \in Confirmed : InformPeers(C)
    BY <2>1 DEF InformPeers, own
  <2>2. CASE UpdateStates
    BY <2>2 DEF UpdateStates
  <2>3. CASE TriggerSpanningFormation
    BY <2>3 DEF TriggerSpanningFormation
  <2>4. CASE \E n \in Others : UpdateState(n)
    BY <2>4 DEF UpdateState
  <2>5. CASE \E m \in net : Lose(m)
    BY <2>5 DEF Lose, own
  <2>6. CASE Quiet /\ UNCHANGED vars
    BY <2>6 DEF vars
  <2> HIDE DEF Goal
  <2> QED BY <1>2, <1>3, <1>4, <2>1, <2>2, <2>3, <2>4, <2>5, <2>6 DEF Next, Progress, Fault
<1>6. Goal
  BY <1>1, <1>5
<1>7. \A p \in Relays : Done(p) => Done(p)'
  BY StepsOfTheTree, SettledStays
<1> QED BY <1>6, <1>7 DEF PeersSettled

\* The causal order is kept by every step.
LEMMA CausalStep ==
  ASSUME Causal, [Next]_vars
  PROVE  Causal'
<1>1. CASE Next
  <2>1. TreeStep
    BY <1>1, StepsOfTheTree
  <2>2. TreeType' /\ PeersSettled' /\ MessagesSettled'
    BY <1>1, <2>1, SettledStays, PeersStep, MessagesStep DEF TreeType, Causal
  <2>3. CenterFirst'
    <3>1. phase = "formed" => phase' = "formed"
      <4>1. CASE \E n, s \in Relays : Step(n, s)
        BY <4>1 DEF Step, TreeCheck, ParentArrived, TreeReject, UpgradeConnection,
                    AddStreamLink, SetParent, ActivateLink
      <4>2. CASE Fault
        BY <4>2 DEF Fault, UpgradeTimeout, DialFails, Lose
      <4> QED BY <1>1, <4>1, <4>2 DEF Next, Progress, InformPeers, UpdateStates,
                                     TriggerSpanningFormation, UpdateState, vars
    <3>2. \A n \in Relays : Done(n) => Done(n)'
      BY <2>1, SettledStays DEF Causal
    <3>3. CASE Plants
      <4>1. Done(Center)' /\ phase' = "formed"
        BY <3>3, CenterIsRelay DEF Plants, Done, Causal, TreeType
      <4> QED BY <4>1 DEF CenterFirst
    <3>4. ASSUME Done(Center) PROVE CenterFirst'
      BY <3>1, <3>2, <3>4, CenterIsRelay DEF Causal, CenterFirst
    <3>5. CASE UNCHANGED tree
      BY <3>1, <3>5 DEF tree, Done, Causal, CenterFirst
    <3> QED BY <2>1, <3>3, <3>4, <3>5 DEF TreeStep, Abandons, Attaches, Causal, CenterFirst
  <2> QED BY <2>2, <2>3 DEF Causal
<1>2. CASE UNCHANGED vars
  BY <1>2 DEF vars, Causal, TreeType, MessagesSettled, PeersSettled, CenterFirst, Done
<1> QED BY <1>1, <1>2

-----------------------------------------------------------------------------
(* The tree has no cycle *)

\* Attaching an unsettled relay below a settled one closes no cycle: a set of members
\* without the new relay had a member whose parent is outside, and that parent is not
\* the new relay, because no member has an unsettled parent.
LEMMA AcyclicStep ==
  ASSUME TreeInv, TreeStep
  PROVE  ParentsSettled' /\ Acyclic'
<1> USE DEF TreeInv, Causal
<1>1. \A n \in Relays : Done(n) => Done(n)' /\ fut'[n] = fut[n] /\ parent'[n] = parent[n]
  BY SettledStays
<1>2. Members \subseteq Relays /\ \A n \in Members : Done(n) /\ parent[n] \in Relays
  BY DEF Members, Others, Done, TreeType
<1>3. \A n \in Members : Done(parent[n])'
  BY <1>1, <1>2 DEF ParentsSettled
<1>4. CASE Members' = Members
  <2>1. \A n \in Members' : parent'[n] = parent[n]
    BY <1>1, <1>2, <1>4
  <2>2. ParentsSettled'
    BY <1>3, <1>4, <2>1 DEF ParentsSettled
  <2>3. Acyclic'
    BY <1>4, <2>1 DEF Acyclic
  <2> QED BY <2>2, <2>3
<1>5. ASSUME NEW n \in Relays, NEW p \in Relays, Attaches(n, p)
      PROVE  ParentsSettled' /\ Acyclic'
  <2>1. ~Done(n) /\ Done(p) /\ n # Center
    BY <1>5 DEF Attaches
  <2>2. parent'[n] = p /\ Members' = Members \cup {n} /\ n \notin Members
    BY <1>5, <2>1 DEF Attaches, Members, Others, TreeType, Done
  <2>3. \A k \in Members : parent'[k] = parent[k] /\ parent[k] # n
    BY <1>1, <1>2, <2>1 DEF ParentsSettled
  <2>4. ParentsSettled'
    BY <1>1, <1>3, <2>1, <2>2, <2>3 DEF ParentsSettled
  <2>5. ASSUME NEW S \in SUBSET Members', S # {}
        PROVE  \E k \in S : parent'[k] \notin S
    <3>1. CASE S \subseteq {n}
      BY <2>1, <2>2, <2>5, <3>1
    <3>2. CASE ~(S \subseteq {n})
      <4>1. S \ {n} \in SUBSET Members /\ S \ {n} # {}
        BY <2>2, <3>2
      <4>2. PICK k \in S \ {n} : parent[k] \notin S \ {n}
        BY <4>1 DEF Acyclic
      <4>3. k \in Members
        BY <4>1, <4>2
      <4> QED BY <2>3, <4>2, <4>3
    <3> QED BY <3>1, <3>2
  <2> QED BY <2>4, <2>5 DEF Acyclic
<1>6. CASE Plants \/ (\E n \in Relays : Abandons(n)) \/ UNCHANGED tree
  <2>1. \A n \in Others : fut'[n] = "result" <=> fut[n] = "result"
    <3>1. CASE Plants
      BY <3>1 DEF Plants, TreeType, Others
    <3>2. ASSUME NEW n \in Relays, Abandons(n)
          PROVE  \A k \in Others : fut'[k] = "result" <=> fut[k] = "result"
      BY <3>2 DEF Abandons, TreeType, Others, Done
    <3> QED BY <1>6, <3>1, <3>2 DEF tree
  <2>2. Members' = Members
    BY <2>1 DEF Members
  <2> QED BY <1>4, <2>2
<1> QED BY <1>5, <1>6 DEF TreeStep

\* The invariant holds initially.
LEMMA TreeInvInit == Init => TreeInv
<1> SUFFICES ASSUME Init PROVE TreeInv
  OBVIOUS
<1>1. TreeType
  BY DEF Init, TreeType, StreamState
<1>2. \A n \in Relays : ~Done(n)
  BY DEF Init, Done
<1>3. Members = {}
  BY <1>2 DEF Members, Others, Done
<1>4. MessagesSettled /\ PeersSettled /\ CenterFirst
  BY <1>2 DEF Init, MessagesSettled, PeersSettled, CenterFirst
<1>5. ParentsSettled /\ Acyclic
  BY <1>3 DEF ParentsSettled, Acyclic
<1> QED BY <1>1, <1>4, <1>5 DEF TreeInv, Causal

\* Every step keeps it.
LEMMA TreeInvStep == TreeInv /\ [Next]_vars => TreeInv'
<1> SUFFICES ASSUME TreeInv, [Next]_vars PROVE TreeInv'
  OBVIOUS
<1>1. TreeStep
  BY StepsOfTheTree DEF TreeInv, TreeStep, vars, tree
<1>2. Causal'
  BY CausalStep DEF TreeInv
<1> QED BY <1>1, <1>2, AcyclicStep DEF TreeInv

\* gossip_tree_check and gossip_add_stream_link keep the causal order and the forest
\* in every execution, whatever the network loses or reorders.
THEOREM TreeInvariance == Spec => []TreeInv
  BY TreeInvInit, TreeInvStep, PTL DEF Spec

\* For any number of relays and any fanout, no relay is its own ancestor.
THEOREM NoCycle == Spec => []Acyclic
<1>1. TreeInv => Acyclic
  BY DEF TreeInv
<1> QED BY <1>1, TreeInvariance, PTL

-----------------------------------------------------------------------------
(* The protocol implements the abstract forest *)

\* How a change of the tree appears in the abstract specification.
LEMMA ForestStep ==
  ASSUME TreeType, TreeStep
  PROVE  F!Next \/ UNCHANGED <<status, parent>>
<1> USE DEF TreeType, Done
<1> DEFINE Name == [pending |-> "free", cancelled |-> "orphan", result |-> "member"]
<1>1. \A n \in Relays : /\ status[n] = "free" <=> ~Done(n)
                        /\ Done(n) => status[n] # "free"
  BY DEF status
<1>2. ASSUME NEW n \in Relays, NEW v \in {"pending", "cancelled", "result"},
             fut' = [fut EXCEPT ![n] = v]
      PROVE  status' = [status EXCEPT ![n] = Name[v]]
  BY <1>2 DEF status
<1>3. CASE Plants
  <2>1. F!Plant
    BY <1>1, <1>2, <1>3, CenterIsRelay DEF Plants, F!Plant, F!Settled
  <2> QED BY <2>1 DEF F!Next
<1>4. ASSUME NEW n \in Relays, Abandons(n) PROVE F!Next
  <2>1. F!Abandon(n)
    BY <1>1, <1>2, <1>4 DEF Abandons, F!Abandon, F!Settled
  <2> QED BY <2>1 DEF F!Next
<1>5. ASSUME NEW n \in Relays, NEW p \in Relays, Attaches(n, p) PROVE F!Next
  <2>1. F!Attach(n, p)
    BY <1>1, <1>2, <1>5 DEF Attaches, F!Attach, F!Settled
  <2> QED BY <2>1 DEF F!Next
<1>6. CASE UNCHANGED tree
  BY <1>6 DEF tree, status
<1> QED BY <1>3, <1>4, <1>5, <1>6 DEF TreeStep

\* The palm tree protocol implements Forest: relays join one at a time, below a settled
\* relay, under one parent for good.
THEOREM ImplementsForest == Spec => GrowsForest
<1>1. Init => F!Init
  BY DEF Init, F!Init, status
<1>2. TreeInv /\ [Next]_vars => [F!Next]_<<status, parent>>
  <2> SUFFICES ASSUME TreeInv, [Next]_vars PROVE [F!Next]_<<status, parent>>
    OBVIOUS
  <2>1. TreeStep
    BY StepsOfTheTree DEF TreeInv, TreeStep, vars, tree
  <2> QED BY <2>1, ForestStep DEF TreeInv, Causal
<1> QED BY <1>1, <1>2, TreeInvariance, PTL DEF Spec, GrowsForest, F!Spec

-----------------------------------------------------------------------------
(* One parent, when an awaited send does not suspend *)

\* n reads from p.
Reads(n, p) == fut[n] = "result" /\ parent[n] = p

\* What the two ends of a stream know of each other.
LinkInv ==
  /\ online \in [Relays -> SUBSET Relays]
  /\ \A n \in Relays : adding[n] = {}
  /\ \A n, p \in Relays : stream[p][n] \in {"ok", "up"} => Reads(n, p)
  /\ \A n, p \in Relays : stream[n][p] = "up" => p \in online[n]
  /\ \A n, p \in Relays : p \in online[n] => Reads(n, p) \/ stream[n][p] = "up"

\* Only these actions touch the streams or the online links.
LEMMA LinkActions ==
  ASSUME Next
  PROVE  \/ UNCHANGED <<online, adding, stream>>
         \/ \E n, s \in Relays : UpgradeConnection(n, s) \/ AddStreamLink(n, s) \/ SetParent(n, s)
                                 \/ ActivateLink(n, s) \/ DialFails(n, s)
<1>1. CASE \E C \in Confirmed : InformPeers(C)
  BY <1>1 DEF InformPeers, own
<1>2. CASE UpdateStates
  BY <1>2 DEF UpdateStates
<1>3. CASE TriggerSpanningFormation
  BY <1>3 DEF TriggerSpanningFormation
<1>4. CASE \E n \in Others : UpdateState(n)
  BY <1>4 DEF UpdateState
<1>5. CASE \E n, s \in Relays : TreeCheck(n, s) \/ ParentArrived(n, s) \/ TreeReject(n, s)
  BY <1>5 DEF TreeCheck, ParentArrived, TreeReject
<1>6. CASE \E n, s \in Relays : UpgradeTimeout(n, s)
  BY <1>6 DEF UpgradeTimeout
<1>7. CASE \E m \in net : Lose(m)
  BY <1>7 DEF Lose, own
<1>8. CASE Quiet /\ UNCHANGED vars
  BY <1>8 DEF vars
<1> QED BY <1>1, <1>2, <1>3, <1>4, <1>5, <1>6, <1>7, <1>8 DEF Next, Progress, Fault, Step

\* Every step keeps the two ends of a stream in agreement.
LEMMA LinkInvStep ==
  ASSUME ~SendSuspends, TreeInv, LinkInv, Next
  PROVE  LinkInv'
<1> USE DEF TreeInv, Causal, TreeType, LinkInv
<1>1. TreeStep
  BY StepsOfTheTree
<1>2. \A n, p \in Relays : Reads(n, p) => Reads(n, p)'
  BY <1>1, SettledStays DEF Reads, Done
<1>3. CASE UNCHANGED <<online, adding, stream>>
  BY <1>2, <1>3
<1>4. ASSUME NEW n \in Relays, NEW s \in Relays, UpgradeConnection(n, s)
      PROVE  LinkInv'
  <2>1. UNCHANGED <<online, adding>>
    BY <1>4 DEF UpgradeConnection, own
  <2>2. CASE stream' = stream
    BY <1>2, <2>1, <2>2
  <2>3. CASE s \notin online[n] /\ stream' = [stream EXCEPT ![n][s] = "dialing"]
    <3>1. "dialing" \in StreamState
      BY DEF StreamState
    <3>2. stream'[n][s] = "dialing"
      BY <2>3, <3>1, StreamSet
    <3>3. \A p, q \in Relays : p # n \/ q # s => stream'[p][q] = stream[p][q]
      BY <2>3, <3>1, StreamSet
    <3> QED BY <1>2, <2>1, <2>3, <3>2, <3>3
  <2> QED BY <1>4, <2>2, <2>3 DEF UpgradeConnection
<1>5. ASSUME NEW n \in Relays, NEW s \in Relays, AddStreamLink(n, s)
      PROVE  LinkInv'
  <2>1. CASE stream' = [stream EXCEPT ![s][n] = "closed"] /\ UNCHANGED <<online, adding>>
    <3>1. "closed" \in StreamState
      BY DEF StreamState
    <3>2. stream'[s][n] = "closed"
      BY <2>1, <3>1, StreamSet
    <3>3. \A p, q \in Relays : p # s \/ q # n => stream'[p][q] = stream[p][q]
      BY <2>1, <3>1, StreamSet
    <3>4. stream[s][n] = "dialing"
      BY <1>5 DEF AddStreamLink
    <3> QED BY <1>2, <2>1, <3>2, <3>3, <3>4
  <2>2. CASE /\ stream' = [stream EXCEPT ![s][n] = "ok"]
             /\ online' = [online EXCEPT ![n] = @ \cup {s}]
             /\ fut' = [fut EXCEPT ![n] = "result"]
             /\ parent' = [parent EXCEPT ![n] = s]
             /\ UNCHANGED adding
    <3>1. "ok" \in StreamState
      BY DEF StreamState
    <3>2. stream'[s][n] = "ok"
      BY <2>2, <3>1, StreamSet
    <3>3. \A p, q \in Relays : p # s \/ q # n => stream'[p][q] = stream[p][q]
      BY <2>2, <3>1, StreamSet
    <3>4. stream[s][n] = "dialing"
      BY <1>5 DEF AddStreamLink
    <3>5. Reads(n, s)'
      BY <2>2 DEF Reads
    <3>6. /\ online' \in [Relays -> SUBSET Relays]
          /\ \A k, p \in Relays : p \in online[k] => p \in online'[k]
          /\ \A k, p \in Relays : p \in online'[k] => p \in online[k] \/ (k = n /\ p = s)
      BY <2>2
    <3> QED BY <1>2, <2>2, <3>2, <3>3, <3>4, <3>5, <3>6
  <2> QED BY <1>5, <2>1, <2>2 DEF AddStreamLink
<1>6. ASSUME NEW n \in Relays, NEW s \in Relays, SetParent(n, s)
      PROVE  LinkInv'
  BY <1>6 DEF SetParent
<1>7. ASSUME NEW n \in Relays, NEW s \in Relays, ActivateLink(n, s)
      PROVE  LinkInv'
  <2>1. CASE /\ stream[n][s] = "ok" /\ stream' = [stream EXCEPT ![n][s] = "up"]
             /\ online' = [online EXCEPT ![n] = @ \cup {s}]
    <3>1. "up" \in StreamState
      BY DEF StreamState
    <3>2. stream'[n][s] = "up"
      BY <2>1, <3>1, StreamSet
    <3>3. \A p, q \in Relays : p # n \/ q # s => stream'[p][q] = stream[p][q]
      BY <2>1, <3>1, StreamSet
    <3>4. /\ online' \in [Relays -> SUBSET Relays]
          /\ \A k, p \in Relays : p \in online[k] => p \in online'[k]
          /\ \A k, p \in Relays : p \in online'[k] => p \in online[k] \/ (k = n /\ p = s)
          /\ s \in online'[n]
      BY <2>1
    <3>5. UNCHANGED adding
      BY <1>7 DEF ActivateLink
    <3> QED BY <1>2, <2>1, <3>2, <3>3, <3>4, <3>5
  <2>2. CASE /\ stream[n][s] = "closed" /\ stream' = [stream EXCEPT ![n][s] = "failed"]
             /\ UNCHANGED online
    <3>1. "failed" \in StreamState
      BY DEF StreamState
    <3>2. stream'[n][s] = "failed"
      BY <2>2, <3>1, StreamSet
    <3>3. \A p, q \in Relays : p # n \/ q # s => stream'[p][q] = stream[p][q]
      BY <2>2, <3>1, StreamSet
    <3>4. UNCHANGED adding
      BY <1>7 DEF ActivateLink
    <3> QED BY <1>2, <2>2, <3>2, <3>3, <3>4
  <2> QED BY <1>7, <2>1, <2>2 DEF ActivateLink
<1>8. ASSUME NEW n \in Relays, NEW s \in Relays, DialFails(n, s)
      PROVE  LinkInv'
  <2>1. "failed" \in StreamState
    BY DEF StreamState
  <2>2. stream[n][s] = "dialing" /\ stream' = [stream EXCEPT ![n][s] = "failed"]
    BY <1>8 DEF DialFails
  <2>3. stream'[n][s] = "failed"
    BY <2>1, <2>2, StreamSet
  <2>4. \A p, q \in Relays : p # n \/ q # s => stream'[p][q] = stream[p][q]
    BY <2>1, <2>2, StreamSet
  <2>5. UNCHANGED <<online, adding>>
    BY <1>8 DEF DialFails, own
  <2> QED BY <1>2, <2>2, <2>3, <2>4, <2>5
<1> QED BY <1>3, <1>4, <1>5, <1>6, <1>7, <1>8, LinkActions

\* On a loop where a small send does not suspend, the ends of every stream agree.
THEOREM LinkInvariance == ~SendSuspends /\ Spec => []LinkInv
<1> SUFFICES ASSUME ~SendSuspends PROVE Spec => []LinkInv
  OBVIOUS
<1>1. Init => LinkInv
  BY DEF Init, LinkInv
<1>2. TreeInv /\ LinkInv /\ [Next]_vars => LinkInv'
  <2> SUFFICES ASSUME TreeInv, LinkInv, [Next]_vars PROVE LinkInv'
    OBVIOUS
  <2>1. CASE UNCHANGED vars
    BY <2>1 DEF vars, LinkInv, Reads
  <2> QED BY <2>1, LinkInvStep
<1> QED BY <1>1, <1>2, TreeInvariance, PTL DEF Spec

\* There, a relay answers GOSSIP_LINK_OK to one peer at most, for any number of relays.
THEOREM OneParent == ~SendSuspends /\ Spec => []SingleParent
<1>1. LinkInv => SingleParent
  BY DEF LinkInv, SingleParent, Accepted, Reads
<1> QED BY <1>1, LinkInvariance, PTL

\* There, what _get_forward_links returns are relays that read from this one.
THEOREM OnlyChildren == ~SendSuspends /\ Spec => []ForwardsToChildren
<1>1. ASSUME LinkInv, TreeInv PROVE ForwardsToChildren
  <2> SUFFICES ASSUME NEW p \in Relays, NEW q \in Forward(p) PROVE Reads(q, p)
    BY DEF ForwardsToChildren, Reads
  <2>1. q \in online[p] /\ q # parent[p] /\ q \in Relays
    BY <1>1 DEF Forward, LinkInv
  <2>2. stream[p][q] = "up"
    BY <1>1, <2>1 DEF LinkInv, Reads
  <2> QED BY <1>1, <2>1, <2>2 DEF LinkInv
<1>2. LinkInv /\ TreeInv => ForwardsToChildren
  BY <1>1
<1> QED BY <1>2, LinkInvariance, TreeInvariance, PTL

-----------------------------------------------------------------------------
(* The lists of neighbours and the window over them.                       *)

\* A set of numbers that is not empty has a least element.
LEMMA LeastElement ==
  ASSUME NEW D \in SUBSET Nat, D # {}
  PROVE  \E j \in D : \A i \in D : j <= i
<1> DEFINE R == OpToRel(<, Nat)
<1>1. IsWellFoundedOn(R, Nat)
  BY NatLessThanWellFounded
<1>2. \E x \in D : \A y \in D : ~(<<y, x>> \in R)
  <2> HIDE DEF R
  <2> QED BY <1>1, WFMin
<1>3. PICK x \in D : \A y \in D : ~(y < x)
  BY <1>2 DEF OpToRel
<1> QED BY <1>3

\* A finite set of numbers has a k-th smallest element for every k up to its size.
LEMMA NthElement ==
  ASSUME NEW D \in SUBSET Nat, IsFiniteSet(D), NEW k \in 1..Cardinality(D)
  PROVE  Nth(D, k) \in D
<1> DEFINE Below(j) == {i \in D : i < j}
           Missing == {r \in Nat : r < Cardinality(D) /\ \A j \in D : Cardinality(Below(j)) # r}
<1>0. \A i \in D : i \in Nat
  OBVIOUS
<1>1. Cardinality(D) \in Nat
  BY FS_CardinalityType
<1>2. Missing = {}
  <2> SUFFICES ASSUME Missing # {} PROVE FALSE
    OBVIOUS
  <2>1. PICK r \in Missing : \A i \in Missing : r <= i
    <3>1. Missing \in SUBSET Nat
      OBVIOUS
    <3> HIDE DEF Missing
    <3> QED BY <3>1, LeastElement
  <2>2. r \in Nat /\ r < Cardinality(D) /\ \A j \in D : Cardinality(Below(j)) # r
    OBVIOUS
  <2>3. CASE r = 0
    <3>1. D # {}
      BY <1>1, <2>2, FS_EmptySet
    <3>2. PICK j \in D : \A i \in D : j <= i
      BY <3>1, LeastElement
    <3>3. Below(j) = {}
      <4>1. \A i \in D : ~(i < j)
        BY <1>0, <3>2
      <4> QED BY <4>1
    <3> QED BY <2>2, <2>3, <3>3, FS_EmptySet
  <2>4. CASE r # 0
    <3>1. r - 1 \notin Missing /\ r - 1 \in Nat /\ r - 1 < Cardinality(D)
      BY <1>1, <2>1, <2>2, <2>4
    <3>2. PICK j \in D : Cardinality(Below(j)) = r - 1
      BY <3>1
    <3> DEFINE B == Below(j)
               Upto == B \cup {j}
    <3>3. B \in SUBSET D /\ j \notin B /\ Cardinality(B) = r - 1
      BY <1>0, <3>2
    <3>4. Cardinality(Upto) = r
      <4> HIDE DEF B
      <4>1. IsFiniteSet(B)
        BY <3>3, FS_Subset
      <4>2. Cardinality(Upto) = Cardinality(B) + 1
        BY <3>3, <4>1, FS_AddElement
      <4> QED BY <2>2, <3>3, <4>2
    <3>5. Upto # D
      BY <1>1, <2>2, <3>4
    <3> DEFINE Above == {i \in D : i > j}
    <3>6. Above # {}
      <4>1. PICK i \in D : i \notin Upto
        BY <3>3, <3>5
      <4>2. i > j
        BY <1>0, <4>1
      <4> QED BY <4>1, <4>2
    <3>7. PICK m \in Above : \A i \in Above : m <= i
      <4>1. Above \in SUBSET Nat
        OBVIOUS
      <4> HIDE DEF Above
      <4> QED BY <3>6, <4>1, LeastElement
    <3>8. Below(m) = Upto
      <4>1. \A i \in D : i < m <=> i < j \/ i = j
        BY <1>0, <3>7
      <4> QED BY <4>1
    <3> QED BY <2>2, <3>4, <3>7, <3>8
  <2> QED BY <2>3, <2>4
<1>3. k - 1 \in Nat /\ k - 1 < Cardinality(D)
  BY <1>1
<1>4. \E j \in D : Cardinality(Below(j)) = k - 1
  BY <1>2, <1>3
<1> QED BY <1>4 DEF Nth

\* The center gives a relay neighbours that answered.
LEMMA NeighboursAnswered ==
  ASSUME NEW n \in Relays
  PROVE  AdjacencyList(n) \in Seq(confirmed)
<1> DEFINE D == {j \in CreateHypercube(n) : Flip(n, j) \in confirmed}
<1>1. D \in SUBSET (0..(N - 1)) /\ IsFiniteSet(0..(N - 1))
  BY SizeAssumption, FS_Interval DEF CreateHypercube, Dimensions
<1>2. IsFiniteSet(D) /\ D \in SUBSET Nat
  <2> HIDE DEF D
  <2>1. IsFiniteSet(D)
    BY <1>1, FS_Subset
  <2> QED BY <1>1, <2>1
<1>3. \A k \in 1..Cardinality(D) : Nth(D, k) \in D
  <2> HIDE DEF D
  <2> QED BY <1>2, NthElement
<1>4. \A k \in 1..Cardinality(D) : Flip(n, Nth(D, k)) \in confirmed
  BY <1>3
<1>5. Cardinality(D) \in Nat
  <2> HIDE DEF D
  <2> QED BY <1>2, FS_CardinalityType
<1>6. AdjacencyList(n) = [k \in 1..Cardinality(D) |-> Flip(n, Nth(D, k))]
  BY DEF AdjacencyList
<1> HIDE DEF D
<1> QED BY <1>4, <1>5, <1>6

\* A relay gets its neighbours once: until then it has none, and it has none while
\* the datagram with them is on its way.
StateOnce ==
  /\ phase \in {"inform", "states"} => net = {} /\ \A n \in Relays : links[n] = <<>>
  /\ \A m \in net : m.kind = "state" =>
       m.src = Center /\ m.dst # Center /\ links[m.dst] = <<>>

TypeInv == TypeOK /\ StateOnce

\* The least and the greatest of two numbers.
LEMMA MinMax ==
  ASSUME NEW a \in Int, NEW b \in Int
  PROVE  /\ Min({a, b}) = IF a <= b THEN a ELSE b
         /\ Max({a, b}) = IF a >= b THEN a ELSE b
<1>1. \A x : x = (IF a <= b THEN a ELSE b) <=> x \in {a, b} /\ \A y \in {a, b} : x <= y
  OBVIOUS
<1>2. \A x : x = (IF a >= b THEN a ELSE b) <=> x \in {a, b} /\ \A y \in {a, b} : x >= y
  OBVIOUS
<1> QED BY <1>1, <1>2 DEF Min, Max

\* A bound of a slice is cut to the list.
LEMMA SliceBoundInside ==
  ASSUME NEW i \in Int, NEW len \in Nat
  PROVE  SliceBound(i, len) \in 0..len
<1>1. len + i \in Int /\ 0 \in Int /\ len \in Int
  OBVIOUS
<1>2. Max({0, len + i}) = IF 0 >= len + i THEN 0 ELSE len + i
  BY <1>1, MinMax
<1>3. Min({i, len}) = IF i <= len THEN i ELSE len
  BY <1>1, MinMax
<1> QED BY <1>1, <1>2, <1>3 DEF SliceBound

\* The new start of a window is not past the list, and the window holds relays.
LEMMA WindowInside ==
  ASSUME TypeOK, NEW n \in Relays, NEW inc
  PROVE  /\ WindowEnd(n, inc) \in Int /\ WindowEnd(n, inc) <= Len(links[n])
         /\ Window(n, WindowEnd(n, inc)) \subseteq Relays
<1> DEFINE s == links[n]
           A == (active[n] \cap online[n]) \ inc
<1>1. s \in Seq(Relays) /\ Len(s) \in Nat /\ win[n] \in Int
  BY DEF TypeOK
<1>2. Cardinality(A) \in Nat
  <2>1. IsFiniteSet(Relays)
    BY SizeAssumption, FS_Interval DEF Relays
  <2>2. A \in SUBSET Relays
    BY DEF TypeOK
  <2> HIDE DEF A
  <2> QED BY <2>1, <2>2, FS_Subset, FS_CardinalityType
<1>3. Fan(n) \in Int
  BY <1>1, SizeAssumption, MinMax DEF Fan
<1>4. WindowEnd(n, inc) \in Int /\ WindowEnd(n, inc) <= Len(s)
  <2> DEFINE c == Cardinality(A)
  <2>1. WindowEnd(n, inc) = Min({Len(s), win[n] + Fan(n)}) - c
    BY DEF WindowEnd
  <2>2. Len(s) \in Int /\ win[n] + Fan(n) \in Int
    BY <1>1, <1>3
  <2> HIDE DEF A, c, s
  <2>3. Min({Len(s), win[n] + Fan(n)}) \in Int /\ Min({Len(s), win[n] + Fan(n)}) <= Len(s)
    BY <2>2, MinMax
  <2>4. c \in Nat
    BY <1>2 DEF c
  <2> QED BY <2>1, <2>2, <2>3, <2>4
<1>5. ASSUME NEW e \in Int
      PROVE  Window(n, e) \subseteq Relays
  <2>1. SliceBound(win[n], Len(s)) \in 0..Len(s) /\ SliceBound(e + 1, Len(s)) \in 0..Len(s)
    <3>1. e + 1 \in Int
      OBVIOUS
    <3> HIDE DEF s
    <3> QED BY <1>1, <3>1, SliceBoundInside
  <2>2. Slice(win[n], e + 1, Len(s)) \subseteq 1..Len(s)
    BY <1>1, <2>1 DEF Slice
  <2>3. \A i \in 1..Len(s) : s[i] \in Relays
    BY <1>1
  <2> QED BY <2>2, <2>3 DEF Window
<1> QED BY <1>4, <1>5

\* A relay that passes a check on keeps its types and sends no state.
LEMMA ForwardTyped ==
  ASSUME TypeInv, NEW n \in Relays, NEW s \in Relays, NEW inc, NEW gone,
         ForwardTreeCheck(n, s, inc, gone)
  PROVE  /\ win' \in [Relays -> Int] /\ \A k \in Relays : win'[k] <= Len(links[k])
         /\ active' \in [Relays -> SUBSET Relays]
         /\ net' \subseteq Datagram /\ \A m \in net' : m.kind = "state" => m \in net
<1> DEFINE e == WindowEnd(n, inc)
           sampled == Window(n, e) \ ({s} \cup active[n])
<1>1. e \in Int /\ e <= Len(links[n]) /\ sampled \subseteq Relays
  BY WindowInside DEF TypeInv
<1>2. /\ win' = [win EXCEPT ![n] = e] /\ active' = [active EXCEPT ![n] = @ \cup sampled]
      /\ net' = (net \ gone) \cup {Msg("check", n, p) : p \in sampled}
  BY DEF ForwardTreeCheck
<1> HIDE DEF e, sampled
<1>3. {Msg("check", n, p) : p \in sampled} \subseteq {m \in Datagram : m.kind = "check"}
  BY <1>1 DEF Msg, Datagram
<1> QED BY <1>1, <1>2, <1>3 DEF TypeInv, TypeOK

\* The relays change their links only when the center tells them.
LinksKept == phase' = phase /\ confirmed' = confirmed /\ links' = links

\* Datagrams other than states keep what is said of states.
LEMMA StateOnceKept ==
  ASSUME StateOnce, LinksKept, \A m \in net' : m.kind = "state" => m \in net,
         phase \in {"inform", "states"} => net' = {}
  PROVE  StateOnce'
BY DEF StateOnce, LinksKept

\* Before the center has given out the links no relay sends anything.
LEMMA NothingSent ==
  ASSUME Causal, StateOnce, phase \in {"inform", "states"}, NEW n \in Relays, NEW s \in Relays,
         Step(n, s) \/ UpgradeTimeout(n, s) \/ DialFails(n, s)
  PROVE  net' = {}
<1>1. ~Done(s) /\ net = {}
  BY DEF Causal, CenterFirst, StateOnce
<1>2. s \notin waiting[n]
  BY <1>1 DEF Causal, PeersSettled
<1> QED
  BY <1>1, <1>2 DEF Step, TreeCheck, ParentArrived, TreeReject, UpgradeConnection,
     AddStreamLink, SetParent, ActivateLink, UpgradeTimeout, DialFails

\* Adding a relay to a set of one of the relays, or removing it, keeps the type.
LEMMA SetsTyped ==
  ASSUME NEW f, NEW g, NEW n \in Relays, NEW s \in Relays, f \in [Relays -> SUBSET Relays],
         g = f \/ g = [f EXCEPT ![n] = @ \cup {s}] \/ g = [f EXCEPT ![n] = @ \ {s}]
  PROVE  g \in [Relays -> SUBSET Relays]
OBVIOUS

\* A step of a relay keeps the types.
LEMMA StepTyped ==
  ASSUME TypeInv, TreeType', NEW n \in Relays, NEW s \in Relays,
         Step(n, s) \/ UpgradeTimeout(n, s) \/ DialFails(n, s)
  PROVE  TypeOK' /\ LinksKept /\ \A m \in net' : m.kind = "state" => m \in net
<1> USE DEF LinksKept
<1>0. /\ expected \in [Relays -> SUBSET Relays] /\ active \in [Relays -> SUBSET Relays]
      /\ online \in [Relays -> SUBSET Relays] /\ incoming \in [Relays -> SUBSET Relays]
  BY DEF TypeInv, TypeOK
<1>1. \A k \in {"reject", "upgrade"} : Msg(k, n, s) \in Datagram /\ Msg(k, n, s).kind # "state"
  BY DEF Msg, Datagram
<1>2. CASE TreeCheck(n, s)
  <2>0. /\ expected' = expected \/ expected' = [expected EXCEPT ![n] = @ \cup {s}]
        /\ active' = active \/ active' = [active EXCEPT ![n] = @ \cup {s}]
    BY <1>2 DEF TreeCheck
  <2>1. expected' \in [Relays -> SUBSET Relays] /\ active' \in [Relays -> SUBSET Relays]
    BY <1>0, <2>0, SetsTyped
  <2>2. net' \subseteq net \cup {Msg("reject", n, s), Msg("upgrade", n, s)}
    BY <1>2 DEF TreeCheck
  <2>3. UNCHANGED <<phase, confirmed, links, rstate, win, online, incoming>>
    BY <1>2 DEF TreeCheck, tree
  <2> QED BY <1>1, <2>1, <2>2, <2>3 DEF TypeInv, TypeOK, TreeType, StreamState
<1>3. CASE ParentArrived(n, s)
  <2>1. ForwardTreeCheck(n, s, incoming'[n], {})
    BY <1>3 DEF ParentArrived
  <2>2. /\ win' \in [Relays -> Int] /\ \A k \in Relays : win'[k] <= Len(links[k])
        /\ active' \in [Relays -> SUBSET Relays]
        /\ net' \subseteq Datagram /\ \A m \in net' : m.kind = "state" => m \in net
    BY <2>1, ForwardTyped
  <2>3. incoming' \in [Relays -> SUBSET Relays]
    BY <1>0, <1>3, SetsTyped DEF ParentArrived
  <2>4. /\ rstate' \in [Relays -> {"SESSION_INIT", "LINKS_INITIALIZED", "TREE_CHECK_DONE"}]
        /\ UNCHANGED <<phase, confirmed, links, expected, online>>
    BY <1>3 DEF ParentArrived, TypeInv, TypeOK
  <2> QED BY <2>2, <2>3, <2>4 DEF TypeInv, TypeOK, TreeType, StreamState
<1>4. CASE TreeReject(n, s)
  <2> DEFINE m == Msg("reject", s, n)
  <2>1. (net' = net \ {m} /\ UNCHANGED <<win, active>>) \/ ForwardTreeCheck(n, s, incoming[n], {m})
    BY <1>4 DEF TreeReject
  <2>2. /\ win' \in [Relays -> Int] /\ \A k \in Relays : win'[k] <= Len(links[k])
        /\ active' \in [Relays -> SUBSET Relays]
        /\ net' \subseteq Datagram /\ \A d \in net' : d.kind = "state" => d \in net
    <3>1. CASE ForwardTreeCheck(n, s, incoming[n], {m})
      <4> HIDE DEF m
      <4> QED BY <3>1, ForwardTyped
    <3> QED BY <2>1, <3>1 DEF TypeInv, TypeOK
  <2> QED BY <1>4, <2>2 DEF TreeReject, TypeInv, TypeOK, TreeType, StreamState
<1>5. CASE UpgradeConnection(n, s)
  BY <1>5 DEF UpgradeConnection, tree, own, TypeInv, TypeOK
<1>6. CASE AddStreamLink(n, s)
  <2>1. online' = online \/ online' = [online EXCEPT ![n] = @ \cup {s}]
    BY <1>6 DEF AddStreamLink
  <2>2. online' \in [Relays -> SUBSET Relays]
    BY <1>0, <2>1, SetsTyped
  <2>3. UNCHANGED <<phase, confirmed, links, rstate, win, expected, active, incoming, net>>
    BY <1>6 DEF AddStreamLink
  <2> QED BY <2>2, <2>3 DEF TypeInv, TypeOK, TreeType, StreamState
<1>7. CASE SetParent(n, s)
  BY <1>7 DEF SetParent, TypeInv, TypeOK, TreeType, StreamState
<1>8. CASE ActivateLink(n, s)
  <2>1. /\ online' = online \/ online' = [online EXCEPT ![n] = @ \cup {s}]
        /\ incoming' = incoming \/ incoming' = [incoming EXCEPT ![n] = @ \ {s}]
    BY <1>8 DEF ActivateLink
  <2>2. online' \in [Relays -> SUBSET Relays] /\ incoming' \in [Relays -> SUBSET Relays]
    BY <1>0, <2>1, SetsTyped
  <2>3. UNCHANGED <<phase, confirmed, links, rstate, win, expected, active, net>>
    BY <1>8 DEF ActivateLink
  <2> QED BY <2>2, <2>3 DEF TypeInv, TypeOK, TreeType, StreamState
<1>9. CASE UpgradeTimeout(n, s)
  <2>1. ForwardTreeCheck(n, s, incoming[n], {})
    BY <1>9 DEF UpgradeTimeout
  <2>2. /\ win' \in [Relays -> Int] /\ \A k \in Relays : win'[k] <= Len(links[k])
        /\ active' \in [Relays -> SUBSET Relays]
        /\ net' \subseteq Datagram /\ \A m \in net' : m.kind = "state" => m \in net
    BY <2>1, ForwardTyped
  <2>3. /\ rstate' \in [Relays -> {"SESSION_INIT", "LINKS_INITIALIZED", "TREE_CHECK_DONE"}]
        /\ UNCHANGED <<phase, confirmed, links, parent, expected, online, incoming, adding, stream>>
    BY <1>9 DEF UpgradeTimeout, TypeInv, TypeOK
  <2> QED BY <2>2, <2>3 DEF TypeInv, TypeOK, TreeType, StreamState
<1>10. CASE DialFails(n, s)
  BY <1>10 DEF DialFails, tree, own, TypeInv, TypeOK
<1> QED BY <1>2, <1>3, <1>4, <1>5, <1>6, <1>7, <1>8, <1>9, <1>10 DEF Step

\* A sequence of peers that answered is a sequence of relays.
LEMMA ListTyped ==
  ASSUME TypeOK, NEW n \in Relays
  PROVE  AdjacencyList(n) \in Seq(Relays)
<1>1. confirmed \subseteq Relays
  BY DEF TypeOK
<1> QED BY <1>1, NeighboursAnswered

\* The center's steps keep the types, and give out the links once.
LEMMA CenterTyped ==
  ASSUME TypeInv,
         \/ \E C \in Confirmed : InformPeers(C)
         \/ UpdateStates \/ TriggerSpanningFormation
         \/ \E n \in Others : UpdateState(n)
  PROVE  TypeInv'
<1> USE CenterIsRelay DEF TypeInv, TypeOK
<1>1. CASE \E C \in Confirmed : InformPeers(C)
  <2>1. \A C \in Confirmed : C \subseteq Relays
    BY SwitchesAssumption DEF Confirmed, Others
  <2> QED BY <1>1, <2>1 DEF InformPeers, StateOnce, tree, own
<1>2. CASE UpdateStates
  <2>1. /\ net' = {Msg("state", Center, n) : n \in confirmed \ {Center}}
        /\ \A n \in Relays : links[n] = <<>>
    BY <1>2 DEF UpdateStates, StateOnce
  <2>2. AdjacencyList(Center) \in Seq(Relays) /\ Len(AdjacencyList(Center)) \in Nat
    BY ListTyped
  <2>3. links' = [links EXCEPT ![Center] = AdjacencyList(Center)] /\ win' = win
    BY <1>2 DEF UpdateStates
  <2>4. links' \in [Relays -> Seq(Relays)] /\ \A n \in Relays : win[n] <= Len(links'[n])
    BY <2>1, <2>2, <2>3
  <2>5. net' \subseteq Datagram /\ \A m \in net' : m.src = Center /\ m.dst \in Relays \ {Center}
    BY <2>1 DEF Msg, Datagram
  <2>6. StateOnce'
    BY <1>2, <2>1, <2>3, <2>5 DEF UpdateStates, StateOnce
  <2> QED BY <1>2, <2>4, <2>5, <2>6 DEF UpdateStates, tree
<1>3. CASE TriggerSpanningFormation
  <2>1. ForwardTreeCheck(Center, Center, incoming[Center], {})
    BY <1>3 DEF TriggerSpanningFormation
  <2>2. /\ win' \in [Relays -> Int] /\ \A k \in Relays : win'[k] <= Len(links[k])
        /\ active' \in [Relays -> SUBSET Relays]
        /\ net' \subseteq Datagram /\ \A m \in net' : m.kind = "state" => m \in net
    BY <2>1, ForwardTyped
  <2> QED BY <1>3, <2>2 DEF TriggerSpanningFormation, StateOnce
<1>4. ASSUME NEW n \in Others, UpdateState(n)
      PROVE  TypeInv'
  <2> DEFINE m == Msg("state", Center, n)
  <2>1. n \in Relays /\ m \in net /\ m.kind = "state" /\ m.dst = n
    BY <1>4 DEF UpdateState, Others, Msg
  <2>2. links[n] = <<>> /\ phase \notin {"inform", "states"}
    BY <2>1 DEF StateOnce
  <2>3. AdjacencyList(n) \in Seq(Relays) /\ Len(AdjacencyList(n)) \in Nat
    BY <2>1, ListTyped
  <2>4. links' = [links EXCEPT ![n] = AdjacencyList(n)] /\ net' = net \ {m} /\ win' = win
    BY <1>4 DEF UpdateState
  <2>5. links' \in [Relays -> Seq(Relays)] /\ \A k \in Relays : win[k] <= Len(links'[k])
    BY <2>1, <2>2, <2>3, <2>4
  <2>6. \A d \in net' : d.kind = "state" => d.dst # n
    BY <2>4 DEF StateOnce, Msg, Datagram
  <2>7. StateOnce'
    BY <1>4, <2>2, <2>4, <2>6 DEF UpdateState, StateOnce, Datagram
  <2> QED BY <1>4, <2>1, <2>4, <2>5, <2>7 DEF UpdateState, tree
<1> QED BY <1>1, <1>2, <1>3, <1>4

\* The protocol keeps the types.
LEMMA TypeInvStep == TreeInv /\ TypeInv /\ [Next]_vars => TypeInv'
<1> SUFFICES ASSUME TreeInv, TypeInv, [Next]_vars PROVE TypeInv'
  OBVIOUS
<1>1. ASSUME NEW n \in Relays, NEW s \in Relays,
             Step(n, s) \/ UpgradeTimeout(n, s) \/ DialFails(n, s)
      PROVE  TypeInv'
  <2>1. TypeOK' /\ LinksKept /\ \A m \in net' : m.kind = "state" => m \in net
    BY <1>1, TreeInvStep, StepTyped DEF TreeInv, Causal
  <2>2. phase \in {"inform", "states"} => net' = {}
    BY <1>1, NothingSent DEF TreeInv, TypeInv
  <2> QED BY <2>1, <2>2, StateOnceKept DEF TypeInv
<1>2. CASE \E m \in net : Lose(m)
  BY <1>2 DEF Lose, TypeInv, TypeOK, StateOnce, tree, own
<1>3. CASE UNCHANGED vars
  BY <1>3 DEF vars, TypeInv, TypeOK, StateOnce
<1> QED BY <1>1, <1>2, <1>3, CenterTyped DEF Next, Progress, Fault

\* The variables have their types whatever the relays receive in whatever order; the
\* window index of forward_tree_check_packet is never past the end of all_links.
THEOREM Types == Spec => []TypeOK
<1>1. Init => TypeInv
  BY CenterIsRelay, SizeAssumption DEF Init, TypeInv, TypeOK, StateOnce, Datagram
<1> QED BY <1>1, TreeInvariance, TypeInvStep, PTL DEF Spec, TypeInv
=============================================================================
