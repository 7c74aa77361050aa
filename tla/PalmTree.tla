------------------------------ MODULE PalmTree ------------------------------
(***************************************************************************)
(* The palm tree protocol (transfers/otm/palm_tree.py): the center of a    *)
(* one-to-many transfer informs the peers, gives each the addresses of its *)
(* neighbours in a hypercube and starts a tree check.  A relay that gets a *)
(* check asks the sender for a stream connection, which makes the sender   *)
(* its parent, and only then checks its own neighbours.  Control messages  *)
(* are datagrams: they may be lost and overtake each other.                *)
(*                                                                         *)
(* A relay handles every datagram in a task of its own.  A task awaits at  *)
(* three places: for the parent link (waiting), for the answer to a stream *)
(* connection it dialled (stream) and for the send of the answer (adding). *)
(***************************************************************************)
EXTENDS Integers, Sequences, FiniteSets, FiniteSetsExt

CONSTANTS
  N,              \* relays, the center included
  Fanout,         \* session.fanout as the center sets it
  InOrder,        \* a relay has its links before a check reaches it
  Faulty,         \* datagrams get lost, dials fail, timeouts fire, peers do not answer
  SendSuspends    \* an awaited send yields to the loop (the proactor loop of Windows)

ASSUME SizeAssumption == N \in Nat \ {0} /\ Fanout \in Nat \ {0}
ASSUME SwitchesAssumption ==
  InOrder \in BOOLEAN /\ Faulty \in BOOLEAN /\ SendSuspends \in BOOLEAN

Relays == 0..(N - 1)
Center == 0
Others == Relays \ {Center}

Datagram == [kind : {"state", "check", "reject", "upgrade"}, src : Relays, dst : Relays]
Msg(k, s, d) == [kind |-> k, src |-> s, dst |-> d]

VARIABLES
  phase,      \* how far FilesSender.start got: inform, states, trigger, formed
  confirmed,  \* keys of PalmTreeProtocol.confirmed_peers
  links,      \* all_links of each relay, in insertion order
  rstate,     \* RelayState
  win,        \* _tree_check_window_index
  fut,        \* _parent_link_fut: pending, cancelled or result
  parent,     \* its result (the relay itself before there is one)
  expected,   \* __expected_parent_peers
  active,     \* keys of active_links
  online,     \* those of them that have a stream connection
  incoming,   \* links whose direction was set to INCOMING
  waiting,    \* senders of the tree checks whose task awaits the parent link
  adding,     \* peers whose stream link is being answered
  stream,     \* stream[p][q]: the connection p dialled to q
  net         \* datagrams in flight

tree == <<fut, parent>>
own == <<links, rstate, win, expected, active, online, incoming, waiting, adding>>
vars == <<phase, confirmed, links, rstate, win, fut, parent, expected, active, online,
          incoming, waiting, adding, stream, net>>

Init ==
  /\ phase = "inform" /\ confirmed = {Center} /\ net = {}
  /\ links = [n \in Relays |-> <<>>] /\ rstate = [n \in Relays |-> "SESSION_INIT"]
  /\ win = [n \in Relays |-> 0]
  /\ fut = [n \in Relays |-> "pending"] /\ parent = [n \in Relays |-> n]
  /\ expected = [n \in Relays |-> {}] /\ active = [n \in Relays |-> {}]
  /\ online = [n \in Relays |-> {}] /\ incoming = [n \in Relays |-> {}]
  /\ waiting = [n \in Relays |-> {}] /\ adding = [n \in Relays |-> {}]
  /\ stream = [p \in Relays |-> [q \in Relays |-> "none"]]

-----------------------------------------------------------------------------
(* The topology *)

\* range(dimensions): the bits of the hypercube that holds N peers.
Dimensions == {j \in 0..(N - 1) : 2^j < N}

\* i ^ (1 << j)
Flip(i, j) == IF (i \div 2^j) % 2 = 0 THEN i + 2^j ELSE i - 2^j

\* create_hypercube: the dimensions in which i has a neighbour that exists.
CreateHypercube(i) == {j \in Dimensions : Flip(i, j) < N}

\* The k-th smallest element of D.
Nth(D, k) == CHOOSE j \in D : Cardinality({i \in D : i < j}) = k - 1

\* adjacency_list[n], by dimension: a peer that did not answer was removed from
\* every list.
AdjacencyList(n) ==
  LET D == {j \in CreateHypercube(n) : Flip(n, j) \in confirmed}
  IN [k \in 1..Cardinality(D) |-> Flip(n, Nth(D, k))]

\* inform_peers: the peers of C answer in time.
InformPeers(C) ==
  /\ phase = "inform" /\ phase' = "states"
  /\ confirmed' = C \cup {Center}
  /\ UNCHANGED <<own, tree, stream, net>>

\* update_states: the center's relay is updated directly, the others by datagram.
UpdateStates ==
  /\ phase = "states" /\ phase' = "trigger"
  /\ links' = [links EXCEPT ![Center] = AdjacencyList(Center)]
  /\ rstate' = [rstate EXCEPT ![Center] = "LINKS_INITIALIZED"]
  /\ net' = net \cup {Msg("state", Center, n) : n \in confirmed \ {Center}}
  /\ UNCHANGED <<confirmed, win, tree, expected, active, online, incoming, waiting, adding, stream>>

-----------------------------------------------------------------------------
(* A relay *)

Elems(s) == {s[i] : i \in 1..Len(s)}

\* session.fanout after gossip_update_state.
Fan(n) == Min({Len(links[n]), Fanout})

Done(n) == fut[n] # "pending"

\* Python's slice l[i : j] of a list of length len, as positions counted from 1.
SliceBound(i, len) == IF i < 0 THEN Max({0, len + i}) ELSE Min({i, len})
Slice(i, j, len) == (SliceBound(i, len) + 1)..SliceBound(j, len)

\* Mutant: the window is not cut at the end of the list.
WindowEndMutant(n, inc) == win[n] + Fan(n) - Cardinality((active[n] \cap online[n]) \ inc)

\* The next start of the window; inc are the links whose direction is INCOMING.
WindowEnd(n, inc) ==
  Min({Len(links[n]), win[n] + Fan(n)}) - Cardinality((active[n] \cap online[n]) \ inc)

\* Mutant: the window does not reach its last peer.
WindowMutant(n, end) == {links[n][i] : i \in Slice(win[n], end - 1, Len(links[n]))}

\* The peers forward_tree_check_packet looks at, all_links[start : end + 1].
Window(n, end) == {links[n][i] : i \in Slice(win[n], end + 1, Len(links[n]))}

\* forward_tree_check_packet, called for a packet of s; gone is the datagram that
\* the calling task was started by.
ForwardTreeCheck(n, s, inc, gone) ==
  LET end == WindowEnd(n, inc)
      sampled == Window(n, end) \ ({s} \cup active[n])
  IN /\ win' = [win EXCEPT ![n] = end]
     /\ active' = [active EXCEPT ![n] = @ \cup sampled]
     /\ net' = (net \ gone) \cup {Msg("check", n, p) : p \in sampled}

\* The center's parent future gets the result None; its first checks go out.
TriggerSpanningFormation ==
  /\ phase = "trigger" /\ phase' = "formed"
  /\ fut' = [fut EXCEPT ![Center] = "result"]
  /\ ForwardTreeCheck(Center, Center, incoming[Center], {})
  /\ UNCHANGED <<confirmed, links, rstate, parent, expected, online, incoming, waiting, adding, stream>>

\* gossip_update_state; the center sends one state to a peer.
UpdateState(n) ==
  LET m == Msg("state", Center, n) IN
  /\ m \in net /\ net' = net \ {m}
  /\ links' = [links EXCEPT ![n] = AdjacencyList(n)]
  /\ rstate' = [rstate EXCEPT ![n] = "LINKS_INITIALIZED"]
  /\ UNCHANGED <<phase, confirmed, win, tree, expected, active, online, incoming, waiting, adding, stream>>

\* _may_be_make_rejection
Rejects(n, s) ==
  \/ s \notin Elems(links[n])
  \/ Cardinality(active[n]) > Fan(n)
  \/ Done(n)
  \/ rstate[n] = "TREE_CHECK_DONE"

\* Mutant: the relay passes the check on before it has a parent.
TreeCheckMutant(n, s) ==
  LET m == Msg("check", s, n)
      sampled == Window(n, WindowEnd(n, incoming[n])) \ ({s} \cup active[n])
  IN
  /\ m \in net /\ ~Rejects(n, s)
  /\ expected' = [expected EXCEPT ![n] = @ \cup {s}]
  /\ active' = [active EXCEPT ![n] = @ \cup {s} \cup sampled]
  /\ waiting' = [waiting EXCEPT ![n] = @ \cup {s}]
  /\ net' = (net \ {m}) \cup {Msg("upgrade", n, s)} \cup {Msg("check", n, p) : p \in sampled}
  /\ UNCHANGED <<phase, confirmed, links, rstate, win, tree, online, incoming, adding, stream>>

\* gossip_tree_check of a packet of s, up to the wait for the parent link.
TreeCheck(n, s) ==
  LET m == Msg("check", s, n) IN
  /\ m \in net /\ (InOrder => rstate[n] # "SESSION_INIT")
  /\ \/ /\ Rejects(n, s)
        /\ net' = (net \ {m}) \cup {Msg("reject", n, s)}
        /\ UNCHANGED <<expected, active, waiting>>
     \/ /\ ~Rejects(n, s)
        /\ expected' = [expected EXCEPT ![n] = @ \cup {s}]
        /\ active' = [active EXCEPT ![n] = @ \cup {s}]
        /\ waiting' = [waiting EXCEPT ![n] = @ \cup {s}]
        /\ net' = (net \ {m}) \cup {Msg("upgrade", n, s)}
  /\ UNCHANGED <<phase, confirmed, links, rstate, win, tree, online, incoming, adding, stream>>

\* The parent link is there: the task that waited in the check of s goes on, which
\* marks the link to s, whether s became the parent or not.
ParentArrived(n, s) ==
  /\ s \in waiting[n] /\ fut[n] = "result"
  /\ waiting' = [waiting EXCEPT ![n] = @ \ {s}]
  /\ incoming' = [incoming EXCEPT ![n] = @ \cup {s}]
  /\ ForwardTreeCheck(n, s, incoming'[n], {})
  /\ rstate' = [rstate EXCEPT ![n] = "TREE_CHECK_DONE"]
  /\ UNCHANGED <<phase, confirmed, links, tree, expected, online, adding, stream>>

\* Mutant: a timeout discards the parent link that has come.
UpgradeTimeoutMutant(n, s) ==
  /\ Faulty /\ s \in waiting[n] /\ fut[n] # "cancelled"
  /\ fut' = [fut EXCEPT ![n] = "cancelled"] /\ waiting' = [waiting EXCEPT ![n] = {}]
  /\ ForwardTreeCheck(n, s, incoming[n], {})
  /\ rstate' = [rstate EXCEPT ![n] = "TREE_CHECK_DONE"]
  /\ UNCHANGED <<phase, confirmed, links, parent, expected, online, incoming, adding, stream>>

\* wait_for times out, which cancels the future it waited for: another task that
\* waits for it is cancelled with it, and this one finds the future done, leaves
\* the loop and goes on.  The timeout may also come just after the result.
UpgradeTimeout(n, s) ==
  /\ Faulty /\ s \in waiting[n] /\ fut[n] # "cancelled"
  /\ IF fut[n] = "pending"
       THEN fut' = [fut EXCEPT ![n] = "cancelled"] /\ waiting' = [waiting EXCEPT ![n] = {}]
       ELSE waiting' = [waiting EXCEPT ![n] = @ \ {s}] /\ UNCHANGED fut
  /\ ForwardTreeCheck(n, s, incoming[n], {})
  /\ rstate' = [rstate EXCEPT ![n] = "TREE_CHECK_DONE"]
  /\ UNCHANGED <<phase, confirmed, links, parent, expected, online, incoming, adding, stream>>

\* gossip_tree_reject
TreeReject(n, s) ==
  LET m == Msg("reject", s, n) IN
  /\ m \in net
  /\ IF Len(links[n]) <= win[n] \/ Cardinality(active[n]) >= Fan(n)
       THEN net' = net \ {m} /\ UNCHANGED <<win, active>>
       ELSE ForwardTreeCheck(n, s, incoming[n], {m})
  /\ UNCHANGED <<phase, confirmed, links, rstate, tree, expected, online, incoming, waiting, adding, stream>>

\* gossip_upgrade_connection: dial the relay that accepted our check.
UpgradeConnection(n, s) ==
  LET m == Msg("upgrade", s, n) IN
  /\ m \in net /\ net' = net \ {m}
  /\ stream' = IF s \in active[n] \ online[n]
                 THEN [stream EXCEPT ![n][s] = "dialing"] ELSE stream
  /\ UNCHANGED <<phase, confirmed, tree, own>>

\* create_connection_async raised.
DialFails(n, s) ==
  /\ Faulty /\ stream[n][s] = "dialing"
  /\ stream' = [stream EXCEPT ![n][s] = "failed"]
  /\ UNCHANGED <<phase, confirmed, tree, own, net>>

\* Mutant: a relay that has a parent accepts another one.
AddStreamLinkMutant(n, p) ==
  /\ stream[p][n] = "dialing" /\ p \in active[n] /\ p \in expected[n]
  /\ online' = [online EXCEPT ![n] = @ \cup {p}]
  /\ stream' = [stream EXCEPT ![p][n] = "ok"]
  /\ fut' = [fut EXCEPT ![n] = "result"] /\ parent' = [parent EXCEPT ![n] = p]
  /\ UNCHANGED <<phase, confirmed, links, rstate, win, expected, active, incoming, waiting, adding, net>>

\* gossip_add_stream_link: the connection p dialled reaches n.
AddStreamLink(n, p) ==
  /\ stream[p][n] = "dialing"
  /\ \/ /\ p \notin active[n] \/ Done(n)
        /\ stream' = [stream EXCEPT ![p][n] = "closed"]
        /\ UNCHANGED <<online, adding, tree>>
     \/ /\ p \in active[n] /\ ~Done(n) /\ p \in expected[n]
        /\ online' = [online EXCEPT ![n] = @ \cup {p}]
        /\ stream' = [stream EXCEPT ![p][n] = "ok"]
        /\ IF SendSuspends
             THEN adding' = [adding EXCEPT ![n] = @ \cup {p}] /\ UNCHANGED tree
             ELSE /\ fut' = [fut EXCEPT ![n] = "result"]
                  /\ parent' = [parent EXCEPT ![n] = p]
                  /\ UNCHANGED adding
  /\ UNCHANGED <<phase, confirmed, links, rstate, win, expected, active, incoming, waiting, net>>

\* The send of the answer returned; set_result raises if the future is done.
SetParent(n, p) ==
  /\ p \in adding[n] /\ adding' = [adding EXCEPT ![n] = @ \ {p}]
  /\ IF Done(n) THEN UNCHANGED tree
     ELSE fut' = [fut EXCEPT ![n] = "result"] /\ parent' = [parent EXCEPT ![n] = p]
  /\ UNCHANGED <<phase, confirmed, links, rstate, win, expected, active, online, incoming,
                 waiting, stream, net>>

\* Mutant: any answer will do.
ActivateLinkMutant(n, q) ==
  /\ stream[n][q] \in {"ok", "closed"}
  /\ stream' = [stream EXCEPT ![n][q] = "up"]
  /\ online' = [online EXCEPT ![n] = @ \cup {q}]
  /\ incoming' = [incoming EXCEPT ![n] = @ \ {q}]
  /\ UNCHANGED <<phase, confirmed, links, rstate, win, tree, expected, active, waiting, adding, net>>

\* The rest of _activate_link: the answer, or the close, arrives.
ActivateLink(n, q) ==
  /\ \/ /\ stream[n][q] = "ok"
        /\ stream' = [stream EXCEPT ![n][q] = "up"]
        /\ online' = [online EXCEPT ![n] = @ \cup {q}]
        /\ incoming' = [incoming EXCEPT ![n] = @ \ {q}]
     \/ /\ stream[n][q] = "closed"
        /\ stream' = [stream EXCEPT ![n][q] = "failed"]
        /\ UNCHANGED <<online, incoming>>
  /\ UNCHANGED <<phase, confirmed, links, rstate, win, tree, expected, active, waiting, adding, net>>

Lose(m) ==
  /\ Faulty /\ net' = net \ {m}
  /\ UNCHANGED <<phase, confirmed, tree, own, stream>>

\* Nothing is left to do.
Quiet ==
  /\ phase = "formed" /\ net = {}
  /\ \A n, q \in Relays : waiting[n] = {} /\ adding[n] = {}
                          /\ stream[n][q] \notin {"dialing", "ok", "closed"}

Confirmed == IF Faulty THEN SUBSET Others ELSE {Others}

Step(n, s) ==
  TreeCheck(n, s) \/ ParentArrived(n, s) \/ TreeReject(n, s) \/ UpgradeConnection(n, s)
  \/ AddStreamLink(n, s) \/ SetParent(n, s) \/ ActivateLink(n, s)

Progress ==
  \/ \E C \in Confirmed : InformPeers(C)
  \/ UpdateStates \/ TriggerSpanningFormation
  \/ \E n \in Others : UpdateState(n)
  \/ \E n, s \in Relays : Step(n, s)

Fault ==
  \/ \E n, s \in Relays : UpgradeTimeout(n, s) \/ DialFails(n, s)
  \/ \E m \in net : Lose(m)

Next == Progress \/ Fault \/ (Quiet /\ UNCHANGED vars)

Spec == Init /\ [][Next]_vars

\* Datagrams that are not lost arrive, and the event loop of every relay runs its
\* tasks.
FairSpec == Spec /\ WF_vars(Progress)

-----------------------------------------------------------------------------
(* Properties *)

TypeOK ==
  /\ phase \in {"inform", "states", "trigger", "formed"}
  /\ confirmed \subseteq Relays /\ links \in [Relays -> Seq(Relays)]
  /\ rstate \in [Relays -> {"SESSION_INIT", "LINKS_INITIALIZED", "TREE_CHECK_DONE"}]
  /\ win \in [Relays -> Int] /\ \A n \in Relays : win[n] <= Len(links[n])
  /\ fut \in [Relays -> {"pending", "cancelled", "result"}] /\ parent \in [Relays -> Relays]
  /\ expected \in [Relays -> SUBSET Relays] /\ active \in [Relays -> SUBSET Relays]
  /\ online \in [Relays -> SUBSET Relays] /\ incoming \in [Relays -> SUBSET Relays]
  /\ waiting \in [Relays -> SUBSET Relays] /\ adding \in [Relays -> SUBSET Relays]
  /\ stream \in [Relays -> [Relays -> {"none", "dialing", "ok", "closed", "up", "failed"}]]
  /\ net \subseteq Datagram

\* The relays p forwards data to: _get_forward_links, without the link p reads from.
Forward(p) == {q \in active[p] : q \in online[p] \ incoming[p] /\ q # parent[p]}

\* The relays whose answer GOSSIP_LINK_OK made them a child of p.
Accepted(p) == {q \in Relays : stream[p][q] \in {"ok", "up"}}

Members == {n \in Others : fut[n] = "result"}

\* A relay answers GOSSIP_LINK_OK to one peer at most ("a node in tree must have a
\* single parent"), however the checks of its neighbours interleave.
SingleParent ==
  \A n, p, q \in Relays : n \in Accepted(p) \cap Accepted(q) => p = q

\* Data never runs in a circle: every set of relays that have a parent holds one
\* whose parent is outside.  What decides it is that a relay passes a check on only
\* once its own place in the tree is settled.
Acyclic ==
  \A S \in SUBSET Members : S # {} => \E n \in S : parent[n] \notin S

\* A relay forwards data only to relays that read from it.
ForwardsToChildren ==
  \A p \in Relays : \A q \in Forward(p) : fut[q] = "result" /\ parent[q] = p

\* With no fault, every relay gets a parent whose chain ends at the center.
Spanning == <>(Members = Others)

\* What the protocol builds, without the messages: a forest that grows from its root.
status == [n \in Relays |-> [pending |-> "free", cancelled |-> "orphan",
                             result |-> "member"][fut[n]]]
F == INSTANCE Forest WITH Root <- Center

\* Every step of the protocol is a step of the abstract forest or leaves it alone.
GrowsForest == F!Spec
=============================================================================
