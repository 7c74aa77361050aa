------------------------------- MODULE Gossip -------------------------------
(***************************************************************************)
(* Search by gossip: GossipSearch of core/peers.py starts a search and     *)
(* hands its results out through an iterator with a deadline,              *)
(* transfers/rumor.py sends the search to a sample of the peers, and the   *)
(* handlers of core/gossip.py pass requests and replies on.                *)
(*                                                                         *)
(* A search is its message id.  Datagrams are lost, overtake each other    *)
(* and come twice.  Time is counted per search, from the moment its        *)
(* iterator is entered, in units of which Timeout is the deadline.         *)
(***************************************************************************)
EXTENDS Naturals, Sequences, FiniteSets

CONSTANTS
    Node,        \* the peers
    Search,      \* the ids of the searches that are started
    PeerList,    \* PeerList[n]: Dock.peer_list of n
    Relevant,    \* Relevant[s]: the peers whose name has what s looks for
    Alpha,       \* RumorMongerProtocol.alpha
    Timeout,     \* search_iterator.timeout
    MaxReplies   \* bound: replies to one search that are delivered

ASSUME PeerListAssumption == PeerList \in [Node -> SUBSET Node]
ASSUME RelevantAssumption == Relevant \in [Search -> SUBSET Node]
ASSUME NumberAssumption == {Alpha, Timeout, MaxReplies} \subseteq Nat \ {0}

VARIABLES
    origin,    \* origin[s]: the peer that started s, {} before
    list,      \* list[n]: the ids in the message list of n
    sent,      \* sent[n][s]: the peers n sent s to, the peer_list of its item
    net,       \* datagrams under way
    iter,      \* iter[s]: the iterator of s
    queue,     \* queue[s]: its reply_queue
    elapsed,   \* elapsed[s]: time since it was entered
    yielded,   \* yielded[s]: what the caller got, in order
    replies    \* replies[s]: how many were delivered, for the bound

vars == <<origin, list, sent, net, iter, queue, elapsed, yielded, replies>>

Request == [type : {"request"}, id : Search, from : Node, to : Node]
Reply == [type : {"reply"}, id : Search, from : Node, to : Node]

TypeOK ==
    /\ origin \in [Search -> SUBSET Node]
    /\ list \in [Node -> SUBSET Search]
    /\ sent \in [Node -> [Search -> SUBSET Node]]
    /\ net \subseteq Request \cup Reply
    /\ iter \in [Search -> {"none", "waits", "busy", "stopped"}]
    /\ queue \in [Search -> Seq(Node)]
    /\ elapsed \in [Search -> 0..Timeout + 1]
    /\ yielded \in [Search -> Seq(Node)]
    /\ replies \in [Search -> 0..MaxReplies]

Init ==
    /\ origin = [s \in Search |-> {}]
    /\ list = [n \in Node |-> {}]
    /\ sent = [n \in Node |-> [s \in Search |-> {}]]
    /\ net = {}
    /\ iter = [s \in Search |-> "none"]
    /\ queue = [s \in Search |-> <<>>]
    /\ elapsed = [s \in Search |-> 0]
    /\ yielded = [s \in Search |-> <<>>]
    /\ replies = [s \in Search |-> 0]

-----------------------------------------------------------------------------
(* sample_peers: reservoir sampling of the peers s was not sent to yet.    *)
Samples(n, s) ==
    LET fresh == PeerList[n] \ sent[n][s]
    IN {r \in SUBSET fresh : Cardinality(r) = IF Cardinality(fresh) < Alpha
                                              THEN Cardinality(fresh) ELSE Alpha}

(* gossip_message and _gossip_forward: s goes into the message list of n   *)
(* if it is not there, and to a sample of the peers.                       *)
Forward(n, s, rest) ==
    \E r \in Samples(n, s) :
        /\ list' = [list EXCEPT ![n] = @ \cup {s}]
        /\ sent' = [sent EXCEPT ![n][s] = @ \cup r]
        /\ net' = rest \cup {[type |-> "request", id |-> s, from |-> n, to |-> m] : m \in r}

(* search_for: the message is gossiped, then the iterator is registered,   *)
(* with no await between them; gossip_search enters it at once.            *)
SearchFor(n, s) ==
    /\ iter[s] = "none"
    /\ origin' = [origin EXCEPT ![s] = {n}]
    /\ iter' = [iter EXCEPT ![s] = "waits"]
    /\ Forward(n, s, net)
    /\ UNCHANGED <<queue, elapsed, yielded, replies>>

(* GossipMessage.fields_check looks for these keys in WireData.dict, which *)
(* has the id under another one; a search is made without a ttl.           *)
MessageKeys == {"header", "msg_id", "version", "peer_id", "message", "created"}
FieldsCheck == {"id", "header", "created", "ttl"} \subseteq MessageKeys

(* message_arrived: a message with all its fields is passed on if          *)
(* should_rumor says so, which it decides by age and by chance.            *)
MessageArrived(n, s, rest) ==
    \E rumor \in BOOLEAN :
        IF FieldsCheck /\ rumor THEN Forward(n, s, rest)
                                ELSE net' = rest /\ UNCHANGED <<list, sent>>

(* GossipSearchReqHandler: a search that is new goes to message_arrived;   *)
(* a relevant peer answers whoever sent it, each time it comes.            *)
RequestArrives(d) ==
    /\ d.type = "request"
    /\ LET n == d.to
           answered == (net \ {d}) \cup
               (IF n \in Relevant[d.id]
                THEN {[type |-> "reply", id |-> d.id, from |-> n, to |-> d.from]} ELSE {})
       IN IF d.id \notin list[n]
          THEN MessageArrived(n, d.id, answered)
          ELSE net' = answered /\ UNCHANGED <<list, sent>>
    /\ UNCHANGED <<origin, iter, queue, elapsed, yielded, replies>>

LatestMutant(d) ==
    /\ d.type = "reply"
    /\ replies[d.id] < MaxReplies
    /\ replies' = [replies EXCEPT ![d.id] = @ + 1]
    /\ MessageArrived(d.to, d.id, net \ {d})
    /\ \E s \in Search :
        /\ d.to \in origin[s]
        /\ queue' = [queue EXCEPT ![s] = Append(@, d.from)]
    /\ UNCHANGED <<origin, iter, elapsed, yielded>>

(* reply_arrived: the iterator of the search takes the peer, in time or    *)
(* not; without one the reply is dropped.                                  *)
ReplyArrives(d) ==
    /\ d.type = "reply"
    /\ replies[d.id] < MaxReplies
    /\ replies' = [replies EXCEPT ![d.id] = @ + 1]
    /\ MessageArrived(d.to, d.id, net \ {d})
    /\ queue' = IF d.to \in origin[d.id]
                THEN [queue EXCEPT ![d.id] = Append(@, d.from)] ELSE queue
    /\ UNCHANGED <<origin, iter, elapsed, yielded>>

(* A reply comes once more and stays under way; so would the reply to a    *)
(* request that comes twice.                                               *)
Duplicate(d) ==
    /\ d.type = "reply" /\ replies[d.id] < MaxReplies
    /\ d.to \in origin[d.id]
    /\ replies' = [replies EXCEPT ![d.id] = @ + 1]
    /\ queue' = [queue EXCEPT ![d.id] = Append(@, d.from)]
    /\ UNCHANGED <<origin, list, sent, net, iter, elapsed, yielded>>

Lose(d) ==
    /\ net' = net \ {d}
    /\ UNCHANGED <<origin, list, sent, iter, queue, elapsed, yielded, replies>>

-----------------------------------------------------------------------------
(* __anext__ takes the next reply, unless the deadline has passed.          *)
ANext(s) ==
    /\ iter[s] = "waits"
    /\ elapsed[s] <= Timeout
    /\ queue[s] # <<>>
    /\ yielded' = [yielded EXCEPT ![s] = Append(@, Head(queue[s]))]
    /\ queue' = [queue EXCEPT ![s] = Tail(@)]
    /\ iter' = [iter EXCEPT ![s] = "busy"]
    /\ UNCHANGED <<origin, list, sent, net, elapsed, replies>>

StopMutant(s) ==
    /\ iter[s] = "waits"
    /\ elapsed[s] > Timeout
    /\ iter' = [iter EXCEPT ![s] = "stopped"]
    /\ UNCHANGED <<origin, list, sent, net, queue, elapsed, yielded, replies>>

(* StopAsyncIteration: the deadline has passed, or passes with nothing in  *)
(* the queue.                                                              *)
Stop(s) ==
    /\ iter[s] = "waits"
    /\ elapsed[s] > Timeout \/ (elapsed[s] = Timeout /\ queue[s] = <<>>)
    /\ iter' = [iter EXCEPT ![s] = "stopped"]
    /\ UNCHANGED <<origin, list, sent, net, queue, elapsed, yielded, replies>>

(* The caller is done with a result and asks for the next.                 *)
Resume(s) ==
    /\ iter[s] = "busy"
    /\ iter' = [iter EXCEPT ![s] = "waits"]
    /\ UNCHANGED <<origin, list, sent, net, queue, elapsed, yielded, replies>>

(* Time passes; a task that can run does so before more of it passes.      *)
Tick(s) ==
    /\ iter[s] \in {"waits", "busy"}
    /\ elapsed[s] <= Timeout
    /\ iter[s] = "waits" => queue[s] = <<>> /\ elapsed[s] < Timeout
    /\ elapsed' = [elapsed EXCEPT ![s] = @ + 1]
    /\ UNCHANGED <<origin, list, sent, net, iter, queue, yielded, replies>>

Next ==
    \/ \E s \in Search :
        \/ \E n \in Node : SearchFor(n, s)
        \/ ANext(s) \/ Stop(s) \/ Resume(s) \/ Tick(s)
    \/ \E d \in net : RequestArrives(d) \/ ReplyArrives(d) \/ Duplicate(d) \/ Lose(d)

(* The clock runs, the event loop runs what is ready, and the caller comes *)
(* back for the next result.  Nothing is assumed of the network.           *)
Spec == Init /\ [][Next]_vars
        /\ \A s \in Search : WF_vars(ANext(s) \/ Stop(s)) /\ WF_vars(Resume(s)) /\ WF_vars(Tick(s))
-----------------------------------------------------------------------------
(* peers.gossip_search: what a search yields are peers its own string is   *)
(* relevant for, that were asked for it, though searches run at the same   *)
(* time and replies to one come late, twice and among those to another.    *)
ResultsMatch ==
    \A s \in Search : \A i \in 1..Len(yielded[s]) :
        /\ yielded[s][i] \in Relevant[s]
        /\ \E n \in origin[s] : yielded[s][i] \in sent[n][s]

(* search_iterator: a search that was started stops, if nobody answers,    *)
(* and if a reply is there whenever the caller comes back.                 *)
SearchEnds == \A s \in Search : iter[s] = "waits" ~> iter[s] = "stopped"
=============================================================================
