----------------------------- MODULE Discovery -----------------------------
(***************************************************************************)
(* How a peer enters the network: core/discover.py multicasts discovery    *)
(* requests and answers those of others, core/requests.py carries them,    *)
(* and core/_kademlia.py pings a peer that answered, crawls from it and    *)
(* checks in whoever calls.                                                *)
(*                                                                         *)
(* Datagrams may be lost and overtake each other; a remote call whose      *)
(* request or answer is lost times out.  Everything a node does between    *)
(* two awaits is one step, and a remote call that is answered in time is   *)
(* one step of both ends.                                                  *)
(***************************************************************************)
EXTENDS Naturals, FiniteSets

CONSTANTS
    Node,        \* the nodes
    Starts,      \* how the network may begin: who is in it, who joins
    Retries,     \* const.DISCOVER_RETRIES
    MaxLost,     \* bound: remote calls and datagrams lost
    MaxForeign   \* bound: discovery datagrams with a header that is not known

ASSUME StartsAssumption ==
    Starts \subseteq [settled : SUBSET Node, deaf : SUBSET Node, joining : SUBSET Node]
ASSUME BoundAssumption == Retries \in Nat \ {0} /\ MaxLost \in Nat /\ MaxForeign \in Nat

VARIABLES
    disc,      \* disc[n]: where n's discovery_initiate is
    passive,   \* passive[n]: n's enter_passive_mode task
    left,      \* left[n]: packets left in n's send_discovery_packet
    known,     \* known[n]: n's routing table, and with it Dock.peer_list
    net,       \* discovery datagrams under way
    calls,     \* remote calls under way
    lost,
    foreign

vars == <<disc, passive, left, known, net, calls, lost, foreign>>

(* "absent": never started; "down": no endpoint yet; "endpoint": takes     *)
(* remote calls, the discovery dispatcher is not registered; "dead": that  *)
(* dispatcher's task group has been aborted.                               *)
Phase == {"absent", "down", "endpoint", "burst", "wait", "asking", "awaiting", "dead"}

Datagram == [type : {"find", "reply"}, from : Node, to : Node]
Call == [op : {"ping", "crawl"}, from : Node, to : Node]

TypeOK ==
    /\ disc \in [Node -> Phase]
    /\ passive \in [Node -> {"none", "sleep", "burst"}]
    /\ left \in [Node -> 0..Retries]
    /\ known \in [Node -> SUBSET Node]
    /\ net \subseteq Datagram
    /\ calls \subseteq Call
    /\ lost \in 0..MaxLost
    /\ foreign \in 0..MaxForeign

(* Settled and deaf nodes found each other before; the deaf ones have lost *)
(* their discovery dispatcher since.  A node in neither and not joining is *)
(* not there.                                                              *)
Init ==
    /\ \E s \in Starts : LET in == s.settled \cup s.deaf IN
        /\ disc = [n \in Node |-> CASE n \in s.settled -> "awaiting"
                                    [] n \in s.deaf -> "dead"
                                    [] n \in s.joining -> "down"
                                    [] OTHER -> "absent"]
        /\ passive = [n \in Node |-> IF n \in s.settled THEN "sleep" ELSE "none"]
        /\ known = [n \in Node |-> IF n \in in THEN in \ {n} ELSE {}]
    /\ left = [n \in Node |-> 0]
    /\ net = {}
    /\ calls = {}
    /\ lost = 0
    /\ foreign = 0

Up(n) == disc[n] \notin {"absent", "down"}
IsBootstrapped(n) == known[n] # {}

(* DiscoveryDispatcher is registered and its task group takes tasks.       *)
Listening(n) == disc[n] \in {"burst", "wait", "asking", "awaiting"}

-----------------------------------------------------------------------------
(* requests.initiate up to the Kademlia handler's registration.            *)
OpenEndpoint(n) ==
    /\ disc[n] = "down"
    /\ disc' = [disc EXCEPT ![n] = "endpoint"]
    /\ UNCHANGED <<passive, left, known, net, calls, lost, foreign>>

(* The state manager starts discovery_initiate as a task.                  *)
DiscoveryInitiate(n) ==
    /\ disc[n] = "endpoint"
    /\ disc' = [disc EXCEPT ![n] = "burst"]
    /\ left' = [left EXCEPT ![n] = Retries]
    /\ UNCHANGED <<passive, known, net, calls, lost, foreign>>

(* transport.sendto the multicast group, which every endpoint joined when  *)
(* it was opened.  The group does not loop back to the sender.             *)
Multicast(n) == {[type |-> "find", from |-> n, to |-> m] : m \in {m \in Node \ {n} : Up(m)}}

(* async_timeouts has yielded max_retries times.                           *)
LastTurn(n) == left[n] = 1

(* One turn of send_discovery_packet: the request goes to every endpoint   *)
(* that is open; only then does it look whether the node is bootstrapped.  *)
SendDiscoveryPacket(n) ==
    /\ disc[n] = "burst" \/ passive[n] = "burst"
    /\ net' = net \cup Multicast(n)
    /\ LET over == LastTurn(n) \/ IsBootstrapped(n) IN
        /\ left' = [left EXCEPT ![n] = IF over THEN 0 ELSE @ - 1]
        /\ disc' = IF over /\ disc[n] = "burst"
                   THEN [disc EXCEPT ![n] = "wait"] ELSE disc
        /\ passive' = IF over /\ disc[n] # "burst"
                      THEN [passive EXCEPT ![n] = "sleep"] ELSE passive
    /\ UNCHANGED <<known, calls, lost, foreign>>

AskFirstMutant(n) ==
    /\ disc[n] = "wait"
    /\ disc' = [disc EXCEPT ![n] = IF IsBootstrapped(n) THEN "awaiting" ELSE "asking"]
    /\ passive' = IF IsBootstrapped(n) THEN [passive EXCEPT ![n] = "sleep"] ELSE passive
    /\ UNCHANGED <<left, known, net, calls, lost, foreign>>

(* send_discovery_requests after DISCOVER_TIMEOUT: the passive task is     *)
(* created; a node that is not bootstrapped asks the user for a peer, and  *)
(* waits for an answer that never comes (the question is not sent).        *)
EnterPassiveMode(n) ==
    /\ disc[n] = "wait"
    /\ disc' = [disc EXCEPT ![n] = IF IsBootstrapped(n) THEN "awaiting" ELSE "asking"]
    /\ passive' = [passive EXCEPT ![n] = "sleep"]
    /\ UNCHANGED <<left, known, net, calls, lost, foreign>>

(* enter_passive_mode wakes up and finds that the node is alone.           *)
PassiveBurst(n) ==
    /\ passive[n] = "sleep"
    /\ ~IsBootstrapped(n)
    /\ passive' = [passive EXCEPT ![n] = "burst"]
    /\ left' = [left EXCEPT ![n] = Retries]
    /\ UNCHANGED <<disc, known, net, calls, lost, foreign>>

(* DiscoveryRequestHandler: the requests address of this peer goes back.   *)
RequestArrives(d) ==
    /\ d.type = "find"
    /\ net' = (net \ {d}) \cup
              (IF Listening(d.to)
               THEN {[type |-> "reply", from |-> d.to, to |-> d.from]} ELSE {})
    /\ UNCHANGED <<disc, passive, left, known, calls, lost, foreign>>

(* DiscoveryReplyHandler: a task of the dispatcher's group bootstraps from *)
(* the address in the reply, with a ping.                                  *)
ReplyArrives(d) ==
    /\ d.type = "reply"
    /\ net' = net \ {d}
    /\ calls' = IF Listening(d.to)
                THEN calls \cup {[op |-> "ping", from |-> d.to, to |-> d.from]} ELSE calls
    /\ UNCHANGED <<disc, passive, left, known, lost, foreign>>

(* A datagram whose header the registry does not have: the KeyError ends   *)
(* the dispatcher's task group, its tasks, and the task that entered it.   *)
(* That takes the passive task along if it is what the task awaits.        *)
ForeignHeader(n) ==
    /\ Listening(n)
    /\ foreign < MaxForeign
    /\ foreign' = foreign + 1
    /\ disc' = [disc EXCEPT ![n] = "dead"]
    /\ passive' = IF disc[n] = "awaiting" THEN [passive EXCEPT ![n] = "none"] ELSE passive
    /\ calls' = {c \in calls : c.from # n}
    /\ UNCHANGED <<left, known, net, lost>>

-----------------------------------------------------------------------------
(* bootstrap: a peer that answered the ping is where the crawl for this    *)
(* node's own neighbours begins.  rpc_ping checked the caller in.          *)
PingAnswered(c) ==
    /\ c.op = "ping"
    /\ known' = [known EXCEPT ![c.to] = @ \cup {c.from}]
    /\ calls' = (calls \ {c}) \cup {[c EXCEPT !.op = "crawl"]}
    /\ UNCHANGED <<disc, passive, left, net, lost, foreign>>

(* rpc_find_node answers with the neighbours other than the caller.        *)
NoExcludeMutant(c) == known[c.to] \cup {c.from}
FindNeighbors(c) == known[c.to] \ {c.from}

NoWelcomeMutant(c) ==
    /\ c.op = "crawl"
    /\ known' = [known EXCEPT ![c.to] = @ \cup {c.from}]
    /\ calls' = calls \ {c}
    /\ UNCHANGED <<disc, passive, left, net, lost, foreign>>

(* A call of a crawl is answered: the callee checks the caller in, the     *)
(* caller welcomes the callee and asks the neighbours it named that this   *)
(* crawl has not asked.                                                    *)
CallAnswered(c) ==
    /\ c.op = "crawl"
    /\ known' = [known EXCEPT ![c.from] = @ \cup {c.to}, ![c.to] = @ \cup {c.from}]
    /\ calls' = (calls \ {c}) \cup
                {[c EXCEPT !.to = m] : m \in FindNeighbors(c) \ known[c.from]}
    /\ UNCHANGED <<disc, passive, left, net, lost, foreign>>

(* The request is lost, or the callee handles it and its answer is lost:   *)
(* the caller's wait times out and, except for the ping of bootstrap_node, *)
(* it drops the contact.                                                   *)
CallTimesOut(c) ==
    /\ lost < MaxLost
    /\ lost' = lost + 1
    /\ calls' = calls \ {c}
    /\ LET dropped == IF c.op = "ping" THEN known
                      ELSE [known EXCEPT ![c.from] = @ \ {c.to}]
       IN \/ known' = dropped
          \/ known' = [dropped EXCEPT ![c.to] = @ \cup {c.from}]
    /\ UNCHANGED <<disc, passive, left, net, foreign>>

(* Any later call of n to a peer it knows (refresh_table, a search, a      *)
(* store in a peer list): both are welcome to each other again, or the     *)
(* call times out.                                                         *)
LaterCall(n, m) ==
    /\ m \in known[n]
    /\ \/ /\ known' = [known EXCEPT ![m] = @ \cup {n}]
          /\ UNCHANGED lost
       \/ /\ lost < MaxLost
          /\ lost' = lost + 1
          /\ known' = [known EXCEPT ![n] = @ \ {m}]
    /\ UNCHANGED <<disc, passive, left, net, calls, foreign>>

DatagramLost(d) ==
    /\ lost < MaxLost
    /\ lost' = lost + 1
    /\ net' = net \ {d}
    /\ UNCHANGED <<disc, passive, left, known, calls, foreign>>

-----------------------------------------------------------------------------
Next ==
    \/ \E n \in Node :
        \/ OpenEndpoint(n) \/ DiscoveryInitiate(n) \/ SendDiscoveryPacket(n)
        \/ EnterPassiveMode(n) \/ PassiveBurst(n) \/ ForeignHeader(n)
        \/ \E m \in Node : LaterCall(n, m)
    \/ \E d \in net : RequestArrives(d) \/ ReplyArrives(d) \/ DatagramLost(d)
    \/ \E c \in calls : PingAnswered(c) \/ CallAnswered(c) \/ CallTimesOut(c)

(* A node that is started gets through its start, the event loop runs      *)
(* every task that is ready, and a datagram that is not lost arrives.      *)
Fairness ==
    /\ \A n \in Node :
        /\ WF_vars(OpenEndpoint(n)) /\ WF_vars(DiscoveryInitiate(n))
        /\ WF_vars(SendDiscoveryPacket(n))
        /\ WF_vars(EnterPassiveMode(n)) /\ WF_vars(PassiveBurst(n))
    /\ \A d \in Datagram : WF_vars(d \in net /\ (RequestArrives(d) \/ ReplyArrives(d)))
    /\ \A c \in Call : WF_vars(c \in calls /\ (PingAnswered(c) \/ CallAnswered(c)))

Spec == Init /\ [][Next]_vars /\ Fairness

-----------------------------------------------------------------------------
(* A node never enters itself in its routing table, though others know it  *)
(* and name their neighbours to it.                                        *)
NoSelf == \A n \in Node : n \notin known[n]

(* As long as nothing is lost, whoever knows a peer is known to it, or a   *)
(* call of that peer that will make it so is under way.                    *)
Acquainted ==
    lost = 0 /\ foreign = 0 =>
        \A n \in Node : \A p \in known[n] :
            n \in known[p] \/ \E c \in calls : c.from = p /\ c.to = n

Alone(n) == \A m \in Node \ {n} : disc[m] \in {"absent", "dead"}

(* discover.py, "stay in passive mode and keep sending discovery requests":*)
(* a node that is up comes to know another, whatever the order in which    *)
(* they start and whatever is lost on the way, unless a header it does not *)
(* know ends its discovery or that of all others.                          *)
Bootstraps ==
    \A n \in Node : Up(n) /\ ~IsBootstrapped(n) ~>
                        IsBootstrapped(n) \/ disc[n] = "dead" \/ Alone(n)
=============================================================================
