------------------------------ MODULE PeerLists ------------------------------
(***************************************************************************)
(* The lists of peers that core/_kademlia.py keeps in the network.  Every  *)
(* list has a key among the node ids; a peer enters itself in the list     *)
(* whose key is closest to its own id, by storing its entry with the nodes *)
(* that are closest to that key, and does so again from time to time.  A   *)
(* node that meets a new one hands it the lists the new one should keep.   *)
(*                                                                         *)
(* The tables are those of the kademlia library, without the limits of     *)
(* their buckets.  A call is one step: it is answered, or the request or   *)
(* the answer is lost, or the callee is down.  The calls of one round of a *)
(* crawl are made in any order, and more of them than the code makes.      *)
(***************************************************************************)
EXTENDS Naturals, FiniteSets

CONSTANTS
    Node, List,     \* the peers, and the keys of the lists (node_list_ids)
    Distance,       \* Distance[n][l]: the XOR of the two ids
    ksize,          \* PeerServer.ksize
    MaxTurns,       \* bound: nodes that crawl or store at one time
    MaxFaults       \* bound: calls that are lost, and nodes that go down

ASSUME DistanceAssumption ==
    /\ Distance \in [Node -> [List -> Nat]]
    /\ \A n, m \in Node, l \in List : Distance[n][l] = Distance[m][l] => n = m
    /\ \A n \in Node : \A k, l \in List : Distance[n][k] = Distance[n][l] => k = l
ASSUME BoundAssumption == ksize \in Nat \ {0} /\ MaxTurns \in Nat \ {0} /\ MaxFaults \in Nat

VARIABLES
    up,       \* the nodes that run
    knows,    \* knows[n]: the contacts in n's routing table
    store,    \* store[n][l]: Storage.peer_data_storage of n
    task,     \* task[n]: where add_this_peer_to_lists is, with the crawl's heap
    calls,    \* calls of store_peers_in_list that are under way
    faults    \* calls lost and nodes gone down so far

vars == <<up, knows, store, task, calls, faults>>

Idle == [at |-> "sleep", heap |-> {}, asked |-> {}]
Task == [at : {"sleep", "crawl", "gather"}, heap : SUBSET Node, asked : SUBSET Node]
Calls == [by : {"add", "hand"}, from : Node, to : Node, list : List, peer : Node]
Call(b, n, m, l, e) == [by |-> b, from |-> n, to |-> m, list |-> l, peer |-> e]

TypeOK ==
    /\ up \subseteq Node
    /\ knows \in [Node -> SUBSET Node]
    /\ store \in [Node -> [List -> SUBSET Node]]
    /\ task \in [Node -> Task]
    /\ calls \subseteq Calls
    /\ faults \in 0..MaxFaults

Init ==
    /\ up = {}
    /\ knows = [n \in Node |-> {}]
    /\ store = [n \in Node |-> [l \in List |-> {}]]
    /\ task = [n \in Node |-> Idle]
    /\ calls = {}
    /\ faults = 0

-----------------------------------------------------------------------------
(* _get_closest_list_id *)
ListOf == [n \in Node |-> CHOOSE l \in List : \A k \in List : Distance[n][l] <= Distance[n][k]]

(* The ksize nodes of S that are closest to the key l. *)
Nearest(S, l) ==
    {m \in S : Cardinality({k \in S : Distance[k][l] < Distance[m][l]}) < ksize}

(* RoutingTable.find_neighbors *)
FindNeighbors(n, l, exclude) == Nearest(knows[n] \ exclude, l)

(* _send_peer_lists: the entries that n hands to a node p that is new to   *)
(* it.  A list goes to p if p belongs to the nodes closest to its key and  *)
(* n is closer than all the others, or if n knows nobody else.             *)
SendPeerLists(n, p) ==
    LET goes(l) ==
            LET neighbors == FindNeighbors(n, l, {}) IN
            \/ neighbors = {}
            \/ /\ \E m \in neighbors : Distance[p][l] < Distance[m][l]
               /\ \A m \in neighbors : Distance[n][l] < Distance[m][l]
    IN UNION {{Call("hand", n, p, l, e) : e \in store[n][l]} : l \in {l \in List : goes(l)}}

(* welcome_if_new *)
Welcome(n, p) == IF p \in knows[n] THEN {} ELSE SendPeerLists(n, p)

(* The outcomes of a call from n to m.  The callee checks the caller in;   *)
(* the caller welcomes a callee that answers, and forgets one that does    *)
(* not (handle_call_response).                                             *)
Answered(n, m, done) ==
    /\ m \in up
    /\ knows' = [knows EXCEPT ![n] = @ \cup {m}, ![m] = @ \cup {n}]
    /\ calls' = (calls \ done) \cup Welcome(m, n) \cup Welcome(n, m)
    /\ UNCHANGED faults

AnswerLost(n, m, done) ==
    /\ m \in up /\ faults < MaxFaults
    /\ knows' = [knows EXCEPT ![n] = @ \ {m}, ![m] = @ \cup {n}]
    /\ calls' = (calls \ done) \cup Welcome(m, n)
    /\ faults' = faults + 1

NotReached(n, m, done) ==
    /\ m \in up => faults < MaxFaults
    /\ knows' = [knows EXCEPT ![n] = @ \ {m}]
    /\ calls' = calls \ done
    /\ faults' = IF m \in up THEN faults + 1 ELSE faults

-----------------------------------------------------------------------------
(* add_this_peer_to_lists wakes and calls store_nodes_in_list, which       *)
(* returns at once if the node knows nobody.  Whether a turn is one of the *)
(* first, which end when one reports success, or a later one only decides  *)
(* how long the task sleeps.                                               *)
StoreNodesInList(n) ==
    /\ n \in up /\ task[n] = Idle
    /\ Cardinality({k \in Node : task[k] # Idle}) < MaxTurns
    /\ knows[n] # {}
    /\ task' = [task EXCEPT ![n] = [at |-> "crawl", asked |-> {},
                                    heap |-> FindNeighbors(n, ListOf[n], {})]]
    /\ UNCHANGED <<up, knows, store, calls, faults>>

(* One call_find_node of the crawl.  A node that did not answer may come   *)
(* back into the heap by another's answer, and is not asked again.         *)
FindNode(n, m) ==
    /\ n \in up /\ task[n].at = "crawl"
    /\ m \in task[n].heap \ task[n].asked
    /\ \/ /\ Answered(n, m, {})
          /\ task' = [task EXCEPT ![n].asked = @ \cup {m},
                                  ![n].heap = @ \cup FindNeighbors(m, ListOf[n], {n})]
       \/ /\ AnswerLost(n, m, {}) \/ NotReached(n, m, {})
          /\ task' = [task EXCEPT ![n].asked = @ \cup {m}, ![n].heap = @ \ {m}]
    /\ UNCHANGED <<up, store>>

KeepsNothingMutant(n) ==
    LET l == ListOf[n]
        relevant == Nearest(task[n].heap, l) IN
    /\ n \in up /\ task[n].at = "crawl"
    /\ relevant \subseteq task[n].asked
    /\ task' = [task EXCEPT ![n] = [Idle EXCEPT !.at = "gather"]]
    /\ calls' = calls \cup {Call("add", n, m, l, n) : m \in relevant}
    /\ UNCHANGED <<up, knows, store, faults>>

(* The crawl has asked all of the nodes it found closest: the entry is     *)
(* stored with them, and here if this node is closer than one of them.     *)
StoreEntry(n) ==
    LET l == ListOf[n]
        relevant == Nearest(task[n].heap, l) IN
    /\ n \in up /\ task[n].at = "crawl"
    /\ relevant \subseteq task[n].asked
    /\ task' = [task EXCEPT ![n] = [Idle EXCEPT !.at = "gather"]]
    /\ store' = IF \E m \in relevant : Distance[n][l] < Distance[m][l]
                THEN [store EXCEPT ![n][l] = @ \cup {n}] ELSE store
    /\ calls' = calls \cup {Call("add", n, m, l, n) : m \in relevant}
    /\ UNCHANGED <<up, knows, faults>>

(* call_store_peers_in_list and rpc_store_peers_in_list: the callee checks *)
(* the caller in before it stores the entry.                               *)
StorePeersInList(c) ==
    /\ c \in calls
    /\ \/ /\ Answered(c.from, c.to, {c}) \/ AnswerLost(c.from, c.to, {c})
          /\ store' = [store EXCEPT ![c.to][c.list] = @ \cup {c.peer}]
       \/ NotReached(c.from, c.to, {c}) /\ UNCHANGED store
    /\ UNCHANGED <<up, task>>

(* The gather is over and the task sleeps, whatever the calls returned.    *)
Sleep(n) ==
    /\ n \in up /\ task[n].at = "gather"
    /\ \A c \in calls : ~(c.by = "add" /\ c.from = n)
    /\ task' = [task EXCEPT ![n] = Idle]
    /\ UNCHANGED <<up, knows, store, calls, faults>>

(* Discovery (module Discovery) gives a node that knows nobody a contact.  *)
Bootstrap(n, m) ==
    /\ n \in up /\ m \in up \ {n} /\ knows[n] = {}
    /\ Answered(n, m, {})
    /\ UNCHANGED <<up, store, task>>

(* A node starts, or goes down with all it had in memory. *)
Start(n) ==
    /\ n \notin up
    /\ up' = up \cup {n}
    /\ UNCHANGED <<knows, store, task, calls, faults>>

Crash(n) ==
    /\ n \in up /\ faults < MaxFaults
    /\ faults' = faults + 1
    /\ up' = up \ {n}
    /\ knows' = [knows EXCEPT ![n] = {}]
    /\ store' = [store EXCEPT ![n] = [l \in List |-> {}]]
    /\ task' = [task EXCEPT ![n] = Idle]
    /\ calls' = {c \in calls : c.from # n}

(* The task of add_this_peer_to_lists once it is awake. *)
Running(n) == (\E m \in Node : FindNode(n, m)) \/ StoreEntry(n) \/ Sleep(n)

Next ==
    \/ \E n \in Node : StoreNodesInList(n) \/ Running(n) \/ Start(n) \/ Crash(n)
    \/ \E n, m \in Node : Bootstrap(n, m)
    \/ \E c \in calls : StorePeersInList(c)

(* The loop runs the tasks of every node that is up, and each wakes again  *)
(* though the bound makes it wait for the others (SF); calls are answered  *)
(* or time out, and discovery finds a node (Discovery!Bootstraps).         *)
(* Nothing is assumed of starts, crashes and losses.                       *)
Spec ==
    /\ Init /\ [][Next]_vars
    /\ \A n \in Node :
        /\ SF_vars(StoreNodesInList(n)) /\ WF_vars(Running(n))
        /\ WF_vars(\E c \in calls : c.from = n /\ StorePeersInList(c))
        /\ WF_vars(\E m \in Node : Bootstrap(n, m))

-----------------------------------------------------------------------------
(* PeerServer.add_this_peer_to_lists: whatever nodes went down or came     *)
(* back and whatever calls were lost, in the end every node that is up is  *)
(* listed at the node that is closest to the key of its list.              *)
Listed ==
    <>[](\A n \in up : Cardinality(up) > 1 =>
            \A m \in up : (\A k \in up : Distance[m][ListOf[n]] <= Distance[k][ListOf[n]])
                => n \in store[m][ListOf[n]])
==============================================================================
