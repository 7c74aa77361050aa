---------------------------- MODULE GossipProofs ----------------------------
(***************************************************************************)
(* Proofs about Gossip, for any peers, any peer lists, any number of       *)
(* searches and whatever fields a message is required to have.             *)
(***************************************************************************)
EXTENDS Gossip, SequenceTheorems, TLAPS

(* What a search may hand out: relevant peers that its origin asked.       *)
Results(s) == {p \in Relevant[s] : \E n \in origin[s] : p \in sent[n][s]}

(* A datagram is accounted for: a request was sent to its receiver, and a  *)
(* reply comes from a relevant peer that its receiver had asked.           *)
Accounted(d) ==
    /\ d.type = "request" => d.to \in sent[d.from][d.id]
    /\ d.type = "reply" => d.from \in Relevant[d.id] /\ d.from \in sent[d.to][d.id]

TypesInv ==
    /\ origin \in [Search -> SUBSET Node]
    /\ sent \in [Node -> [Search -> SUBSET Node]]
    /\ net \subseteq Request \cup Reply
    /\ iter \in [Search -> {"none", "waits", "busy", "stopped"}]
    /\ queue \in [Search -> Seq(Node)]
    /\ yielded \in [Search -> Seq(Node)]

NetInv == \A d \in net : Accounted(d)
QueueInv == \A s \in Search : \A i \in 1..Len(queue[s]) : queue[s][i] \in Results(s)
YieldInv == \A s \in Search : \A i \in 1..Len(yielded[s]) : yielded[s][i] \in Results(s)
StartInv == \A s \in Search : iter[s] = "none" => origin[s] = {}

IInv == TypesInv /\ NetInv /\ QueueInv /\ YieldInv /\ StartInv

(* Peers are only ever added to those a message was sent to and, for a     *)
(* search not started yet, to its origin.                                  *)
Grows ==
    /\ sent' \in [Node -> [Search -> SUBSET Node]]
    /\ \A n \in Node, s \in Search : sent[n][s] \subseteq sent'[n][s]
    /\ \A s \in Search : origin[s] \subseteq origin'[s]

LEMMA InitIInv == Init => IInv
  <1> SUFFICES ASSUME Init PROVE IInv
    OBVIOUS
  <1>1. TypesInv
    BY DEF Init, TypesInv
  <1>2. NetInv /\ QueueInv /\ YieldInv /\ StartInv
    BY DEF Init, NetInv, QueueInv, YieldInv, StartInv
  <1> QED
    BY <1>1, <1>2 DEF IInv

LEMMA ResultsStay ==
    ASSUME TypesInv, Grows, NEW s \in Search
    PROVE  Results(s) \subseteq Results(s)'
  BY DEF Results, Grows, TypesInv

LEMMA AccountsStay ==
    ASSUME Grows, NEW d \in Request \cup Reply, Accounted(d)
    PROVE  Accounted(d)'
  <1>1. CASE d \in Request
    BY <1>1 DEF Accounted, Grows, Request
  <1>2. CASE d \in Reply
    BY <1>2 DEF Accounted, Grows, Reply
  <1> QED
    BY <1>1, <1>2

(* _gossip_forward sends to a sample of the peers and remembers them.      *)
LEMMA ForwardGrows ==
    ASSUME TypesInv, NEW n \in Node, NEW s \in Search,
           NEW rest \in SUBSET (Request \cup Reply), \A d \in rest : Accounted(d),
           Forward(n, s, rest), \A t \in Search : origin[t] \subseteq origin'[t]
    PROVE  Grows /\ net' \subseteq Request \cup Reply /\ NetInv'
  <1>1. PICK r \in Samples(n, s) :
            /\ sent' = [sent EXCEPT ![n][s] = @ \cup r]
            /\ net' = rest \cup {[type |-> "request", id |-> s, from |-> n, to |-> m] : m \in r}
    BY DEF Forward
  <1>2. r \subseteq Node
    BY PeerListAssumption DEF Samples
  <1>3. Grows
    BY <1>1, <1>2 DEF Grows, TypesInv
  <1>4. \A m \in r : m \in sent'[n][s]
    BY <1>1 DEF TypesInv
  <1>5. net' \subseteq Request \cup Reply
    BY <1>1, <1>2 DEF Request
  <1>6. NetInv'
    <2> SUFFICES ASSUME NEW d \in net' PROVE Accounted(d)'
      BY DEF NetInv
    <2>1. CASE d \in rest
      BY <2>1, <1>3, AccountsStay
    <2>2. CASE d \notin rest
      <3>1. PICK m \in r : d = [type |-> "request", id |-> s, from |-> n, to |-> m]
        BY <2>2, <1>1
      <3> QED
        BY <3>1, <1>4 DEF Accounted
    <2> QED
      BY <2>1, <2>2
  <1> QED
    BY <1>3, <1>5, <1>6

(* message_arrived forwards or drops, whatever fields_check asks for.      *)
LEMMA ArrivalGrows ==
    ASSUME TypesInv, NEW n \in Node, NEW s \in Search,
           NEW rest \in SUBSET (Request \cup Reply), \A d \in rest : Accounted(d),
           MessageArrived(n, s, rest), origin' = origin
    PROVE  Grows /\ net' \subseteq Request \cup Reply /\ NetInv'
  <1>1. CASE Forward(n, s, rest)
    BY <1>1, ForwardGrows
  <1>2. CASE net' = rest /\ UNCHANGED sent
    <2>1. Grows
      BY <1>2 DEF Grows, TypesInv
    <2>2. NetInv'
      BY <1>2, <2>1, AccountsStay DEF NetInv
    <2> QED
      BY <1>2, <2>1, <2>2
  <1> QED
    BY <1>1, <1>2 DEF MessageArrived

(* A step that only adds to what was sent leaves the results as they are.  *)
LEMMA ResultsKept ==
    ASSUME IInv, Grows, UNCHANGED <<queue, yielded>>
    PROVE  QueueInv' /\ YieldInv'
  BY ResultsStay DEF IInv, QueueInv, YieldInv

LEMMA SearchForStep ==
    ASSUME IInv, NEW n \in Node, NEW s \in Search, SearchFor(n, s)
    PROVE  IInv'
  <1>1. origin[s] = {}
    BY DEF SearchFor, IInv, StartInv
  <1>2. /\ origin' \in [Search -> SUBSET Node]
        /\ \A t \in Search : origin[t] \subseteq origin'[t]
    BY <1>1 DEF SearchFor, IInv, TypesInv
  <1>3. Grows /\ net' \subseteq Request \cup Reply /\ NetInv'
    <2>1. Forward(n, s, net) /\ net \in SUBSET (Request \cup Reply) /\ TypesInv
      BY DEF SearchFor, IInv, TypesInv
    <2>2. \A d \in net : Accounted(d)
      BY DEF IInv, NetInv
    <2> QED
      BY <2>1, <2>2, <1>2, ForwardGrows
  <1>4. UNCHANGED <<queue, yielded>>
    BY DEF SearchFor
  <1>5. QueueInv' /\ YieldInv'
    BY <1>3, <1>4, ResultsKept
  <1>6. TypesInv'
    BY <1>2, <1>3, <1>4 DEF SearchFor, IInv, TypesInv, Grows
  <1>7. StartInv'
    BY DEF SearchFor, IInv, TypesInv, StartInv
  <1> QED
    BY <1>3, <1>5, <1>6, <1>7 DEF IInv

(* GossipSearchReqHandler answers whoever sent the request, who has the    *)
(* answering peer among those it asked.                                    *)
LEMMA RequestStep ==
    ASSUME IInv, NEW d \in net, RequestArrives(d)
    PROVE  IInv'
  <1> DEFINE reply == [type |-> "reply", id |-> d.id, from |-> d.to, to |-> d.from]
             rest == (net \ {d}) \cup (IF d.to \in Relevant[d.id] THEN {reply} ELSE {})
  <1>1. d \in Request
    BY DEF RequestArrives, IInv, TypesInv, Request, Reply
  <1>2. rest \in SUBSET (Request \cup Reply)
    BY <1>1 DEF IInv, TypesInv, Request, Reply
  <1>3. \A x \in rest : Accounted(x)
    <2>1. d.to \in Relevant[d.id] => Accounted(reply)
      BY <1>1 DEF IInv, NetInv, Accounted, Request
    <2> QED
      BY <2>1 DEF IInv, NetInv
  <1>4. MessageArrived(d.to, d.id, rest) \/ (net' = rest /\ UNCHANGED sent)
    BY DEF RequestArrives
  <1>5. UNCHANGED <<origin, iter, queue, yielded>>
    BY DEF RequestArrives
  <1>6. d.to \in Node /\ d.id \in Search
    BY <1>1 DEF Request
  <1> HIDE DEF rest
  <1>7. Grows /\ net' \subseteq Request \cup Reply /\ NetInv'
    <2>1. CASE MessageArrived(d.to, d.id, rest)
      BY <2>1, <1>2, <1>3, <1>5, <1>6, ArrivalGrows DEF IInv
    <2>2. CASE net' = rest /\ UNCHANGED sent
      <3>1. Grows
        BY <2>2, <1>5 DEF Grows, IInv, TypesInv
      <3> QED
        BY <2>2, <3>1, <1>2, <1>3, AccountsStay DEF NetInv
    <2> QED
      BY <2>1, <2>2, <1>4
  <1>8. QueueInv' /\ YieldInv'
    BY <1>5, <1>7, ResultsKept
  <1>9. TypesInv' /\ StartInv'
    BY <1>5, <1>7 DEF IInv, TypesInv, StartInv, Grows
  <1> QED
    BY <1>7, <1>8, <1>9 DEF IInv

(* A peer put at the end of a search's queue is a result of that search.   *)
LEMMA Enqueued ==
    ASSUME IInv, Grows, NEW s \in Search, NEW p \in Node, p \in Results(s)',
           queue' = [queue EXCEPT ![s] = Append(@, p)]
    PROVE  queue' \in [Search -> Seq(Node)] /\ QueueInv'
  <1>1. queue \in [Search -> Seq(Node)]
    BY DEF IInv, TypesInv
  <1>2. queue' \in [Search -> Seq(Node)]
    BY <1>1, AppendProperties
  <1>3. QueueInv'
    <2> SUFFICES ASSUME NEW t \in Search, NEW i \in 1..Len(queue'[t])
                 PROVE  queue'[t][i] \in Results(t)'
      BY DEF QueueInv
    <2>1. CASE t = s /\ i = Len(queue[s]) + 1
      BY <2>1, <1>1
    <2>2. CASE ~(t = s /\ i = Len(queue[s]) + 1)
      <3>1. i \in 1..Len(queue[t]) /\ queue'[t][i] = queue[t][i]
        BY <2>2, <1>1
      <3>2. queue[t][i] \in Results(t)
        BY <3>1 DEF IInv, QueueInv
      <3> QED
        BY <3>1, <3>2, ResultsStay DEF IInv
    <2> QED
      BY <2>1, <2>2
  <1> QED
    BY <1>2, <1>3

(* reply_arrived: the reply comes from a relevant peer its receiver asked; *)
(* it counts only if the receiver is where the search began.               *)
LEMMA ReplyIsResult ==
    ASSUME IInv, NEW d \in net, d.type = "reply", d.to \in origin[d.id]
    PROVE  d.from \in Results(d.id)
  BY DEF IInv, NetInv, Accounted, Results

LEMMA ReplyStep ==
    ASSUME IInv, NEW d \in net, ReplyArrives(d)
    PROVE  IInv'
  <1>1. d.type = "reply" /\ d.id \in Search /\ d.to \in Node /\ d.from \in Node
    BY DEF ReplyArrives, IInv, TypesInv, Request, Reply
  <1>2. MessageArrived(d.to, d.id, net \ {d}) /\ UNCHANGED <<origin, iter, yielded>>
    BY DEF ReplyArrives
  <1>3. Grows /\ net' \subseteq Request \cup Reply /\ NetInv'
    <2>1. net \ {d} \in SUBSET (Request \cup Reply) /\ TypesInv
      BY DEF IInv, TypesInv
    <2>2. \A x \in net \ {d} : Accounted(x)
      BY DEF IInv, NetInv
    <2> QED
      BY <1>1, <1>2, <2>1, <2>2, ArrivalGrows
  <1>4. queue' \in [Search -> Seq(Node)] /\ QueueInv'
    <2>1. CASE d.to \in origin[d.id]
      <3>1. d.from \in Results(d.id)'
        BY <1>1, <1>3, <2>1, ReplyIsResult, ResultsStay DEF IInv
      <3> QED
        BY <1>1, <1>3, <2>1, <3>1, Enqueued DEF ReplyArrives
    <2>2. CASE d.to \notin origin[d.id]
      <3>1. queue' = queue
        BY <2>2 DEF ReplyArrives
      <3> QED
        BY <1>2, <1>3, <3>1, ResultsKept DEF IInv, TypesInv
    <2> QED
      BY <2>1, <2>2
  <1>5. YieldInv'
    BY <1>2, <1>3, ResultsStay DEF IInv, YieldInv
  <1> QED
    BY <1>2, <1>3, <1>4, <1>5 DEF IInv, TypesInv, StartInv, Grows

LEMMA DuplicateStep ==
    ASSUME IInv, NEW d \in net, Duplicate(d)
    PROVE  IInv'
  <1>1. d.type = "reply" /\ d.id \in Search /\ d.from \in Node /\ d.to \in origin[d.id]
    BY DEF Duplicate, IInv, TypesInv, Request, Reply
  <1>2. UNCHANGED <<origin, sent, net, iter, yielded>>
    BY DEF Duplicate
  <1>3. Grows
    BY <1>2 DEF Grows, IInv, TypesInv
  <1>4. d.from \in Results(d.id)'
    BY <1>1, <1>3, ReplyIsResult, ResultsStay DEF IInv
  <1>5. queue' \in [Search -> Seq(Node)] /\ QueueInv'
    BY <1>1, <1>3, <1>4, Enqueued DEF Duplicate
  <1>6. NetInv' /\ YieldInv'
    BY <1>2, <1>3, ResultsStay DEF IInv, NetInv, YieldInv, Accounted
  <1> QED
    BY <1>2, <1>5, <1>6 DEF IInv, TypesInv, StartInv

LEMMA LoseStep ==
    ASSUME IInv, NEW d \in net, Lose(d)
    PROVE  IInv'
  <1>1. Grows /\ UNCHANGED <<origin, sent, iter, queue, yielded>> /\ net' \subseteq net
    BY DEF Lose, Grows, IInv, TypesInv
  <1>2. QueueInv' /\ YieldInv'
    BY <1>1, ResultsKept
  <1>3. NetInv'
    BY <1>1 DEF IInv, NetInv, Accounted
  <1> QED
    BY <1>1, <1>2, <1>3 DEF IInv, TypesInv, StartInv

(* __anext__ hands out the oldest reply in the queue.                      *)
LEMMA ANextStep ==
    ASSUME IInv, NEW s \in Search, ANext(s)
    PROVE  IInv'
  <1>1. UNCHANGED <<origin, sent, net>> /\ queue[s] # <<>>
    BY DEF ANext
  <1>2. queue[s] \in Seq(Node) /\ yielded[s] \in Seq(Node)
    BY DEF IInv, TypesInv
  <1>3. Head(queue[s]) \in Results(s) /\ Head(queue[s]) \in Node
    BY <1>1, <1>2 DEF IInv, QueueInv
  <1>4. \A t \in Search : Results(t)' = Results(t)
    BY <1>1 DEF Results
  <1>5. queue' \in [Search -> Seq(Node)] /\ yielded' \in [Search -> Seq(Node)]
    BY <1>1, <1>2, <1>3, AppendProperties DEF ANext, IInv, TypesInv
  <1>6. QueueInv'
    <2> SUFFICES ASSUME NEW t \in Search, NEW i \in 1..Len(queue'[t])
                 PROVE  queue'[t][i] \in Results(t)
      BY <1>4 DEF QueueInv
    <2>1. CASE t = s
      <3>1. i + 1 \in 1..Len(queue[s]) /\ queue'[t][i] = queue[s][i + 1]
        BY <2>1, <1>1, <1>2 DEF ANext, IInv, TypesInv
      <3> QED
        BY <2>1, <3>1 DEF IInv, QueueInv
    <2>2. CASE t # s
      BY <2>2 DEF ANext, IInv, TypesInv, QueueInv
    <2> QED
      BY <2>1, <2>2
  <1>7. YieldInv'
    <2> SUFFICES ASSUME NEW t \in Search, NEW i \in 1..Len(yielded'[t])
                 PROVE  yielded'[t][i] \in Results(t)
      BY <1>4 DEF YieldInv
    <2>1. CASE t = s /\ i = Len(yielded[s]) + 1
      BY <2>1, <1>2, <1>3 DEF ANext, IInv, TypesInv
    <2>2. CASE ~(t = s /\ i = Len(yielded[s]) + 1)
      <3>1. i \in 1..Len(yielded[t]) /\ yielded'[t][i] = yielded[t][i]
        BY <2>2, <1>2 DEF ANext, IInv, TypesInv
      <3> QED
        BY <3>1 DEF IInv, YieldInv
    <2> QED
      BY <2>1, <2>2
  <1>8. NetInv' /\ StartInv'
    BY <1>1 DEF ANext, IInv, TypesInv, NetInv, Accounted, StartInv
  <1> QED
    BY <1>1, <1>5, <1>6, <1>7, <1>8 DEF ANext, IInv, TypesInv

LEMMA ClockSteps ==
    ASSUME IInv, NEW s \in Search, Stop(s) \/ Resume(s) \/ Tick(s)
    PROVE  IInv'
  <1>1. UNCHANGED <<origin, sent, net, queue, yielded>>
    BY DEF Stop, Resume, Tick
  <1>2. /\ iter' \in [Search -> {"none", "waits", "busy", "stopped"}]
        /\ \A t \in Search : iter'[t] = "none" => iter[t] = "none"
    BY DEF Stop, Resume, Tick, IInv, TypesInv
  <1> QED
    BY <1>1, <1>2 DEF IInv, TypesInv, NetInv, Accounted, QueueInv, YieldInv, Results, StartInv

LEMMA NextIInv == IInv /\ [Next]_vars => IInv'
  <1> SUFFICES ASSUME IInv, [Next]_vars PROVE IInv'
    OBVIOUS
  <1>1. CASE UNCHANGED vars
    BY <1>1 DEF vars, IInv, TypesInv, NetInv, Accounted, QueueInv, YieldInv, Results, StartInv
  <1>2. ASSUME NEW s \in Search,
               \/ \E n \in Node : SearchFor(n, s)
               \/ ANext(s) \/ Stop(s) \/ Resume(s) \/ Tick(s)
        PROVE  IInv'
    BY <1>2, SearchForStep, ANextStep, ClockSteps
  <1>3. ASSUME NEW d \in net,
               RequestArrives(d) \/ ReplyArrives(d) \/ Duplicate(d) \/ Lose(d)
        PROVE  IInv'
    BY <1>3, RequestStep, ReplyStep, DuplicateStep, LoseStep
  <1> QED
    BY <1>1, <1>2, <1>3 DEF Next

(* gossip_search yields only peers that match its own string and that it   *)
(* asked, for any number of searches at once and any order, loss and       *)
(* repetition of requests and replies, forwarded or not.                   *)
THEOREM OwnResults == Spec => []ResultsMatch
  <1>1. IInv => ResultsMatch
    BY DEF IInv, YieldInv, Results, ResultsMatch
  <1> QED
    BY InitIInv, NextIInv, <1>1, PTL DEF Spec
=============================================================================
