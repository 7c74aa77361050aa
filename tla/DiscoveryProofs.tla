-------------------------- MODULE DiscoveryProofs --------------------------
(***************************************************************************)
(* Proofs about Discovery, for any set of nodes, any way the network may   *)
(* begin and any number of losses.                                         *)
(***************************************************************************)
EXTENDS Discovery, TLAPS

(* What NoSelf and Acquainted rest on: routing tables hold nodes, and no   *)
(* datagram and no remote call goes from a node to itself.                 *)
TablesInv == known \in [Node -> SUBSET Node]
NetInv == net \subseteq {d \in Datagram : d.from # d.to}
CallsInv == calls \subseteq {c \in Call : c.from # c.to}
CountsInv == lost \in Nat /\ foreign \in Nat

IInv == TablesInv /\ NetInv /\ CallsInv /\ CountsInv /\ NoSelf /\ Acquainted

(* The network begins with tables that name the others that are in it.     *)
LEMMA InitIInv == Init => IInv
  <1> SUFFICES ASSUME Init PROVE IInv
    OBVIOUS
  <1>1. PICK s \in Starts :
            known = [n \in Node |-> IF n \in s.settled \cup s.deaf
                                    THEN (s.settled \cup s.deaf) \ {n} ELSE {}]
    BY DEF Init
  <1>2. s.settled \cup s.deaf \subseteq Node
    BY StartsAssumption
  <1>3. TablesInv /\ NoSelf
    BY <1>1, <1>2 DEF TablesInv, NoSelf
  <1>4. NetInv /\ CallsInv /\ CountsInv
    BY DEF Init, NetInv, CallsInv, CountsInv
  <1>5. Acquainted
    <2> SUFFICES ASSUME NEW n \in Node, NEW p \in known[n] PROVE n \in known[p]
      BY DEF Acquainted
    <2> QED
      BY <1>1, <1>2
  <1> QED
    BY <1>3, <1>4, <1>5 DEF IInv

(* Steps of the discovery tasks: they send datagrams to others and leave   *)
(* the tables alone.                                                       *)
LEMMA DiscoverySteps ==
    ASSUME IInv, NEW n \in Node,
           \/ OpenEndpoint(n) \/ DiscoveryInitiate(n) \/ SendDiscoveryPacket(n)
           \/ EnterPassiveMode(n) \/ PassiveBurst(n)
    PROVE  IInv'
  <1>1. UNCHANGED <<known, calls, lost, foreign>>
    BY DEF OpenEndpoint, DiscoveryInitiate, SendDiscoveryPacket,
           EnterPassiveMode, PassiveBurst
  <1>2. net' = net \/ net' = net \cup Multicast(n)
    BY DEF OpenEndpoint, DiscoveryInitiate, SendDiscoveryPacket,
           EnterPassiveMode, PassiveBurst
  <1>3. Multicast(n) \subseteq {d \in Datagram : d.from # d.to}
    BY DEF Multicast, Datagram
  <1>4. NetInv'
    BY <1>2, <1>3 DEF IInv, NetInv
  <1> QED
    BY <1>1, <1>4 DEF IInv, TablesInv, CallsInv, CountsInv, NoSelf, Acquainted

(* Datagrams: an answer goes back to the one that asked, a call goes to    *)
(* the one that answered.                                                  *)
LEMMA DatagramSteps ==
    ASSUME IInv, NEW d \in net,
           RequestArrives(d) \/ ReplyArrives(d) \/ DatagramLost(d)
    PROVE  IInv'
  <1>1. d \in Datagram /\ d.from # d.to
    BY DEF IInv, NetInv
  <1>2. CASE RequestArrives(d)
    <2>1. [type |-> "reply", from |-> d.to, to |-> d.from]
              \in {x \in Datagram : x.from # x.to}
      BY <1>1 DEF Datagram
    <2>2. NetInv'
      BY <1>2, <2>1 DEF IInv, NetInv, RequestArrives
    <2> QED
      BY <1>2, <2>2 DEF RequestArrives, IInv, TablesInv, CallsInv, CountsInv,
                        NoSelf, Acquainted
  <1>3. CASE ReplyArrives(d)
    <2>1. [op |-> "ping", from |-> d.to, to |-> d.from]
              \in {c \in Call : c.from # c.to}
      BY <1>1 DEF Datagram, Call
    <2>2. CallsInv' /\ calls \subseteq calls'
      BY <1>3, <2>1 DEF IInv, CallsInv, ReplyArrives
    <2>3. NetInv'
      BY <1>3 DEF IInv, NetInv, ReplyArrives
    <2>4. TablesInv' /\ CountsInv' /\ NoSelf'
      BY <1>3 DEF ReplyArrives, IInv, TablesInv, CountsInv, NoSelf
    <2>5. Acquainted'
      BY <1>3, <2>2 DEF ReplyArrives, IInv, Acquainted
    <2> QED
      BY <2>2, <2>3, <2>4, <2>5 DEF IInv
  <1>4. CASE DatagramLost(d)
    <2>1. NetInv'
      BY <1>4 DEF IInv, NetInv, DatagramLost
    <2>2. lost' # 0 /\ CountsInv'
      BY <1>4 DEF DatagramLost, IInv, CountsInv
    <2>3. Acquainted'
      BY <2>2 DEF Acquainted
    <2> QED
      BY <1>4, <2>1, <2>2, <2>3 DEF DatagramLost, IInv, TablesInv, CallsInv, NoSelf
  <1> QED
    BY <1>2, <1>3, <1>4

(* A ping that is answered makes its caller known and turns into the call  *)
(* that makes the callee known.                                            *)
LEMMA PingStep ==
    ASSUME IInv, NEW c \in calls, PingAnswered(c)
    PROVE  IInv'
  <1> DEFINE k == [c EXCEPT !.op = "crawl"]
  <1>1. c \in Call /\ c.from # c.to
    BY DEF IInv, CallsInv
  <1>2. k \in Call /\ k.from = c.from /\ k.to = c.to
    BY <1>1 DEF Call
  <1>3. calls' = (calls \ {c}) \cup {k}
    BY DEF PingAnswered
  <1>4. CallsInv'
    BY <1>1, <1>2, <1>3 DEF IInv, CallsInv
  <1>5. known' = [known EXCEPT ![c.to] = @ \cup {c.from}] /\ c.to \in Node /\ c.from \in Node
    BY <1>1 DEF PingAnswered, Call
  <1>6. TablesInv' /\ NoSelf'
    BY <1>1, <1>5 DEF IInv, TablesInv, NoSelf
  <1>7. Acquainted'
    <2> SUFFICES ASSUME lost = 0, foreign = 0, NEW n \in Node, NEW p \in known'[n]
                 PROVE  n \in known'[p] \/ \E x \in calls' : x.from = p /\ x.to = n
      BY DEF Acquainted, PingAnswered
    <2>1. CASE n = c.to /\ p = c.from
      BY <2>1, <1>2, <1>3
    <2>2. CASE ~(n = c.to /\ p = c.from)
      <3>1. p \in known[n] /\ p \in Node
        BY <2>2, <1>5 DEF IInv, TablesInv
      <3>2. n \in known[p] \/ \E x \in calls : x.from = p /\ x.to = n
        BY <3>1 DEF IInv, Acquainted
      <3>3. CASE n \in known[p]
        BY <3>1, <3>3, <1>5 DEF IInv, TablesInv
      <3>4. CASE \E x \in calls : x.from = p /\ x.to = n
        BY <3>4, <1>2, <1>3
      <3> QED
        BY <3>2, <3>3, <3>4
    <2> QED
      BY <2>1, <2>2
  <1> QED
    BY <1>4, <1>6, <1>7 DEF PingAnswered, IInv, NetInv, CountsInv

(* A call of a crawl that is answered makes both known to each other; the  *)
(* calls that follow go to neighbours the callee named, never to the       *)
(* caller.                                                                 *)
LEMMA CrawlStep ==
    ASSUME IInv, NEW c \in calls, CallAnswered(c)
    PROVE  IInv'
  <1> DEFINE more == {[c EXCEPT !.to = m] : m \in FindNeighbors(c) \ known[c.from]}
  <1>1. c \in Call /\ c.from # c.to /\ c.from \in Node /\ c.to \in Node
    BY DEF IInv, CallsInv, Call
  <1>2. known' = [known EXCEPT ![c.from] = @ \cup {c.to}, ![c.to] = @ \cup {c.from}]
    BY DEF CallAnswered
  <1>3. calls' = (calls \ {c}) \cup more
    BY DEF CallAnswered
  <1>4. more \subseteq {x \in Call : x.from # x.to}
    <2> SUFFICES ASSUME NEW m \in FindNeighbors(c)
                 PROVE  /\ [c EXCEPT !.to = m] \in Call
                        /\ [c EXCEPT !.to = m].from # [c EXCEPT !.to = m].to
      OBVIOUS
    <2>1. m \in Node /\ m # c.from
      BY <1>1 DEF FindNeighbors, IInv, TablesInv
    <2> QED
      BY <1>1, <2>1 DEF Call
  <1>5. CallsInv'
    BY <1>3, <1>4 DEF IInv, CallsInv
  <1>6. TablesInv' /\ NoSelf'
    BY <1>1, <1>2 DEF IInv, TablesInv, NoSelf
  <1>7. Acquainted'
    <2> SUFFICES ASSUME lost = 0, foreign = 0, NEW n \in Node, NEW p \in known'[n]
                 PROVE  n \in known'[p] \/ \E x \in calls' : x.from = p /\ x.to = n
      BY DEF Acquainted, CallAnswered
    <2>1. CASE p \notin known[n]
      <3>1. (n = c.to /\ p = c.from) \/ (n = c.from /\ p = c.to)
        BY <2>1, <1>1, <1>2 DEF IInv, TablesInv
      <3> QED
        BY <3>1, <1>1, <1>2 DEF IInv, TablesInv
    <2>2. CASE p \in known[n]
      <3>1. p \in Node
        BY <2>2 DEF IInv, TablesInv
      <3>2. n \in known[p] \/ \E x \in calls : x.from = p /\ x.to = n
        BY <2>2 DEF IInv, Acquainted
      <3>3. CASE n \in known[p]
        BY <3>1, <3>3, <1>1, <1>2 DEF IInv, TablesInv
      <3>4. CASE \E x \in calls : x.from = p /\ x.to = n
        <4>1. PICK x \in calls : x.from = p /\ x.to = n
          BY <3>4
        <4>2. CASE x = c
          BY <4>1, <4>2, <1>1, <1>2 DEF IInv, TablesInv
        <4>3. CASE x # c
          BY <4>1, <4>3, <1>3
        <4> QED
          BY <4>2, <4>3
      <3> QED
        BY <3>2, <3>3, <3>4
    <2> QED
      BY <2>1, <2>2
  <1> QED
    BY <1>5, <1>6, <1>7 DEF CallAnswered, IInv, NetInv, CountsInv

(* Failures: a contact is dropped, a call or a task group ends; the tables *)
(* need not agree any longer.                                              *)
LEMMA TimeoutStep ==
    ASSUME IInv, NEW c \in calls, CallTimesOut(c)
    PROVE  IInv'
  <1> DEFINE dropped == IF c.op = "ping" THEN known
                        ELSE [known EXCEPT ![c.from] = @ \ {c.to}]
  <1>1. c.from # c.to /\ c.from \in Node /\ c.to \in Node
    BY DEF IInv, CallsInv, Call
  <1>2. /\ dropped \in [Node -> SUBSET Node]
        /\ \A n \in Node : dropped[n] \subseteq known[n]
    BY <1>1 DEF IInv, TablesInv
  <1>3. known' = dropped \/ known' = [dropped EXCEPT ![c.to] = @ \cup {c.from}]
    BY DEF CallTimesOut
  <1> HIDE DEF dropped
  <1>4. TablesInv' /\ NoSelf'
    BY <1>1, <1>2, <1>3 DEF IInv, TablesInv, NoSelf
  <1>5. lost' # 0 /\ CountsInv'
    BY DEF CallTimesOut, IInv, CountsInv
  <1>6. CallsInv' /\ NetInv'
    BY DEF CallTimesOut, IInv, CallsInv, NetInv
  <1>7. Acquainted'
    BY <1>5 DEF Acquainted
  <1> QED
    BY <1>4, <1>5, <1>6, <1>7 DEF IInv

LEMMA ForeignStep ==
    ASSUME IInv, NEW n \in Node, ForeignHeader(n)
    PROVE  IInv'
  <1>1. foreign' # 0 /\ CountsInv'
    BY DEF ForeignHeader, IInv, CountsInv
  <1>2. Acquainted'
    BY <1>1 DEF Acquainted
  <1> QED
    BY <1>1, <1>2 DEF ForeignHeader, IInv, TablesInv, NetInv, CallsInv, NoSelf

LEMMA LaterStep ==
    ASSUME IInv, NEW n \in Node, NEW m \in Node, LaterCall(n, m)
    PROVE  IInv'
  <1>1. m \in known[n] /\ m # n
    BY DEF LaterCall, IInv, NoSelf
  <1>2. NetInv' /\ CallsInv'
    BY DEF LaterCall, IInv, NetInv, CallsInv
  <1>3. CASE known' = [known EXCEPT ![m] = @ \cup {n}] /\ lost' = lost
    <2>1. TablesInv' /\ NoSelf'
      BY <1>1, <1>3 DEF IInv, TablesInv, NoSelf
    <2>2. Acquainted'
      <3> SUFFICES ASSUME lost = 0, foreign = 0, NEW q \in Node, NEW p \in known'[q]
                   PROVE  q \in known'[p] \/ \E x \in calls : x.from = p /\ x.to = q
        BY <1>3 DEF Acquainted, LaterCall
      <3>1. CASE q = m /\ p = n
        BY <3>1, <1>1, <1>3 DEF IInv, TablesInv
      <3>2. CASE ~(q = m /\ p = n)
        <4>1. p \in known[q] /\ p \in Node
          BY <3>2, <1>3 DEF IInv, TablesInv
        <4>2. q \in known[p] \/ \E x \in calls : x.from = p /\ x.to = q
          BY <4>1 DEF IInv, Acquainted
        <4> QED
          BY <4>1, <4>2, <1>3 DEF IInv, TablesInv
      <3> QED
        BY <3>1, <3>2
    <2> QED
      BY <1>2, <1>3, <2>1, <2>2 DEF LaterCall, IInv, CountsInv
  <1>4. CASE known' = [known EXCEPT ![n] = @ \ {m}] /\ lost' = lost + 1
    <2>1. TablesInv' /\ NoSelf'
      BY <1>4 DEF IInv, TablesInv, NoSelf
    <2>2. lost' # 0 /\ CountsInv'
      BY <1>4 DEF LaterCall, IInv, CountsInv
    <2>3. Acquainted'
      BY <2>2 DEF Acquainted
    <2> QED
      BY <1>2, <2>1, <2>2, <2>3 DEF IInv
  <1> QED
    BY <1>3, <1>4 DEF LaterCall

LEMMA NextIInv == IInv /\ [Next]_vars => IInv'
  <1> SUFFICES ASSUME IInv, [Next]_vars PROVE IInv'
    OBVIOUS
  <1>1. CASE UNCHANGED vars
    BY <1>1 DEF vars, IInv, TablesInv, NetInv, CallsInv, CountsInv, NoSelf, Acquainted
  <1>2. ASSUME NEW n \in Node,
               \/ OpenEndpoint(n) \/ DiscoveryInitiate(n) \/ SendDiscoveryPacket(n)
               \/ EnterPassiveMode(n) \/ PassiveBurst(n) \/ ForeignHeader(n)
               \/ \E m \in Node : LaterCall(n, m)
        PROVE  IInv'
    BY <1>2, DiscoverySteps, ForeignStep, LaterStep
  <1>3. ASSUME NEW d \in net, RequestArrives(d) \/ ReplyArrives(d) \/ DatagramLost(d)
        PROVE  IInv'
    BY <1>3, DatagramSteps
  <1>4. ASSUME NEW c \in calls, PingAnswered(c) \/ CallAnswered(c) \/ CallTimesOut(c)
        PROVE  IInv'
    BY <1>4, PingStep, CrawlStep, TimeoutStep
  <1> QED
    BY <1>1, <1>2, <1>3, <1>4 DEF Next

LEMMA AlwaysIInv == Spec => []IInv
  BY InitIInv, NextIInv, PTL DEF Spec

(* No node enters itself in its routing table: discover.py answers others  *)
(* only and rpc_find_node leaves the caller out of what it names.          *)
THEOREM NeverSelf == Spec => []NoSelf
  <1>1. IInv => NoSelf
    BY DEF IInv
  <1> QED
    BY AlwaysIInv, <1>1, PTL

(* While nothing is lost and no dispatcher dies, acquaintance is mutual or *)
(* about to be: bootstrap's ping and the calls of its crawl check the      *)
(* caller in before the callee is welcomed.                                *)
THEOREM MutualAcquaintance == Spec => []Acquainted
  <1>1. IInv => Acquainted
    BY DEF IInv
  <1> QED
    BY AlwaysIInv, <1>1, PTL
=============================================================================
