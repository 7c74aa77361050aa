------------------------- MODULE ConnectivityProofs -------------------------
(***************************************************************************)
(* Proofs about module Connectivity, for any number of peers, objects and  *)
(* removals and any timeouts that satisfy TimesAssumption: the types, that *)
(* a peer is marked offline only on evidence gathered after the removal    *)
(* was asked, that a removal makes one check at most, that the page shows  *)
(* what the list of peers holds, and that no wake-up is lost.              *)
(***************************************************************************)
EXTENDS Connectivity, FiniteSetTheorems, TLAPS

-----------------------------------------------------------------------------
(* The inductive invariant *)

\* A check that fails has waited for the reply first, so its failure is at least
\* PING_TIMEOUT younger than its request.
CheckOK(c) ==
    /\ checks[c].state # "none" => checks[c].peer \in Peers /\ checks[c].stamp <= now
    /\ checks[c].state = "req_check" => checks[c].deadline >= checks[c].stamp + PING_TIMEOUT
    /\ checks[c].state = "con_check" => now >= checks[c].stamp + PING_TIMEOUT
    /\ checks[c].state = "completed" /\ ~checks[c].succeeded =>
         /\ checks[c].failedAt >= checks[c].stamp + PING_TIMEOUT
         /\ checks[c].failedAt <= now
CheckInv == \A c \in CheckIds : CheckOK(c)

\* last_checked names checks of that peer that were started.
LastInv ==
  \A p \in Peers : lastChecked[p] # NoCheck =>
    /\ checks[lastChecked[p]].state # "none"
    /\ checks[lastChecked[p]].peer = p

\* A removal has made no check before its caller runs, and it awaits a check of
\* its peer that was asked for at most a window earlier.
RemovalOK(r) ==
    /\ removals[r].state = "idle" => checks[<<r, "remove_peer">>].state = "none"
    /\ removals[r].state \in {"idle", "spawned"} =>
         checks[<<r, "check_and_remove_if_needed">>].state = "none"
    /\ removals[r].state = "spawned" => removals[r].obj \in Objects /\ removals[r].asked <= now
    /\ removals[r].state = "waiting" =>
         /\ removals[r].obj \in Objects /\ removals[r].fut \in CheckIds
         /\ checks[removals[r].fut].state # "none"
         /\ checks[removals[r].fut].peer = PeerOf(removals[r].obj)
         /\ removals[r].asked <= checks[removals[r].fut].stamp + PING_TIME_CHECK_WINDOW
RemovalInv == \A r \in Removals : RemovalOK(r)

\* The callback that wakes the removals of a check comes after its end.
EndedIds == {c \in CheckIds : checks[c].state \in Ended}
Wakes(q, E) == \A i \in 1..Len(q) : q[i][1] = "wake" => q[i][2] \in E
WakeInv == Wakes(ready, EndedIds)

IInv == TypeOK /\ CheckInv /\ LastInv /\ RemovalInv /\ WakeInv

-----------------------------------------------------------------------------
(* The queue of callbacks *)

\* Appending a callback to the queue.
LEMMA QueueAppend ==
  ASSUME NEW q \in Seq(Callbacks), NEW x \in Callbacks, NEW E, Wakes(q, E),
         x[1] = "wake" => x[2] \in E
  PROVE  Append(q, x) \in Seq(Callbacks) /\ Wakes(Append(q, x), E)
<1>1. Append(q, x) \in Seq(Callbacks) /\ Len(Append(q, x)) = Len(q) + 1
  OBVIOUS
<1>2. \A i \in 1..Len(q) : Append(q, x)[i] = q[i]
  OBVIOUS
<1>3. Append(q, x)[Len(q) + 1] = x
  OBVIOUS
<1>4. Len(q) \in Nat
  OBVIOUS
<1> QED  BY <1>1, <1>2, <1>3, <1>4 DEF Wakes

\* Taking the first callback from the queue.
LEMMA QueueTail ==
  ASSUME NEW q \in Seq(Callbacks), q # <<>>, NEW E, Wakes(q, E)
  PROVE  /\ Tail(q) \in Seq(Callbacks) /\ Wakes(Tail(q), E)
         /\ Head(q) \in Callbacks
         /\ Head(q)[1] = "wake" => Head(q)[2] \in E
<1>1. /\ Tail(q) \in Seq(Callbacks) /\ Len(Tail(q)) = Len(q) - 1
      /\ \A i \in 1..Len(Tail(q)) : Tail(q)[i] = q[i + 1]
  OBVIOUS
<1>2. Len(q) \in Nat \ {0} /\ Head(q) = q[1] /\ q[1] \in Callbacks
  OBVIOUS
<1> QED  BY <1>1, <1>2 DEF Wakes

\* Appending callbacks that are not the end of a check.
LEMMA QueueConcat ==
  ASSUME NEW q \in Seq(Callbacks), NEW t \in Seq(Callbacks), NEW E, Wakes(q, E),
         \A i \in 1..Len(t) : t[i][1] # "wake"
  PROVE  q \o t \in Seq(Callbacks) /\ Wakes(q \o t, E)
<1>1. q \o t \in Seq(Callbacks) /\ Len(q \o t) = Len(q) + Len(t)
  OBVIOUS
<1>2. Len(q) \in Nat /\ Len(t) \in Nat
  OBVIOUS
<1>3. ASSUME NEW i \in 1..Len(q \o t), (q \o t)[i][1] = "wake"
      PROVE  (q \o t)[i][2] \in E
  <2>1. CASE i <= Len(q)
    <3>1. (q \o t)[i] = q[i] /\ i \in 1..Len(q)
      BY <1>1, <1>2, <2>1
    <3> QED  BY <1>3, <3>1 DEF Wakes
  <2>2. CASE i > Len(q)
    <3>1. (q \o t)[i] = t[i - Len(q)] /\ i - Len(q) \in 1..Len(t)
      BY <1>1, <1>2, <2>2
    <3> QED  BY <1>3, <3>1
  <2> QED  BY <1>1, <1>2, <2>1, <2>2
<1> QED  BY <1>1, <1>3 DEF Wakes

\* The two tasks that a removal creates.
LEMMA QueueTwo ==
  ASSUME NEW q \in Seq(Callbacks), NEW x \in Callbacks, NEW y \in Callbacks, NEW E,
         Wakes(q, E), x[1] # "wake", y[1] # "wake"
  PROVE  q \o <<x, y>> \in Seq(Callbacks) /\ Wakes(q \o <<x, y>>, E)
<1>1. PICK t : t = <<x, y>>
  OBVIOUS
<1>2. t \in Seq(Callbacks) /\ Len(t) = 2 /\ t[1] = x /\ t[2] = y
  BY <1>1
<1>3. \A i \in 1..Len(t) : t[i][1] # "wake"
  BY <1>2
<1> QED  BY <1>1, <1>2, <1>3, QueueConcat

\* A callback of each kind names what it runs for.
LEMMA CallbackTypes ==
  ASSUME NEW x \in Callbacks
  PROVE  /\ x[1] \in {"submit", "check", "wake"} => x[2] \in CheckIds
         /\ x[1] = "waiter" => x[2] \in Removals
BY DEF Callbacks

\* What is put into the queue is a callback.
LEMMA CallbackMembers ==
  /\ \A c \in CheckIds : /\ <<"submit", c>> \in Callbacks
                          /\ <<"check", c>> \in Callbacks
                          /\ <<"wake", c>> \in Callbacks
  /\ \A r \in Removals : <<"waiter", r>> \in Callbacks
BY DEF Callbacks

\* SetToSeq of a set of checks is a sequence of them.
LEMMA SequenceOfChecks ==
  ASSUME NEW S \in SUBSET CheckIds
  PROVE  SetToSeq(S) \in Seq(CheckIds)
<1>1. IsFiniteSet(Removals)
  BY FS_Interval, TimesAssumption DEF Removals
<1>2. IsFiniteSet(Callers)
  <2>1. Callers = {"remove_peer"} \cup {"check_and_remove_if_needed"}
    BY DEF Callers
  <2> QED  BY <2>1, FS_Singleton, FS_Union
<1>3. IsFiniteSet(S)
  BY <1>1, <1>2, FS_Product, FS_Subset DEF CheckIds
<1>4. Cardinality(S) \in Nat /\ ExistsBijection(1..Cardinality(S), S)
  BY <1>3, FS_CardinalityType
<1>5. \E f \in [1..Cardinality(S) -> S] : IsInjective(f)
  BY <1>4 DEF ExistsBijection, Bijection, Injection, Surjection, IsInjective
<1>6. SetToSeq(S) \in [1..Cardinality(S) -> S]
  BY <1>5 DEF SetToSeq
<1> QED  BY <1>4, <1>6

-----------------------------------------------------------------------------
(* Facts about the operators *)

\* The check that new_check finds is one of the peer, asked for within the window;
\* such a check cannot have failed yet.
LEMMA Recent ==
  ASSUME IInv, NEW p \in Peers, NEW c, c = CheckForRecent(p), c # NoCheck
  PROVE  /\ c \in CheckIds /\ checks[c].state # "none" /\ checks[c].peer = p
         /\ now <= checks[c].stamp + PING_TIME_CHECK_WINDOW
         /\ checks[c].state \in Ended => Outcome(c) # "offline"
<1>1. c = lastChecked[p] /\ now - checks[c].stamp <= PING_TIME_CHECK_WINDOW
  BY DEF CheckForRecent
<1>2. c \in CheckIds /\ checks[c] \in Check /\ now \in Nat
  BY <1>1 DEF IInv, TypeOK
<1>3. checks[c].state # "none" /\ checks[c].peer = p
  BY <1>1 DEF IInv, LastInv
<1>4. now <= checks[c].stamp + PING_TIME_CHECK_WINDOW
  BY <1>1, <1>2, TimesAssumption DEF Check
<1>5. checks[c].state \in Ended => Outcome(c) # "offline"
  <2>1. ASSUME checks[c].state = "completed", ~checks[c].succeeded
        PROVE  FALSE
    BY <2>1, <1>2, <1>4, TimesAssumption DEF IInv, CheckInv, CheckOK, Check
  <2> QED  BY <2>1 DEF Ended, Outcome
<1> QED  BY <1>2, <1>3, <1>4, <1>5

\* An object stands for a peer.
LEMMA ObjectsOfPeers ==
  ASSUME NEW o \in Objects
  PROVE  PeerOf(o) \in Peers
BY DEF Objects, PeerOf

\* Each removal has a name for either check it may make.
LEMMA CheckNames ==
  \A r \in Removals : /\ <<r, "remove_peer">> \in CheckIds
                      /\ <<r, "check_and_remove_if_needed">> \in CheckIds
BY DEF CheckIds, Callers

\* may_be_remove keeps the types.
LEMMA MayBeRemoveTypes ==
  ASSUME TypeOK, NEW S, NEW what, MayBeRemove(S, what)
  PROVE  /\ status' \in [Objects -> {"online", "offline"}]
         /\ page' \in [Peers -> {"online", "offline"}]
BY DEF TypeOK, MayBeRemove

\* A removal that is over, or not asked, is a removal.
LEMMA OverType ==
  ASSUME NEW s \in {"idle"} \cup Verdicts
  PROVE  Over(s) \in Removal /\ Over(s).state = s
BY DEF Over, Removal

\* A check gives one of the three outcomes.
LEMMA OutcomeType ==
  ASSUME NEW c
  PROVE  Outcome(c) \in Verdicts
BY DEF Outcome, Verdicts

-----------------------------------------------------------------------------
(* The initial state *)

\* The invariant holds when Connectivity is created.
LEMMA InitIInv ==
  ASSUME Init
  PROVE  IInv
<1>1. TypeOK
  <2>1. checks \in [CheckIds -> Check]
    BY DEF Init, Check
  <2>2. removals \in [Removals -> Removal]
    BY OverType DEF Init
  <2>3. now \in Nat /\ ready \in Seq(Callbacks)
    BY DEF Init
  <2>4. lastChecked \in [Peers -> CheckIds \cup {NoCheck}]
    BY DEF Init
  <2>5. /\ status \in [Objects -> {"online", "offline"}]
        /\ page \in [Peers -> {"online", "offline"}]
        /\ peerList \in [Peers -> Objects \cup {NoObject}]
        /\ contacts \subseteq Peers /\ group \in {"open", "exiting", "closed"}
    BY DEF Init
  <2> QED  BY <2>1, <2>2, <2>3, <2>4, <2>5 DEF TypeOK
<1>2. CheckInv
  BY DEF Init, CheckInv, CheckOK
<1>3. LastInv
  BY DEF Init, LastInv
<1>4. RemovalInv
  BY CheckNames DEF Init, RemovalInv, RemovalOK, Over
<1>5. WakeInv
  BY DEF Init, WakeInv, Wakes
<1> QED  BY <1>1, <1>2, <1>3, <1>4, <1>5 DEF IInv

-----------------------------------------------------------------------------
(* The steps *)

\* new_peer touches no check.
LEMMA AddContactIInv ==
  ASSUME IInv, NEW o \in Objects, NEW s \in {"online", "offline"}, AddContact(o, s)
  PROVE  IInv'
<1> USE ObjectsOfPeers DEF AddContact
<1>1. TypeOK'
  BY DEF IInv, TypeOK
<1>2. CheckInv' /\ LastInv' /\ RemovalInv' /\ WakeInv'
  BY DEF IInv, CheckInv, CheckOK, LastInv, RemovalInv, RemovalOK, WakeInv, EndedIds
<1> QED  BY <1>1, <1>2 DEF IInv

\* Time passes: a check's timer that is not due stays ahead of the clock.
LEMMA TickIInv ==
  ASSUME IInv, Tick
  PROVE  IInv'
<1> USE DEF Tick
<1>1. TypeOK'
  BY DEF IInv, TypeOK
<1>2. CheckInv'
  <2> SUFFICES ASSUME NEW c \in CheckIds PROVE CheckOK(c)'
    BY DEF CheckInv
  <2>1. checks[c] \in Check /\ now \in Nat /\ CheckOK(c)
    BY DEF IInv, TypeOK, CheckInv
  <2> QED  BY <2>1, TimesAssumption DEF CheckOK, Check
<1>3. LastInv' /\ WakeInv'
  BY DEF IInv, LastInv, WakeInv, EndedIds
<1>4. RemovalInv'
  <2> SUFFICES ASSUME NEW r \in Removals PROVE RemovalOK(r)'
    BY DEF RemovalInv
  <2>1. removals[r] \in Removal /\ now \in Nat /\ RemovalOK(r)
    BY DEF IInv, TypeOK, RemovalInv
  <2>2. removals[r].asked \in Nat
    BY <2>1 DEF Removal
  <2> QED  BY <2>1, <2>2 DEF RemovalOK
<1> QED  BY <1>1, <1>2, <1>3, <1>4 DEF IInv

\* The exit of the task group touches no check.
LEMMA GroupExitsIInv ==
  ASSUME IInv, GroupExits
  PROVE  IInv'
BY DEF GroupExits, IInv, TypeOK, CheckInv, CheckOK, LastInv, RemovalInv,
       RemovalOK, WakeInv, EndedIds

\* A step of one running check, which keeps what was asked for.
LEMMA OneCheck ==
  ASSUME IInv, NEW c \in CheckIds, UNCHANGED <<now, removals>>,
         checks' \in [CheckIds -> Check],
         \A d \in CheckIds : d # c => checks'[d] = checks[d],
         checks'[c].peer = checks[c].peer, checks'[c].stamp = checks[c].stamp,
         checks[c].state \notin {"none"} \cup Ended, checks'[c].state # "none",
         CheckOK(c)'
  PROVE  /\ CheckInv' /\ RemovalInv'
         /\ UNCHANGED lastChecked => LastInv'
         /\ EndedIds \subseteq EndedIds'
<1>1. CheckInv'
  BY DEF IInv, CheckInv, CheckOK
<1>2. RemovalInv'
  <2> SUFFICES ASSUME NEW r \in Removals PROVE RemovalOK(r)'
    BY DEF RemovalInv
  <2>1. RemovalOK(r)
    BY DEF IInv, RemovalInv
  <2>2. \A d \in CheckIds : /\ checks'[d].state = "none" <=> checks[d].state = "none"
                            /\ checks'[d].peer = checks[d].peer
                            /\ checks'[d].stamp = checks[d].stamp
    OBVIOUS
  <2> QED  BY <2>1, <2>2, CheckNames DEF RemovalOK
<1>3. UNCHANGED lastChecked => LastInv'
  BY DEF IInv, LastInv, TypeOK
<1>4. EndedIds \subseteq EndedIds'
  BY DEF EndedIds
<1> QED  BY <1>1, <1>2, <1>3, <1>4

\* Checks that have ended stay so.
LEMMA WakesGrow ==
  ASSUME NEW q, NEW E, NEW F, Wakes(q, E), E \subseteq F
  PROVE  Wakes(q, F)
BY DEF Wakes

\* A check ends: a reply, a connection, or a failed connection after the ping's timeout.
LEMMA EndCheckIInv ==
  ASSUME IInv, NEW c \in CheckIds, NEW b \in BOOLEAN, EndCheck(c, b),
         checks[c].state \in {"req_check", "con_check"},
         b \/ checks[c].state = "con_check",
         UNCHANGED <<now, lastChecked, removals, status, peerList, page, contacts, group>>
  PROVE  IInv'
<1>1. checks[c] \in Check /\ checks \in [CheckIds -> Check] /\ now \in Nat /\ CheckOK(c)
  BY DEF IInv, TypeOK, CheckInv
<1>2. checks'[c] = [checks[c] EXCEPT !.state = "completed", !.succeeded = b,
                      !.failedAt = IF b THEN 0 ELSE now, !.deadline = 0]
  BY <1>1 DEF EndCheck
<1>3. checks' \in [CheckIds -> Check]
  BY <1>1 DEF EndCheck, Check, Ended
<1>4. CheckOK(c)'
  BY <1>1, <1>2, TimesAssumption DEF CheckOK, Check
<1>5. /\ \A d \in CheckIds : d # c => checks'[d] = checks[d]
      /\ checks'[c].peer = checks[c].peer /\ checks'[c].stamp = checks[c].stamp
      /\ checks'[c].state = "completed"
  BY <1>1, <1>2 DEF EndCheck, Check
<1>6. CheckInv' /\ RemovalInv' /\ LastInv' /\ EndedIds \subseteq EndedIds'
  BY <1>3, <1>4, <1>5, OneCheck DEF Ended
<1>7. ready' \in Seq(Callbacks) /\ WakeInv'
  <2>1. c \in EndedIds'
    BY <1>5 DEF EndedIds, Ended
  <2>2. Wakes(ready, EndedIds')
    BY <1>6, WakesGrow DEF IInv, WakeInv
  <2>3. ready' = Append(ready, <<"wake", c>>) /\ ready \in Seq(Callbacks)
    BY DEF EndCheck, IInv, TypeOK
  <2> QED  BY <2>1, <2>2, <2>3, QueueAppend, CallbackMembers DEF WakeInv
<1> QED  BY <1>3, <1>6, <1>7 DEF IInv, TypeOK

\* The ping's timer is due: PING_TIMEOUT has passed since the check was asked for.
LEMMA PingTimeoutIInv ==
  ASSUME IInv, NEW c \in CheckIds, PingTimeout(c)
  PROVE  IInv'
<1> USE DEF PingTimeout
<1>1. checks[c] \in Check /\ checks \in [CheckIds -> Check] /\ now \in Nat /\ CheckOK(c)
  BY DEF IInv, TypeOK, CheckInv
<1>2. checks'[c] = [checks[c] EXCEPT !.state = "con_check", !.deadline = Deadline]
  BY <1>1
<1>3. checks' \in [CheckIds -> Check]
  BY <1>1, TimesAssumption DEF Check, Running, Deadline
<1>4. CheckOK(c)'
  BY <1>1, <1>2, TimesAssumption DEF CheckOK, Check, Deadline
<1>5. /\ \A d \in CheckIds : d # c => checks'[d] = checks[d]
      /\ checks'[c].peer = checks[c].peer /\ checks'[c].stamp = checks[c].stamp
      /\ checks'[c].state = "con_check"
  BY <1>1, <1>2 DEF Check
<1>6. CheckInv' /\ RemovalInv' /\ LastInv' /\ EndedIds \subseteq EndedIds'
  BY <1>3, <1>4, <1>5, OneCheck DEF Ended
<1>7. WakeInv'
  BY <1>6, WakesGrow DEF IInv, WakeInv
<1> QED  BY <1>3, <1>6, <1>7 DEF IInv, TypeOK

\* The callback at the head of the queue, of kind k.
LEMMA HeadCallback ==
  ASSUME IInv, NEW k, Runs(k)
  PROVE  /\ ready \in Seq(Callbacks) /\ Tail(ready) \in Seq(Callbacks)
         /\ Wakes(Tail(ready), EndedIds)
         /\ k \in {"submit", "check", "wake"} => Callback \in CheckIds
         /\ k = "waiter" => Callback \in Removals
         /\ k = "wake" => Callback \in EndedIds
<1>1. ready \in Seq(Callbacks) /\ Wakes(ready, EndedIds) /\ ready # <<>> /\ Head(ready)[1] = k
  BY DEF IInv, TypeOK, WakeInv, Runs
<1> QED  BY <1>1, QueueTail, CallbackTypes DEF Callback

\* Connectivity.submit records a check of the peer.
LEMMA SubmitIInv ==
  ASSUME IInv, Submit
  PROVE  IInv'
<1>1. PICK c \in CheckIds : c = Callback
  BY HeadCallback DEF Submit
<1>2. /\ checks \in [CheckIds -> Check] /\ now \in Nat
      /\ lastChecked \in [Peers -> CheckIds \cup {NoCheck}]
      /\ CheckOK(c)
  BY DEF IInv, TypeOK, CheckInv
<1>3. /\ checks' = [checks EXCEPT ![c].state = "initiated"] /\ checks[c].state = "queued"
      /\ lastChecked' = [lastChecked EXCEPT ![checks[c].peer] = c]
      /\ ready' = Append(Tail(ready), <<"check", c>>)
      /\ UNCHANGED <<now, removals, status, peerList, page, contacts, group>>
  BY <1>1 DEF Submit
<1>4. checks'[c] = [checks[c] EXCEPT !.state = "initiated"] /\ checks[c] \in Check
  BY <1>2, <1>3
<1>5. checks' \in [CheckIds -> Check]
  BY <1>2, <1>3 DEF Check, Running
<1>6. CheckOK(c)'
  BY <1>2, <1>3, <1>4 DEF CheckOK, Check
<1>7. /\ \A d \in CheckIds : d # c => checks'[d] = checks[d]
      /\ checks'[c].peer = checks[c].peer /\ checks'[c].stamp = checks[c].stamp
      /\ checks'[c].state = "initiated"
  BY <1>2, <1>3, <1>4 DEF Check
<1>8. CheckInv' /\ RemovalInv' /\ EndedIds \subseteq EndedIds'
  BY <1>3, <1>5, <1>6, <1>7, OneCheck DEF Ended
<1>9. LastInv' /\ lastChecked' \in [Peers -> CheckIds \cup {NoCheck}]
  <2>1. checks[c].peer \in Peers
    BY <1>2, <1>3 DEF CheckOK
  <2>2. \A p \in Peers : lastChecked'[p] = IF p = checks[c].peer THEN c ELSE lastChecked[p]
    BY <1>2, <1>3
  <2>3. \A p \in Peers : lastChecked[p] # NoCheck =>
          checks'[lastChecked[p]].state # "none" /\ checks'[lastChecked[p]].peer = p
    BY <1>2, <1>7 DEF IInv, LastInv
  <2>4. LastInv'
    BY <2>1, <2>2, <2>3, <1>7 DEF LastInv
  <2> QED  BY <2>4, <1>2, <1>3
<1>10. ready' \in Seq(Callbacks) /\ WakeInv'
  <2>1. Tail(ready) \in Seq(Callbacks) /\ Wakes(Tail(ready), EndedIds)
    BY HeadCallback DEF Submit
  <2>2. Wakes(Tail(ready), EndedIds')
    BY <2>1, <1>8, WakesGrow
  <2> QED  BY <1>3, <2>1, <2>2, QueueAppend, CallbackMembers DEF WakeInv
<1> QED  BY <1>3, <1>5, <1>8, <1>9, <1>10 DEF IInv, TypeOK

\* _new_check starts its timer, or ends cancelled.
LEMMA NewCheckIInv ==
  ASSUME IInv, NewCheck
  PROVE  IInv'
<1>1. PICK c \in CheckIds : c = Callback
  BY HeadCallback DEF NewCheck
<1>2. /\ checks \in [CheckIds -> Check] /\ checks[c] \in Check
      /\ now \in Nat /\ CheckOK(c)
  BY DEF IInv, TypeOK, CheckInv
<1>3. Tail(ready) \in Seq(Callbacks) /\ Wakes(Tail(ready), EndedIds)
  BY HeadCallback DEF NewCheck
<1>4. UNCHANGED <<now, lastChecked, removals, status, peerList, page, contacts, group>>
  BY DEF NewCheck
<1>5. CASE /\ checks[c].state = "initiated" /\ ready' = Tail(ready)
           /\ checks' = [checks EXCEPT ![c].state = "req_check", ![c].deadline = Deadline]
  <2>1. checks'[c] = [checks[c] EXCEPT !.state = "req_check", !.deadline = Deadline]
    BY <1>2, <1>5
  <2>2. checks' \in [CheckIds -> Check]
    <3>1. Deadline \in Nat
      BY <1>2, TimesAssumption DEF Deadline
    <3>2. [checks[c] EXCEPT !.state = "req_check", !.deadline = Deadline] \in Check
      BY <1>2, <3>1 DEF Check, Running
    <3> QED  BY <1>2, <1>5, <3>2
  <2>3. CheckOK(c)'
    BY <1>2, <1>4, <1>5, <2>1, TimesAssumption DEF CheckOK, Check, Deadline
  <2>4. /\ \A d \in CheckIds : d # c => checks'[d] = checks[d]
        /\ checks'[c].peer = checks[c].peer /\ checks'[c].stamp = checks[c].stamp
        /\ checks'[c].state = "req_check"
    BY <1>2, <1>5, <2>1 DEF Check
  <2>5. CheckInv' /\ RemovalInv' /\ LastInv' /\ EndedIds \subseteq EndedIds'
    BY <1>4, <1>5, <2>2, <2>3, <2>4, OneCheck DEF Ended
  <2>6. WakeInv'
    BY <1>3, <1>5, <2>5, WakesGrow DEF WakeInv
  <2> QED  BY <1>3, <1>4, <1>5, <2>2, <2>5, <2>6 DEF IInv, TypeOK
<1>6. CASE /\ checks[c].state = "cancelling"
           /\ ready' = Append(Tail(ready), <<"wake", c>>)
           /\ checks' = [checks EXCEPT ![c].state = "cancelled", ![c].deadline = 0]
  <2>1. checks'[c] = [checks[c] EXCEPT !.state = "cancelled", !.deadline = 0]
    BY <1>2, <1>6
  <2>2. checks' \in [CheckIds -> Check]
    BY <1>2, <1>6 DEF Check, Ended
  <2>3. CheckOK(c)'
    BY <1>2, <1>4, <1>6, <2>1 DEF CheckOK, Check
  <2>4. /\ \A d \in CheckIds : d # c => checks'[d] = checks[d]
        /\ checks'[c].peer = checks[c].peer /\ checks'[c].stamp = checks[c].stamp
        /\ checks'[c].state = "cancelled"
    BY <1>2, <1>6, <2>1 DEF Check
  <2>5. CheckInv' /\ RemovalInv' /\ LastInv' /\ EndedIds \subseteq EndedIds'
    BY <1>4, <1>6, <2>2, <2>3, <2>4, OneCheck DEF Ended
  <2>6. ready' \in Seq(Callbacks) /\ WakeInv'
    <3>1. c \in EndedIds'
      BY <2>4 DEF EndedIds, Ended
    <3>2. Wakes(Tail(ready), EndedIds')
      BY <1>3, <2>5, WakesGrow
    <3> QED  BY <1>3, <1>6, <3>1, <3>2, QueueAppend, CallbackMembers DEF WakeInv
  <2> QED  BY <1>4, <2>2, <2>5, <2>6 DEF IInv, TypeOK
<1> QED  BY <1>1, <1>5, <1>6 DEF NewCheck

\* Removals that are over leave the invariant of the others alone.
LEMMA RemovalsOver ==
  ASSUME IInv, NEW rs \in SUBSET Removals, NEW s \in Verdicts,
         removals' = [r \in Removals |-> IF r \in rs THEN Over(s) ELSE removals[r]],
         UNCHANGED <<now, checks, lastChecked>>
  PROVE  /\ removals' \in [Removals -> Removal]
         /\ CheckInv' /\ LastInv' /\ RemovalInv' /\ EndedIds' = EndedIds
<1>1. removals' \in [Removals -> Removal]
  <2>1. removals \in [Removals -> Removal]
    BY DEF IInv, TypeOK
  <2> QED  BY <2>1, OverType
<1>2. CheckInv' /\ LastInv' /\ EndedIds' = EndedIds
  BY DEF IInv, CheckInv, CheckOK, LastInv, EndedIds
<1>3. RemovalInv'
  <2> SUFFICES ASSUME NEW r \in Removals PROVE RemovalOK(r)'
    BY DEF RemovalInv
  <2>1. CASE r \in rs
    BY <2>1, OverType DEF RemovalOK, Verdicts
  <2>2. CASE r \notin rs
    <3>1. removals'[r] = removals[r] /\ RemovalOK(r)
      BY <2>2 DEF IInv, RemovalInv
    <3> QED  BY <3>1 DEF RemovalOK
  <2> QED  BY <2>1, <2>2
<1> QED  BY <1>1, <1>2, <1>3

\* The removals that await an ended check get its outcome.
LEMMA WakeIInv ==
  ASSUME IInv, Wake
  PROVE  IInv'
<1> DEFINE rs == {r \in Removals : removals[r].state = "waiting" /\ removals[r].fut = Callback}
<1>1. /\ removals' = [r \in Removals |-> IF r \in rs THEN Over(Outcome(Callback))
                                                     ELSE removals[r]]
      /\ MayBeRemove({removals[r].obj : r \in rs}, Outcome(Callback) # "offline")
      /\ ready' = Tail(ready)
      /\ UNCHANGED <<now, checks, lastChecked, peerList, contacts, group>>
  BY DEF Wake, Conclude
<1>2. /\ removals' \in [Removals -> Removal]
      /\ CheckInv' /\ LastInv' /\ RemovalInv' /\ EndedIds' = EndedIds
  BY <1>1, OutcomeType, RemovalsOver
<1>3. ready' \in Seq(Callbacks) /\ WakeInv'
  BY <1>1, <1>2, HeadCallback DEF WakeInv, Wake
<1>4. /\ status' \in [Objects -> {"online", "offline"}]
      /\ page' \in [Peers -> {"online", "offline"}]
  BY <1>1, MayBeRemoveTypes DEF IInv
<1> QED  BY <1>1, <1>2, <1>3, <1>4 DEF IInv, TypeOK

\* A new check.
LEMMA SpawnInv ==
  ASSUME IInv, NEW c \in CheckIds, NEW p \in Peers, checks[c].state = "none", Spawn(c, p),
         UNCHANGED <<now, lastChecked>>
  PROVE  /\ checks' \in [CheckIds -> Check] /\ CheckInv' /\ LastInv'
         /\ EndedIds \subseteq EndedIds'
         /\ checks'[c].state = "queued" /\ checks'[c].peer = p /\ checks'[c].stamp = now
         /\ \A d \in CheckIds : d # c => checks'[d] = checks[d]
<1>1. checks \in [CheckIds -> Check] /\ checks[c] \in Check /\ now \in Nat
  BY DEF IInv, TypeOK
<1>2. checks'[c] = [checks[c] EXCEPT !.state = "queued", !.peer = p, !.stamp = now]
  BY <1>1 DEF Spawn
<1>3. checks'[c] \in Check
  BY <1>1, <1>2 DEF Check
<1>4. \A d \in CheckIds : d # c => checks'[d] = checks[d]
  BY <1>1 DEF Spawn
<1>5. checks' \in [CheckIds -> Check]
  BY <1>1, <1>3, <1>4 DEF Spawn
<1>6. checks'[c].state = "queued" /\ checks'[c].peer = p /\ checks'[c].stamp = now
  BY <1>1, <1>2 DEF Check
<1>7. CheckInv'
  BY <1>1, <1>4, <1>6 DEF IInv, CheckInv, CheckOK
<1>8. LastInv'
  BY <1>4 DEF IInv, LastInv, TypeOK
<1>9. EndedIds \subseteq EndedIds'
  BY <1>4 DEF EndedIds, Ended
<1> QED  BY <1>4, <1>5, <1>6, <1>7, <1>8, <1>9

\* Another removal than the one that made the new check c.
LEMMA OtherRemovals ==
  ASSUME IInv, NEW r \in Removals, NEW q \in Removals, q # r, removals'[q] = removals[q],
         UNCHANGED now,
         \A d \in CheckIds : checks[d].state # "none" => checks'[d] = checks[d],
         \A k \in Callers : checks'[<<q, k>>] = checks[<<q, k>>]
  PROVE  RemovalOK(q)'
<1>1. RemovalOK(q)
  BY DEF IInv, RemovalInv
<1>2. removals[q].state = "waiting" => checks'[removals[q].fut] = checks[removals[q].fut]
  BY <1>1 DEF RemovalOK
<1>3. /\ checks'[<<q, "remove_peer">>] = checks[<<q, "remove_peer">>]
      /\ checks'[<<q, "check_and_remove_if_needed">>] = checks[<<q, "check_and_remove_if_needed">>]
  BY DEF Callers
<1> QED  BY <1>1, <1>2, <1>3 DEF RemovalOK

\* A removal becomes a task or awaits a check.
LEMMA AwaitInv ==
  ASSUME IInv, NEW r \in Removals, NEW o \in Objects, NEW asked \in Nat,
         NEW s \in {"spawned", "waiting"}, NEW f \in CheckIds \cup {NoCheck},
         Await(r, o, asked, s, f)
  PROVE  /\ removals' \in [Removals -> Removal] /\ UNCHANGED <<status, page>>
         /\ removals'[r].state = s /\ removals'[r].obj = o
         /\ removals'[r].asked = asked /\ removals'[r].fut = f
         /\ \A q \in Removals : q # r => removals'[q] = removals[q]
<1>1. removals \in [Removals -> Removal]
  BY DEF IInv, TypeOK
<1>2. [obj |-> o, asked |-> asked, fut |-> f, state |-> s] \in Removal
  BY DEF Removal
<1> QED  BY <1>1, <1>2 DEF Await

\* A removal whose check was found or made, with the callbacks that are then queued.
LEMMA SharedCheck ==
  ASSUME IInv, NEW r \in Removals, NEW o \in Objects, NEW asked \in Nat, asked <= now,
         NEW s \in {"spawned", "waiting"}, NEW f \in CheckIds \cup {NoCheck},
         Await(r, o, asked, s, f), UNCHANGED <<now, checks, lastChecked>>,
         removals[r].state \in {"idle", "spawned"},
         s = "waiting" => /\ f \in CheckIds /\ checks[f].state # "none"
                          /\ checks[f].peer = PeerOf(o)
                          /\ now <= checks[f].stamp + PING_TIME_CHECK_WINDOW
  PROVE  /\ removals' \in [Removals -> Removal] /\ UNCHANGED <<status, page>>
         /\ CheckInv' /\ LastInv' /\ RemovalInv' /\ EndedIds' = EndedIds
<1>1. /\ removals' \in [Removals -> Removal] /\ UNCHANGED <<status, page>>
      /\ removals'[r].state = s /\ removals'[r].obj = o
      /\ removals'[r].asked = asked /\ removals'[r].fut = f
      /\ \A q \in Removals : q # r => removals'[q] = removals[q]
  BY AwaitInv
<1>2. CheckInv' /\ LastInv' /\ EndedIds' = EndedIds
  BY DEF IInv, CheckInv, CheckOK, LastInv, EndedIds
<1>3. RemovalInv'
  <2> SUFFICES ASSUME NEW q \in Removals PROVE RemovalOK(q)'
    BY DEF RemovalInv
  <2>1. RemovalOK(q) /\ checks \in [CheckIds -> Check] /\ now \in Nat
    BY DEF IInv, TypeOK, RemovalInv
  <2>2. CASE q = r
    <3>1. s = "waiting" => checks[f].stamp \in Nat
      BY <2>1 DEF Check
    <3> QED  BY <1>1, <2>1, <2>2, <3>1, TimesAssumption DEF RemovalOK
  <2>3. CASE q # r
    <3>1. removals'[q] = removals[q]
      BY <1>1, <2>3
    <3> QED  BY <2>1, <3>1 DEF RemovalOK
  <2> QED  BY <2>2, <2>3
<1> QED  BY <1>1, <1>2, <1>3

\* A removal that makes a check of its own.
LEMMA MadeCheck ==
  ASSUME IInv, NEW r \in Removals, NEW o \in Objects, NEW asked \in Nat, asked <= now,
         NEW k \in Callers, Spawn(<<r, k>>, PeerOf(o)), UNCHANGED <<now, lastChecked>>,
         NEW s, NEW f,
         \/ removals[r].state = "idle" /\ k = "remove_peer" /\ s = "spawned" /\ f = NoCheck
         \/ /\ removals[r].state = "spawned" /\ k = "check_and_remove_if_needed"
            /\ s = "waiting" /\ f = <<r, k>>,
         Await(r, o, asked, s, f)
  PROVE  /\ removals' \in [Removals -> Removal] /\ UNCHANGED <<status, page>>
         /\ checks' \in [CheckIds -> Check]
         /\ CheckInv' /\ LastInv' /\ RemovalInv' /\ EndedIds \subseteq EndedIds'
<1> DEFINE c == <<r, k>>
<1>1. c \in CheckIds /\ checks[c].state = "none" /\ PeerOf(o) \in Peers
  <2>1. RemovalOK(r)
    BY DEF IInv, RemovalInv
  <2> QED  BY <2>1, ObjectsOfPeers DEF RemovalOK, CheckIds
<1>2. /\ checks' \in [CheckIds -> Check] /\ CheckInv' /\ LastInv'
      /\ EndedIds \subseteq EndedIds'
      /\ checks'[c].state = "queued" /\ checks'[c].peer = PeerOf(o) /\ checks'[c].stamp = now
      /\ \A d \in CheckIds : d # c => checks'[d] = checks[d]
  BY <1>1, SpawnInv
<1>3. s \in {"spawned", "waiting"} /\ f \in CheckIds \cup {NoCheck}
  BY <1>1
<1>4. /\ removals' \in [Removals -> Removal] /\ UNCHANGED <<status, page>>
      /\ removals'[r].state = s /\ removals'[r].obj = o
      /\ removals'[r].asked = asked /\ removals'[r].fut = f
      /\ \A q \in Removals : q # r => removals'[q] = removals[q]
  BY <1>3, AwaitInv
<1>5. RemovalInv'
  <2> SUFFICES ASSUME NEW q \in Removals PROVE RemovalOK(q)'
    BY DEF RemovalInv
  <2>1. CASE q # r
    <3>1. \A j \in Callers : <<q, j>> \in CheckIds /\ <<q, j>> # c
      BY <2>1 DEF CheckIds
    <3>2. \A j \in Callers : checks'[<<q, j>>] = checks[<<q, j>>]
      BY <3>1, <1>2
    <3>3. \A d \in CheckIds : checks[d].state # "none" => checks'[d] = checks[d]
      BY <1>1, <1>2
    <3> QED  BY <1>4, <2>1, <3>2, <3>3, OtherRemovals
  <2>2. CASE q = r /\ s = "spawned"
    <3>1. checks[<<r, "check_and_remove_if_needed">>].state = "none" /\ k = "remove_peer"
      BY <2>2 DEF IInv, RemovalInv, RemovalOK
    <3>2. checks'[<<r, "check_and_remove_if_needed">>].state = "none"
      BY <1>2, <3>1, CheckNames
    <3> QED  BY <1>4, <2>2, <3>2 DEF RemovalOK
  <2>3. CASE q = r /\ s = "waiting"
    <3>1. f = c /\ now \in Nat
      BY <2>3 DEF IInv, TypeOK
    <3>2. asked <= now + PING_TIME_CHECK_WINDOW
      BY <3>1, TimesAssumption
    <3> QED  BY <1>1, <1>2, <1>4, <2>3, <3>1, <3>2 DEF RemovalOK
  <2> QED  BY <1>3, <2>1, <2>2, <2>3
<1> QED  BY <1>2, <1>4, <1>5

\* A removal that is over in the step that asks: its outcome is known, or it is refused.
LEMMA OneOver ==
  ASSUME IInv, NEW r \in Removals, NEW s \in Verdicts, UNCHANGED <<now, checks, lastChecked>>,
         \/ removals' = [removals EXCEPT ![r] = Over(s)]
         \/ removals' = [q \in Removals |-> IF q \in {r} THEN Over(s) ELSE removals[q]]
  PROVE  /\ removals' \in [Removals -> Removal]
         /\ CheckInv' /\ LastInv' /\ RemovalInv' /\ EndedIds' = EndedIds
<1>1. removals' = [q \in Removals |-> IF q \in {r} THEN Over(s) ELSE removals[q]]
  <2>1. removals \in [Removals -> Removal]
    BY DEF IInv, TypeOK
  <2> QED  BY <2>1
<1>2. {r} \in SUBSET Removals
  OBVIOUS
<1> QED  BY <1>1, <1>2, RemovalsOver

\* remove_peer, in its four cases.
LEMMA RemovePeerIInv ==
  ASSUME IInv, NEW r \in Removals, NEW o \in Objects, RemovePeer(r, o)
  PROVE  IInv'
<1> DEFINE p == PeerOf(o)
           mine == <<r, "remove_peer">>
<1>1. /\ removals[r].state = "idle" /\ contacts' = contacts \ {p}
      /\ UNCHANGED <<now, lastChecked, peerList, group>>
  BY DEF RemovePeer
<1>2. /\ p \in Peers /\ now \in Nat /\ ready \in Seq(Callbacks) /\ Wakes(ready, EndedIds)
  BY ObjectsOfPeers DEF IInv, TypeOK, WakeInv
<1>3. <<"waiter", r>> \in Callbacks /\ <<"submit", mine>> \in Callbacks
  BY CallbackMembers, CheckNames
<1>4. ASSUME NEW c, Conclude({r}, {o}, c), UNCHANGED <<ready, checks>>
      PROVE  IInv'
  <2>1. /\ removals' \in [Removals -> Removal]
        /\ CheckInv' /\ LastInv' /\ RemovalInv' /\ EndedIds' = EndedIds
    BY <1>1, <1>4, OneOver, OutcomeType DEF Conclude
  <2>2. /\ status' \in [Objects -> {"online", "offline"}]
        /\ page' \in [Peers -> {"online", "offline"}]
    BY <1>4, MayBeRemoveTypes DEF IInv, Conclude
  <2>3. WakeInv'
    BY <1>2, <1>4, <2>1 DEF WakeInv
  <2> QED  BY <1>1, <1>4, <2>1, <2>2, <2>3 DEF IInv, TypeOK
<1>5. ASSUME ready' = Append(ready, <<"waiter", r>>), Await(r, o, now, "spawned", NoCheck),
             UNCHANGED checks
      PROVE  IInv'
  <2>1. /\ removals' \in [Removals -> Removal] /\ UNCHANGED <<status, page>>
        /\ CheckInv' /\ LastInv' /\ RemovalInv' /\ EndedIds' = EndedIds
    BY <1>1, <1>2, <1>5, SharedCheck
  <2>2. ready' \in Seq(Callbacks) /\ WakeInv'
    BY <1>2, <1>3, <1>5, <2>1, QueueAppend DEF WakeInv
  <2> QED  BY <1>1, <1>5, <2>1, <2>2 DEF IInv, TypeOK
<1>6. ASSUME Spawn(mine, p), Await(r, o, now, "spawned", NoCheck),
             ready' = ready \o << <<"submit", mine>>, <<"waiter", r>> >>
      PROVE  IInv'
  <2>1. /\ removals' \in [Removals -> Removal] /\ UNCHANGED <<status, page>>
        /\ checks' \in [CheckIds -> Check]
        /\ CheckInv' /\ LastInv' /\ RemovalInv' /\ EndedIds \subseteq EndedIds'
    <3>1. PICK k \in Callers : k = "remove_peer"
      BY DEF Callers
    <3>2. PICK asked \in Nat : asked = now /\ asked <= now
      BY <1>2
    <3>3. Spawn(<<r, k>>, PeerOf(o)) /\ Await(r, o, asked, "spawned", NoCheck)
      BY <1>6, <3>1, <3>2
    <3> QED  BY <1>1, <3>1, <3>2, <3>3, MadeCheck
  <2>2. Wakes(ready, EndedIds')
    BY <1>2, <2>1, WakesGrow
  <2>3. ready' \in Seq(Callbacks) /\ WakeInv'
    BY <1>2, <1>3, <1>6, <2>2, QueueTwo DEF WakeInv
  <2> QED  BY <1>1, <2>1, <2>3 DEF IInv, TypeOK
<1>7. ASSUME Refused(r), UNCHANGED <<ready, checks>>
      PROVE  IInv'
  <2>1. /\ removals' \in [Removals -> Removal]
        /\ CheckInv' /\ LastInv' /\ RemovalInv' /\ EndedIds' = EndedIds
    BY <1>1, <1>7, OneOver DEF Refused, Verdicts
  <2>2. WakeInv'
    BY <1>2, <1>7, <2>1 DEF WakeInv
  <2> QED  BY <1>1, <1>7, <2>1, <2>2 DEF IInv, TypeOK, Refused
<1> QED  BY <1>4, <1>5, <1>6, <1>7 DEF RemovePeer

\* check_and_remove_if_needed, in its four cases.
LEMMA CheckAndRemoveIInv ==
  ASSUME IInv, CheckAndRemove
  PROVE  IInv'
<1>1. PICK r \in Removals : r = Callback
  BY HeadCallback DEF CheckAndRemove
<1>2. PICK o \in Objects : o = removals[r].obj
  BY <1>1 DEF CheckAndRemove, IInv, RemovalInv, RemovalOK
<1>3. PICK asked \in Nat : asked = removals[r].asked /\ asked <= now
  <2>1. removals[r] \in Removal /\ removals[r].state = "spawned" /\ RemovalOK(r)
    BY <1>1 DEF CheckAndRemove, IInv, TypeOK, RemovalInv
  <2> QED  BY <2>1 DEF Removal, RemovalOK
<1> DEFINE c == CheckForRecent(PeerOf(o))
           mine == <<r, "check_and_remove_if_needed">>
<1>4. /\ removals[r].state = "spawned"
      /\ UNCHANGED <<now, lastChecked, peerList, contacts, group>>
  BY <1>1 DEF CheckAndRemove
<1>5. /\ PeerOf(o) \in Peers /\ now \in Nat
      /\ Tail(ready) \in Seq(Callbacks) /\ Wakes(Tail(ready), EndedIds)
  BY ObjectsOfPeers, HeadCallback DEF CheckAndRemove, IInv, TypeOK
<1>6. ASSUME NEW d, Conclude({r}, {o}, d), ready' = Tail(ready), UNCHANGED checks
      PROVE  IInv'
  <2>1. /\ removals' \in [Removals -> Removal]
        /\ CheckInv' /\ LastInv' /\ RemovalInv' /\ EndedIds' = EndedIds
    BY <1>4, <1>6, OneOver, OutcomeType DEF Conclude
  <2>2. /\ status' \in [Objects -> {"online", "offline"}]
        /\ page' \in [Peers -> {"online", "offline"}]
    BY <1>6, MayBeRemoveTypes DEF IInv, Conclude
  <2>3. WakeInv'
    BY <1>5, <1>6, <2>1 DEF WakeInv
  <2> QED  BY <1>4, <1>5, <1>6, <2>1, <2>2, <2>3 DEF IInv, TypeOK
<1>7. ASSUME c # NoCheck, Await(r, o, asked, "waiting", c), ready' = Tail(ready),
             UNCHANGED checks
      PROVE  IInv'
  <2>1. PICK f : f = c
    OBVIOUS
  <2>2. /\ f \in CheckIds /\ checks[f].state # "none" /\ checks[f].peer = PeerOf(o)
        /\ now <= checks[f].stamp + PING_TIME_CHECK_WINDOW
    BY <1>5, <1>7, <2>1, Recent
  <2>3. Await(r, o, asked, "waiting", f)
    BY <1>7, <2>1
  <2>4. /\ removals' \in [Removals -> Removal] /\ UNCHANGED <<status, page>>
        /\ CheckInv' /\ LastInv' /\ RemovalInv' /\ EndedIds' = EndedIds
    BY <1>3, <1>4, <1>7, <2>2, <2>3, SharedCheck
  <2>5. WakeInv'
    BY <1>5, <1>7, <2>4 DEF WakeInv
  <2> QED  BY <1>4, <1>5, <1>7, <2>4, <2>5 DEF IInv, TypeOK
<1>8. ASSUME Spawn(mine, PeerOf(o)), Await(r, o, asked, "waiting", mine),
             ready' = Append(Tail(ready), <<"submit", mine>>)
      PROVE  IInv'
  <2>1. /\ removals' \in [Removals -> Removal] /\ UNCHANGED <<status, page>>
        /\ checks' \in [CheckIds -> Check]
        /\ CheckInv' /\ LastInv' /\ RemovalInv' /\ EndedIds \subseteq EndedIds'
    BY <1>3, <1>4, <1>8, MadeCheck DEF Callers
  <2>2. Wakes(Tail(ready), EndedIds')
    BY <1>5, <2>1, WakesGrow
  <2>3. ready' \in Seq(Callbacks) /\ WakeInv'
    BY <1>5, <1>8, <2>2, QueueAppend, CallbackMembers, CheckNames DEF WakeInv
  <2> QED  BY <1>4, <2>1, <2>3 DEF IInv, TypeOK
<1>9. ASSUME Refused(r), ready' = Tail(ready), UNCHANGED checks
      PROVE  IInv'
  <2>1. /\ removals' \in [Removals -> Removal]
        /\ CheckInv' /\ LastInv' /\ RemovalInv' /\ EndedIds' = EndedIds
    BY <1>4, <1>9, OneOver DEF Refused, Verdicts
  <2>2. WakeInv'
    BY <1>5, <1>9, <2>1 DEF WakeInv
  <2> QED  BY <1>4, <1>5, <1>9, <2>1, <2>2 DEF IInv, TypeOK, Refused
<1> QED  BY <1>1, <1>2, <1>3, <1>6, <1>7, <1>8, <1>9 DEF CheckAndRemove

\* __aexit__: cancelled checks stay checks of their peer, and only their own
\* tasks are put into the queue.
LEMMA ExitIInv ==
  ASSUME IInv, Exit
  PROVE  IInv'
<1> DEFINE latest == {c \in CheckIds : \E p \in Peers : lastChecked[p] = c}
           cancelled == {c \in latest : checks[c].state \in Running}
           awaiting == SetToSeq({c \in cancelled : checks[c].state # "initiated"})
           woken == [i \in 1..Len(awaiting) |-> <<"check", awaiting[i]>>]
<1>1. /\ group' = "exiting" /\ ready' = ready \o woken
      /\ checks' = [c \in CheckIds |-> IF c \in cancelled
                                         THEN [checks[c] EXCEPT !.state = "cancelling"]
                                         ELSE checks[c]]
      /\ UNCHANGED <<now, lastChecked, removals, status, peerList, page, contacts>>
  BY DEF Exit
<1>2. checks \in [CheckIds -> Check] /\ now \in Nat /\ ready \in Seq(Callbacks)
  BY DEF IInv, TypeOK
<1>3. ASSUME NEW c \in CheckIds
      PROVE  /\ checks'[c] \in Check
             /\ checks'[c].peer = checks[c].peer /\ checks'[c].stamp = checks[c].stamp
             /\ checks'[c].state = "none" <=> checks[c].state = "none"
             /\ CheckOK(c)'
             /\ checks[c].state \in Ended => checks'[c] = checks[c]
  <2>1. checks[c] \in Check /\ CheckOK(c)
    BY <1>2 DEF IInv, CheckInv
  <2>2. CASE c \in cancelled
    <3>1. checks'[c] = [checks[c] EXCEPT !.state = "cancelling"] /\ checks[c].state \in Running
      BY <1>1, <2>2
    <3>2. /\ checks'[c].peer = checks[c].peer /\ checks'[c].stamp = checks[c].stamp
          /\ checks'[c].state = "cancelling" /\ checks'[c] \in Check
      BY <2>1, <3>1 DEF Check, Running
    <3>3. checks[c].state # "none" /\ checks[c].state \notin Ended
      BY <3>1 DEF Running, Ended
    <3> QED  BY <1>1, <2>1, <3>2, <3>3 DEF CheckOK
  <2>3. CASE c \notin cancelled
    <3>1. checks'[c] = checks[c]
      BY <1>1, <2>3
    <3> QED  BY <1>1, <2>1, <3>1 DEF CheckOK
  <2> QED  BY <2>2, <2>3
<1>4. checks' \in [CheckIds -> Check] /\ CheckInv' /\ EndedIds \subseteq EndedIds'
  <2>1. checks' \in [CheckIds -> Check]
    BY <1>1, <1>3
  <2> QED  BY <1>3, <2>1 DEF CheckInv, EndedIds
<1>5. LastInv'
  BY <1>1, <1>3 DEF IInv, LastInv, TypeOK
<1>6. RemovalInv'
  <2> SUFFICES ASSUME NEW r \in Removals PROVE RemovalOK(r)'
    BY DEF RemovalInv
  <2>1. RemovalOK(r)
    BY DEF IInv, RemovalInv
  <2>2. \A d \in CheckIds : /\ checks'[d].state = "none" <=> checks[d].state = "none"
                            /\ checks'[d].peer = checks[d].peer
                            /\ checks'[d].stamp = checks[d].stamp
    BY <1>3
  <2>3. UNCHANGED <<now, removals>>
    BY <1>1
  <2> QED  BY <2>1, <2>2, <2>3, CheckNames DEF RemovalOK
<1>7. ready' \in Seq(Callbacks) /\ WakeInv'
  <2>1. awaiting \in Seq(CheckIds)
    BY SequenceOfChecks
  <2> HIDE DEF awaiting
  <2>2. Len(awaiting) \in Nat /\ \A i \in 1..Len(awaiting) : awaiting[i] \in CheckIds
    BY <2>1
  <2>3. /\ woken \in [1..Len(awaiting) -> Callbacks]
        /\ \A i \in 1..Len(awaiting) : woken[i][1] # "wake"
    BY <2>2, CallbackMembers
  <2> HIDE DEF woken
  <2>4. woken \in Seq(Callbacks) /\ \A i \in 1..Len(woken) : woken[i][1] # "wake"
    <3>1. woken \in Seq(Callbacks)
      BY <2>2, <2>3
    <3>2. Len(woken) = Len(awaiting)
      BY <2>2, <2>3, <3>1
    <3> QED  BY <2>3, <3>1, <3>2
  <2>5. Wakes(ready, EndedIds')
    BY <1>4, WakesGrow DEF IInv, WakeInv
  <2> QED  BY <1>1, <1>2, <2>4, <2>5, QueueConcat DEF WakeInv
<1> QED  BY <1>1, <1>4, <1>5, <1>6, <1>7 DEF IInv, TypeOK

\* A step that changes nothing.
LEMMA Stuttering ==
  ASSUME IInv, UNCHANGED vars
  PROVE  IInv'
BY DEF vars, IInv, TypeOK, CheckInv, CheckOK, LastInv, RemovalInv, RemovalOK,
       WakeInv, EndedIds

\* Every step keeps the invariant.
LEMMA NextIInv ==
  ASSUME IInv, [Next]_vars
  PROVE  IInv'
<1>1. CASE Loop
  BY <1>1, SubmitIInv, NewCheckIInv, CheckAndRemoveIInv, WakeIInv DEF Loop
<1>2. ASSUME NEW c \in CheckIds, PingTimeout(c)
      PROVE  IInv'
  BY <1>2, PingTimeoutIInv
<1>3. ASSUME NEW c \in CheckIds, NEW b \in BOOLEAN, ConnectEnds(c, b)
      PROVE  IInv'
  BY <1>3, EndCheckIInv DEF ConnectEnds
<1>4. ASSUME NEW c \in CheckIds, MsgArrived(c)
      PROVE  IInv'
  BY <1>4, EndCheckIInv DEF MsgArrived
<1>5. ASSUME NEW o \in Objects, NEW s \in {"online", "offline"}, AddContact(o, s)
      PROVE  IInv'
  BY <1>5, AddContactIInv
<1>6. ASSUME NEW o \in Objects, NEW r \in Removals, RemovePeer(r, o)
      PROVE  IInv'
  BY <1>6, RemovePeerIInv
<1>7. CASE Exit
  BY <1>7, ExitIInv
<1>8. CASE Tick \/ GroupExits
  BY <1>8, TickIInv, GroupExitsIInv
<1>9. CASE Finished \/ UNCHANGED vars
  BY <1>9, Stuttering DEF Finished
<1> QED  BY <1>1, <1>2, <1>3, <1>4, <1>5, <1>6, <1>7, <1>8, <1>9 DEF Next, EventLoop, Timers

-----------------------------------------------------------------------------
(* The theorems *)

\* IInv holds throughout.
LEMMA Invariance == Spec => []IInv
<1>1. Init => IInv
  BY InitIInv
<1>2. IInv /\ [Next]_vars => IInv'
  BY NextIInv
<1> QED  BY <1>1, <1>2, PTL DEF Spec

\* The state of connectivity.py and of the removals in peers.py keeps its types.
THEOREM TypesCorrect == Spec => []TypeOK
<1>1. IInv => TypeOK
  BY DEF IInv
<1> QED  BY <1>1, Invariance, PTL

\* What FreshVerdict says of one step and one removal.
Fresh(r) ==
  removals[r].state # "offline" /\ removals'[r].state = "offline" =>
    /\ removals[r].state = "waiting"
    /\ Blamed(r).state = "completed" /\ ~Blamed(r).succeeded
    /\ Blamed(r).peer = PeerOf(removals[r].obj)
    /\ Blamed(r).failedAt >= removals[r].asked

\* An ended check that is found recent never marks its peer offline.
LEMMA FoundIsNotOffline ==
  ASSUME IInv, NEW r \in Removals, NEW o \in Objects, NEW c, c = CheckForRecent(PeerOf(o)),
         c # NoCheck, checks[c].state \in Ended, Conclude({r}, {o}, c), NEW q \in Removals
  PROVE  Fresh(q)
<1>1. Outcome(c) \in Verdicts /\ Outcome(c) # "offline"
  BY Recent, ObjectsOfPeers, OutcomeType
<1>2. Over(Outcome(c)).state # "offline"
  BY <1>1, OverType
<1>3. removals'[q] = IF q \in {r} THEN Over(Outcome(c)) ELSE removals[q]
  BY DEF Conclude
<1> QED  BY <1>2, <1>3 DEF Fresh

\* A removal that is refused or goes on waiting is not concluded.
LEMMA OthersAreNotOffline ==
  ASSUME IInv, NEW r \in Removals, NEW q \in Removals,
         \/ Refused(r)
         \/ \E o, asked, c : \E s \in {"spawned", "waiting"} : Await(r, o, asked, s, c)
  PROVE  Fresh(q)
<1>1. removals \in [Removals -> Removal]
  BY DEF IInv, TypeOK
<1>2. CASE Refused(r)
  BY <1>1, <1>2, OverType DEF Refused, Verdicts, Fresh
<1>3. ASSUME NEW o, NEW asked, NEW c, NEW s \in {"spawned", "waiting"},
             Await(r, o, asked, s, c)
      PROVE  Fresh(q)
  <2>1. removals'[q] = IF q = r THEN [obj |-> o, asked |-> asked, fut |-> c, state |-> s]
                                ELSE removals[q]
    BY <1>1, <1>3 DEF Await
  <2> QED  BY <2>1 DEF Fresh
<1> QED  BY <1>2, <1>3

\* The check that wakes a removal failed after its own timeout, and it was asked
\* for less than that before the removal.
LEMMA WakeIsFresh ==
  ASSUME IInv, Wake, NEW q \in Removals
  PROVE  Fresh(q)
<1> SUFFICES ASSUME removals[q].state # "offline", removals'[q].state = "offline"
             PROVE  /\ removals[q].state = "waiting"
                    /\ Blamed(q).state = "completed" /\ ~Blamed(q).succeeded
                    /\ Blamed(q).peer = PeerOf(removals[q].obj)
                    /\ Blamed(q).failedAt >= removals[q].asked
  BY DEF Fresh
<1>1. PICK c \in EndedIds : c = Callback
  BY HeadCallback DEF Wake
<1>2. /\ removals[q].state = "waiting" /\ removals[q].fut = c
      /\ removals'[q] = Over(Outcome(c))
  BY <1>1 DEF Wake, Conclude
<1>3. Outcome(c) = "offline" /\ c \in CheckIds
  BY <1>2, OverType, OutcomeType DEF EndedIds
<1>4. checks[c].state = "completed" /\ ~checks[c].succeeded
  BY <1>1, <1>3 DEF Outcome, EndedIds, Ended
<1>5. checks[c] \in Check /\ removals[q] \in Removal /\ CheckOK(c) /\ RemovalOK(q)
  BY <1>3 DEF IInv, TypeOK, CheckInv, RemovalInv
<1>6. /\ checks[c].stamp \in Nat /\ checks[c].failedAt \in Nat /\ removals[q].asked \in Nat
  BY <1>5 DEF Check, Removal
<1>7. /\ checks[c].peer = PeerOf(removals[q].obj)
      /\ removals[q].asked <= checks[c].stamp + PING_TIME_CHECK_WINDOW
  BY <1>2, <1>5 DEF RemovalOK
<1>8. checks[c].failedAt >= checks[c].stamp + PING_TIMEOUT
  BY <1>4, <1>5 DEF CheckOK
<1>9. checks[c].failedAt >= removals[q].asked
  BY <1>6, <1>7, <1>8, TimesAssumption
<1> QED  BY <1>2, <1>4, <1>7, <1>9 DEF Blamed

\* Every step satisfies FreshVerdict.
LEMMA NextIsFresh ==
  ASSUME IInv, [Next]_vars, NEW q \in Removals
  PROVE  Fresh(q)
<1>1. ASSUME UNCHANGED removals
      PROVE  Fresh(q)
  BY <1>1 DEF Fresh
<1>2. CASE Wake
  BY <1>2, WakeIsFresh
<1>3. CASE CheckAndRemove
  <2>1. PICK r \in Removals : r = Callback
    BY <1>3, HeadCallback DEF CheckAndRemove
  <2>2. PICK o \in Objects : o = removals[r].obj
    BY <1>3, <2>1 DEF CheckAndRemove, IInv, RemovalInv, RemovalOK
  <2>3. PICK c : c = CheckForRecent(PeerOf(o))
    OBVIOUS
  <2>4. \/ c # NoCheck /\ checks[c].state \in Ended /\ Conclude({r}, {o}, c)
        \/ Refused(r)
        \/ \E asked, d : Await(r, o, asked, "waiting", d)
    BY <1>3, <2>1, <2>2, <2>3 DEF CheckAndRemove
  <2> QED  BY <2>3, <2>4, FoundIsNotOffline, OthersAreNotOffline
<1>4. ASSUME NEW o \in Objects, NEW r \in Removals, RemovePeer(r, o)
      PROVE  Fresh(q)
  <2>1. PICK c : c = CheckForRecent(PeerOf(o))
    OBVIOUS
  <2>2. \/ c # NoCheck /\ checks[c].state \in Ended /\ Conclude({r}, {o}, c)
        \/ Refused(r)
        \/ Await(r, o, now, "spawned", NoCheck)
    BY <1>4, <2>1 DEF RemovePeer
  <2> QED  BY <2>1, <2>2, FoundIsNotOffline, OthersAreNotOffline
<1>5. CASE Submit \/ NewCheck \/ Tick \/ GroupExits \/ Exit \/ Finished \/ UNCHANGED vars
  BY <1>1, <1>5 DEF Submit, NewCheck, Tick, GroupExits, Exit, Finished, vars
<1>6. ASSUME NEW c \in CheckIds,
             MsgArrived(c) \/ PingTimeout(c) \/ \E b \in BOOLEAN : ConnectEnds(c, b)
      PROVE  Fresh(q)
  BY <1>1, <1>6 DEF MsgArrived, PingTimeout, ConnectEnds
<1>7. ASSUME NEW o \in Objects, NEW s \in {"online", "offline"}, AddContact(o, s)
      PROVE  Fresh(q)
  BY <1>1, <1>7 DEF AddContact
<1> QED  BY <1>2, <1>3, <1>4, <1>5, <1>6, <1>7 DEF Next, EventLoop, Loop, Timers

\* "If peer is reachable then it is not removed" (core/peers.py): a removal that
\* marks a peer offline does so for a failure to reach that peer which was seen
\* after the removal was asked, whatever check it shares, because the window in
\* which checks are shared is shorter than the ping's timeout.
THEOREM VerdictsAreFresh == Spec => FreshVerdict
<1>1. IInv /\ [Next]_vars =>
        [\A r \in Removals :
           removals[r].state # "offline" /\ removals'[r].state = "offline" =>
             /\ removals[r].state = "waiting"
             /\ Blamed(r).state = "completed" /\ ~Blamed(r).succeeded
             /\ Blamed(r).peer = PeerOf(removals[r].obj)
             /\ Blamed(r).failedAt >= removals[r].asked]_vars
  BY NextIsFresh DEF Fresh
<1> QED  BY <1>1, Invariance, PTL DEF Spec, FreshVerdict

-----------------------------------------------------------------------------
(* One check for each removal *)

\* Checks asked for at this instant, peers with a check to share, removals that
\* would find one (or no longer look), and the checks that will serve a removal
\* once they are submitted.
AskedNow == {c \in CheckIds : checks[c].state # "none" /\ checks[c].stamp = now}
Shared == {p \in Peers : /\ lastChecked[p] # NoCheck
                         /\ now - checks[lastChecked[p]].stamp <= PING_TIME_CHECK_WINDOW}
Settled == {r \in Removals : /\ removals[r].state # "idle"
                             /\ removals[r].state = "spawned" => PeerOf(removals[r].obj) \in Shared}
Serves == {m \in CheckIds \X Removals :
             /\ checks[m[1]].state # "none" /\ removals[m[2]].state = "spawned"
             /\ checks[m[1]].peer = PeerOf(removals[m[2]].obj)}

\* Every submit in the queue belongs to this instant, since time passes only when
\* the queue is empty, and ahead of a removal that would find no check stands the
\* submit of one that serves it.
QueueOK(q, T, N, M) ==
  \A i \in 1..Len(q) :
    /\ q[i][1] = "submit" => q[i][2] \in T
    /\ q[i][1] = "waiter" /\ q[i][2] \notin N =>
         \E j \in 1..(i - 1) : q[j][1] = "submit" /\ <<q[j][2], q[i][2]>> \in M
QueueInv == QueueOK(ready, AskedNow, Settled, Serves)

\* An object in Dock.peer_list stands for the peer it is listed under.
ListInv == \A p \in Peers : peerList[p] # NoObject => PeerOf(peerList[p]) = p

\* Removals that settle, and checks that go on serving the others.
LEMMA OKGrows ==
  ASSUME NEW q, NEW T, NEW N, NEW M, QueueOK(q, T, N, M), NEW T2, NEW N2, NEW M2,
         T \subseteq T2, N \subseteq N2, \A d, r : <<d, r>> \in M => r \in N2 \/ <<d, r>> \in M2
  PROVE  QueueOK(q, T2, N2, M2)
BY DEF QueueOK

\* A callback that runs: what is behind a submit loses it, unless it has settled.
LEMMA OKTail ==
  ASSUME NEW q \in Seq(Callbacks), q # <<>>, NEW T, NEW N, NEW M, QueueOK(q, T, N, M),
         Head(q)[1] = "submit" => \A r : <<Head(q)[2], r>> \in M => r \in N
  PROVE  /\ QueueOK(Tail(q), T, N, M)
         /\ Head(q)[1] = "submit" => Head(q)[2] \in T
         /\ Head(q)[1] = "waiter" => Head(q)[2] \in N
<1>1. /\ Tail(q) \in Seq(Callbacks) /\ Len(Tail(q)) = Len(q) - 1
      /\ \A i \in 1..Len(Tail(q)) : Tail(q)[i] = q[i + 1]
  OBVIOUS
<1>2. Len(q) \in Nat /\ Len(q) > 0 /\ Head(q) = q[1]
  OBVIOUS
<1>3. ASSUME NEW i \in 1..Len(Tail(q))
      PROVE  /\ Tail(q)[i][1] = "submit" => Tail(q)[i][2] \in T
             /\ Tail(q)[i][1] = "waiter" /\ Tail(q)[i][2] \notin N =>
                  \E j \in 1..(i - 1) : /\ Tail(q)[j][1] = "submit"
                                        /\ <<Tail(q)[j][2], Tail(q)[i][2]>> \in M
  <2>1. i + 1 \in 1..Len(q) /\ Tail(q)[i] = q[i + 1] /\ i \in Nat /\ (i + 1) - 1 = i
    BY <1>1, <1>2
  <2>2. q[i + 1][1] = "submit" => q[i + 1][2] \in T
    BY <2>1 DEF QueueOK
  <2>3. ASSUME q[i + 1][1] = "waiter", q[i + 1][2] \notin N
        PROVE  \E j \in 1..(i - 1) : /\ Tail(q)[j][1] = "submit"
                                     /\ <<Tail(q)[j][2], Tail(q)[i][2]>> \in M
    <3>1. PICK k \in 1..i : q[k][1] = "submit" /\ <<q[k][2], q[i + 1][2]>> \in M
      BY <2>1, <2>3 DEF QueueOK
    <3>2. k # 1
      BY <1>2, <2>3, <3>1
    <3>3. k - 1 \in 1..(i - 1) /\ Tail(q)[k - 1] = q[k]
      BY <1>1, <2>1, <3>2
    <3> QED  BY <2>1, <3>1, <3>3
  <2> QED  BY <2>1, <2>2, <2>3
<1>4. /\ q[1][1] = "submit" => q[1][2] \in T
      /\ q[1][1] = "waiter" => q[1][2] \in N
  <2>1. 1 \in 1..Len(q) /\ \A j : j \notin 1..(1 - 1)
    BY <1>2
  <2> QED  BY <2>1 DEF QueueOK
<1> QED  BY <1>2, <1>3, <1>4 DEF QueueOK

\* Callbacks put into the queue, each in order with what is ahead of it there.
LEMMA OKConcat ==
  ASSUME NEW q \in Seq(Callbacks), NEW t \in Seq(Callbacks), NEW T, NEW N, NEW M,
         QueueOK(q, T, N, M), QueueOK(t, T, N, M)
  PROVE  QueueOK(q \o t, T, N, M)
<1>1. q \o t \in Seq(Callbacks) /\ Len(q \o t) = Len(q) + Len(t)
  OBVIOUS
<1>2. Len(q) \in Nat /\ Len(t) \in Nat
  OBVIOUS
<1>3. /\ \A i \in 1..Len(q) : (q \o t)[i] = q[i]
      /\ \A i \in 1..Len(t) : (q \o t)[Len(q) + i] = t[i]
  OBVIOUS
<1>4. ASSUME NEW i \in 1..Len(q \o t)
      PROVE  /\ (q \o t)[i][1] = "submit" => (q \o t)[i][2] \in T
             /\ (q \o t)[i][1] = "waiter" /\ (q \o t)[i][2] \notin N =>
                  \E j \in 1..(i - 1) : /\ (q \o t)[j][1] = "submit"
                                        /\ <<(q \o t)[j][2], (q \o t)[i][2]>> \in M
  <2>1. CASE i \in 1..Len(q)
    <3>1. \A j \in 1..i : (q \o t)[j] = q[j]
      BY <1>2, <1>3, <2>1
    <3>2. (q \o t)[i] = q[i] /\ \A j \in 1..(i - 1) : (q \o t)[j] = q[j]
      BY <2>1, <3>1
    <3> QED  BY <2>1, <3>2 DEF QueueOK
  <2>2. CASE i \notin 1..Len(q)
    <3>1. PICK k \in 1..Len(t) : i = Len(q) + k
      <4>1. i - Len(q) \in 1..Len(t) /\ i = Len(q) + (i - Len(q))
        BY <1>1, <1>2, <2>2
      <4> QED  BY <4>1
    <3>2. (q \o t)[i] = t[k]
      BY <1>3, <3>1
    <3>3. t[k][1] = "submit" => t[k][2] \in T
      BY DEF QueueOK
    <3>4. ASSUME t[k][1] = "waiter", t[k][2] \notin N
          PROVE  \E j \in 1..(i - 1) : /\ (q \o t)[j][1] = "submit"
                                       /\ <<(q \o t)[j][2], t[k][2]>> \in M
      <4>1. PICK j \in 1..(k - 1) : t[j][1] = "submit" /\ <<t[j][2], t[k][2]>> \in M
        BY <3>4 DEF QueueOK
      <4>2. Len(q) + j \in 1..(i - 1) /\ (q \o t)[Len(q) + j] = t[j]
        BY <1>2, <1>3, <3>1
      <4> QED  BY <4>1, <4>2
    <3> QED  BY <3>2, <3>3, <3>4
  <2> QED  BY <2>1, <2>2
<1> QED  BY <1>4 DEF QueueOK

\* One callback behind the others.
LEMMA OKAppend ==
  ASSUME NEW q \in Seq(Callbacks), NEW x \in Callbacks, NEW T, NEW N, NEW M,
         QueueOK(q, T, N, M), x[1] = "submit" => x[2] \in T, x[1] = "waiter" => x[2] \in N
  PROVE  QueueOK(Append(q, x), T, N, M)
<1>1. PICK t : t = <<x>>
  OBVIOUS
<1>2. t \in Seq(Callbacks) /\ Len(t) = 1 /\ t[1] = x
  BY <1>1
<1>3. QueueOK(t, T, N, M)
  BY <1>2 DEF QueueOK
<1>4. Append(q, x) = q \o t
  BY <1>1
<1> QED  BY <1>2, <1>3, <1>4, OKConcat

\* The submit of a new check and the removal it was made for.
LEMMA OKTwo ==
  ASSUME NEW q \in Seq(Callbacks), NEW x \in Callbacks, NEW y \in Callbacks, NEW T, NEW N, NEW M,
         QueueOK(q, T, N, M), x[1] = "submit", x[2] \in T, y[1] = "waiter", <<x[2], y[2]>> \in M
  PROVE  QueueOK(q \o <<x, y>>, T, N, M)
<1>1. PICK t : t = <<x, y>>
  OBVIOUS
<1>2. t \in Seq(Callbacks) /\ Len(t) = 2 /\ t[1] = x /\ t[2] = y
  BY <1>1
<1>3. QueueOK(t, T, N, M)
  <2>1. \A i \in 1..2 : i = 1 \/ (i = 2 /\ 1 \in 1..(i - 1))
    OBVIOUS
  <2> QED  BY <1>2, <2>1 DEF QueueOK
<1> QED  BY <1>1, <1>2, <1>3, OKConcat

\* A step within an instant, that makes no check over and moves no removal back.
LEMMA InstantKeeps ==
  ASSUME IInv, UNCHANGED now,
         \A p \in Peers : \/ lastChecked'[p] = lastChecked[p]
                          \/ lastChecked'[p] \in AskedNow,
         \A c \in CheckIds : checks[c].state # "none" =>
           /\ checks'[c].state # "none"
           /\ checks'[c].stamp = checks[c].stamp /\ checks'[c].peer = checks[c].peer,
         \A r \in Removals : removals[r].state # "idle" =>
           /\ removals'[r].state # "idle"
           /\ removals'[r].state = "spawned" =>
                removals[r].state = "spawned" /\ removals'[r].obj = removals[r].obj
  PROVE  /\ AskedNow \subseteq AskedNow' /\ Shared \subseteq Shared'
         /\ Settled \subseteq Settled'
         /\ \A d, r : <<d, r>> \in Serves => r \in Settled' \/ <<d, r>> \in Serves'
<1>1. AskedNow \subseteq AskedNow'
  BY DEF AskedNow
<1>2. Shared \subseteq Shared'
  <2> SUFFICES ASSUME NEW p \in Shared PROVE p \in Shared'
    OBVIOUS
  <2>1. /\ p \in Peers /\ lastChecked[p] # NoCheck
        /\ now - checks[lastChecked[p]].stamp <= PING_TIME_CHECK_WINDOW
    BY DEF Shared
  <2>2. CASE lastChecked'[p] = lastChecked[p]
    <3>1. lastChecked[p] \in CheckIds /\ checks[lastChecked[p]].state # "none"
      BY <2>1 DEF IInv, TypeOK, LastInv
    <3> QED  BY <2>1, <2>2, <3>1 DEF Shared
  <2>3. CASE lastChecked'[p] \in AskedNow
    <3>1. /\ lastChecked'[p] \in CheckIds /\ checks'[lastChecked'[p]].stamp = now
          /\ now \in Nat
      BY <2>3 DEF AskedNow, IInv, TypeOK
    <3>2. lastChecked'[p] # NoCheck
      BY <3>1 DEF CheckIds, NoCheck
    <3> QED  BY <2>1, <3>1, <3>2, TimesAssumption DEF Shared
  <2> QED  BY <2>1, <2>2, <2>3
<1>3. Settled \subseteq Settled'
  BY <1>2 DEF Settled
<1>4. ASSUME NEW d, NEW r, <<d, r>> \in Serves
      PROVE  r \in Settled' \/ <<d, r>> \in Serves'
  <2>1. /\ d \in CheckIds /\ r \in Removals /\ checks[d].state # "none"
        /\ removals[r].state = "spawned" /\ checks[d].peer = PeerOf(removals[r].obj)
    BY <1>4 DEF Serves
  <2>2. CASE removals'[r].state = "spawned"
    BY <2>1, <2>2 DEF Serves
  <2>3. CASE removals'[r].state # "spawned"
    BY <2>1, <2>3 DEF Settled
  <2> QED  BY <2>2, <2>3
<1> QED  BY <1>1, <1>2, <1>3, <1>4

\* The callback that runs next, in the order of the queue.
LEMMA HeadOK ==
  ASSUME IInv, QueueInv, ready # <<>>,
         Head(ready)[1] = "submit" => \A r : <<Callback, r>> \in Serves => r \in Settled
  PROVE  /\ QueueOK(Tail(ready), AskedNow, Settled, Serves) /\ Tail(ready) \in Seq(Callbacks)
         /\ Head(ready)[1] = "submit" => Callback \in AskedNow
         /\ Head(ready)[1] = "waiter" => Callback \in Settled
<1>1. ready \in Seq(Callbacks)
  BY DEF IInv, TypeOK
<1>2. Tail(ready) \in Seq(Callbacks)
  BY <1>1
<1> QED  BY <1>1, <1>2, OKTail DEF QueueInv, Callback

\* When check_and_remove_if_needed asks, a check to share is recorded.
LEMMA FindsCheck ==
  ASSUME IInv, QueueInv, Runs("waiter"), removals[Callback].state = "spawned"
  PROVE  CheckForRecent(PeerOf(removals[Callback].obj)) # NoCheck
<1>1. Callback \in Settled
  BY HeadOK DEF Runs
<1>2. PeerOf(removals[Callback].obj) \in Shared
  BY <1>1 DEF Settled
<1> QED  BY <1>2 DEF Shared, CheckForRecent

\* Connectivity.submit: the removals that this check serves now find it.
LEMMA SubmitQueue ==
  ASSUME IInv, QueueInv, Submit
  PROVE  QueueInv'
<1>1. PICK c \in CheckIds : c = Callback
  BY HeadCallback DEF Submit
<1>2. /\ checks \in [CheckIds -> Check] /\ checks[c] \in Check /\ now \in Nat
      /\ ready \in Seq(Callbacks)
      /\ lastChecked \in [Peers -> CheckIds \cup {NoCheck}] /\ CheckOK(c)
  BY DEF IInv, TypeOK, CheckInv
<1>3. /\ checks' = [checks EXCEPT ![c].state = "initiated"] /\ checks[c].state = "queued"
      /\ lastChecked' = [lastChecked EXCEPT ![checks[c].peer] = c]
      /\ ready' = Append(Tail(ready), <<"check", c>>)
      /\ ready # <<>> /\ Head(ready)[1] = "submit"
      /\ UNCHANGED <<now, removals>>
  BY <1>1 DEF Submit, Runs
<1>4. c \in AskedNow
  <2>1. Head(ready) = ready[1] /\ 1 \in 1..Len(ready)
    BY <1>2, <1>3
  <2> QED  BY <1>1, <1>3, <2>1 DEF QueueInv, QueueOK, Callback
<1>5. /\ checks'[c].state = "initiated" /\ checks'[c].stamp = checks[c].stamp
      /\ checks'[c].peer = checks[c].peer
      /\ \A d \in CheckIds : d # c => checks'[d] = checks[d]
  BY <1>2, <1>3 DEF Check
<1>6. \A p \in Peers : lastChecked'[p] = lastChecked[p] \/ lastChecked'[p] \in AskedNow
  BY <1>2, <1>3, <1>4
<1>7. /\ AskedNow \subseteq AskedNow' /\ Settled \subseteq Settled'
      /\ \A d, r : <<d, r>> \in Serves => r \in Settled' \/ <<d, r>> \in Serves'
  BY <1>3, <1>5, <1>6, InstantKeeps
<1>8. \A r : <<c, r>> \in Serves' => r \in Settled'
  <2> SUFFICES ASSUME NEW r, <<c, r>> \in Serves' PROVE r \in Settled'
    OBVIOUS
  <2>1. /\ r \in Removals /\ removals[r].state = "spawned"
        /\ checks[c].peer = PeerOf(removals[r].obj)
    BY <1>3, <1>5 DEF Serves
  <2>2. checks[c].peer \in Peers /\ lastChecked'[checks[c].peer] = c
    BY <1>2, <1>3 DEF CheckOK
  <2>3. checks'[c].stamp = now /\ c # NoCheck
    <3>1. checks'[c].stamp = now
      BY <1>4, <1>5 DEF AskedNow
    <3>2. c # NoCheck
      BY DEF CheckIds, NoCheck
    <3> QED  BY <3>1, <3>2
  <2>4. checks[c].peer \in Shared'
    BY <1>2, <1>3, <2>2, <2>3, TimesAssumption DEF Shared
  <2> QED  BY <1>3, <2>1, <2>4 DEF Settled
<1>9. QueueOK(ready, AskedNow', Settled', Serves')
  BY <1>7, OKGrows DEF QueueInv
<1>10. QueueOK(Tail(ready), AskedNow', Settled', Serves') /\ Tail(ready) \in Seq(Callbacks)
  BY <1>1, <1>2, <1>3, <1>8, <1>9, OKTail DEF Callback
<1> QED  BY <1>3, <1>10, OKAppend, CallbackMembers DEF QueueInv

\* The queue when one running check moves on or ends.
LEMMA CheckQueue ==
  ASSUME IInv, QueueInv, NewCheck \/ \E c \in CheckIds : \/ MsgArrived(c) \/ PingTimeout(c)
                                                        \/ \E b \in BOOLEAN : ConnectEnds(c, b)
  PROVE  QueueInv'
<1>0. checks \in [CheckIds -> Check] /\ ready \in Seq(Callbacks)
  BY DEF IInv, TypeOK
<1>1. CASE NewCheck
  <2>1. PICK c \in CheckIds : c = Callback
    BY <1>1, HeadCallback DEF NewCheck
  <2>2. /\ ready # <<>> /\ Head(ready)[1] = "check" /\ UNCHANGED <<now, lastChecked, removals>>
    BY <1>1 DEF NewCheck, Runs
  <2>3. QueueOK(Tail(ready), AskedNow, Settled, Serves) /\ Tail(ready) \in Seq(Callbacks)
    BY <2>2, HeadOK
  <2>4. PICK s \in {"req_check", "cancelled"}, x \in Nat :
          checks' = [checks EXCEPT ![c].state = s, ![c].deadline = x]
    <3>1. Deadline \in Nat
      BY TimesAssumption DEF IInv, TypeOK, Deadline
    <3> QED  BY <1>1, <2>1, <3>1 DEF NewCheck
  <2>5. \A d \in CheckIds : checks[d].state # "none" =>
          /\ checks'[d].state # "none"
          /\ checks'[d].stamp = checks[d].stamp /\ checks'[d].peer = checks[d].peer
    BY <1>0, <2>4 DEF Check
  <2>6. /\ AskedNow \subseteq AskedNow' /\ Settled \subseteq Settled'
        /\ \A d, r : <<d, r>> \in Serves => r \in Settled' \/ <<d, r>> \in Serves'
    BY <2>2, <2>5, InstantKeeps
  <2>7. QueueOK(Tail(ready), AskedNow', Settled', Serves')
    BY <2>3, <2>6, OKGrows
  <2>8. ready' = Tail(ready) \/ ready' = Append(Tail(ready), <<"wake", c>>)
    BY <1>1, <2>1 DEF NewCheck
  <2> QED  BY <2>3, <2>7, <2>8, OKAppend, CallbackMembers DEF QueueInv
<1>2. ASSUME NEW c \in CheckIds, PingTimeout(c) PROVE QueueInv'
  <2>1. \A d \in CheckIds : checks[d].state # "none" =>
          /\ checks'[d].state # "none"
          /\ checks'[d].stamp = checks[d].stamp /\ checks'[d].peer = checks[d].peer
    BY <1>0, <1>2 DEF PingTimeout, Check
  <2>2. /\ AskedNow \subseteq AskedNow' /\ Settled \subseteq Settled'
        /\ \A d, r : <<d, r>> \in Serves => r \in Settled' \/ <<d, r>> \in Serves'
    BY <1>2, <2>1, InstantKeeps DEF PingTimeout
  <2> QED  BY <1>2, <2>2, OKGrows DEF PingTimeout, QueueInv
<1>3. ASSUME NEW c \in CheckIds, NEW b \in BOOLEAN, EndCheck(c, b),
             UNCHANGED <<now, lastChecked, removals>>
      PROVE  QueueInv'
  <2>1. \A d \in CheckIds : checks[d].state # "none" =>
          /\ checks'[d].state # "none"
          /\ checks'[d].stamp = checks[d].stamp /\ checks'[d].peer = checks[d].peer
    BY <1>0, <1>3 DEF EndCheck, Check
  <2>2. /\ AskedNow \subseteq AskedNow' /\ Settled \subseteq Settled'
        /\ \A d, r : <<d, r>> \in Serves => r \in Settled' \/ <<d, r>> \in Serves'
    BY <1>3, <2>1, InstantKeeps
  <2>3. QueueOK(ready, AskedNow', Settled', Serves')
    BY <2>2, OKGrows DEF QueueInv
  <2> QED  BY <1>0, <1>3, <2>3, OKAppend, CallbackMembers DEF EndCheck, QueueInv
<1> QED  BY <1>1, <1>2, <1>3 DEF MsgArrived, ConnectEnds

\* Removals that get their outcome, or are refused, no longer look for a check.
LEMMA OverKeeps ==
  ASSUME IInv, NEW rs, NEW s \in Verdicts, UNCHANGED <<now, lastChecked, checks>>,
         \A r \in Removals : r \notin rs => removals'[r] = removals[r],
         \A r \in Removals : r \in rs => removals'[r] = Over(s)
  PROVE  /\ AskedNow \subseteq AskedNow' /\ Settled \subseteq Settled'
         /\ \A d, r : <<d, r>> \in Serves => r \in Settled' \/ <<d, r>> \in Serves'
<1>1. Over(s).state = s /\ s \notin {"idle", "spawned"}
  BY OverType DEF Verdicts
<1>2. \A r \in Removals : removals[r].state # "idle" =>
        /\ removals'[r].state # "idle"
        /\ removals'[r].state = "spawned" =>
             removals[r].state = "spawned" /\ removals'[r].obj = removals[r].obj
  BY <1>1
<1> QED  BY <1>2, InstantKeeps

\* Wake: those who await a check are not in the queue.
LEMMA WakeQueue ==
  ASSUME IInv, QueueInv, Wake
  PROVE  QueueInv'
<1> DEFINE waiting == {r \in Removals : removals[r].state = "waiting" /\ removals[r].fut = Callback}
<1>1. /\ ready # <<>> /\ Head(ready)[1] = "wake" /\ ready' = Tail(ready)
      /\ UNCHANGED <<now, checks, lastChecked>>
      /\ removals' = [r \in Removals |-> IF r \in waiting THEN Over(Outcome(Callback)) ELSE removals[r]]
  BY DEF Wake, Runs, Conclude
<1> HIDE DEF waiting
<1>2. QueueOK(Tail(ready), AskedNow, Settled, Serves)
  BY <1>1, HeadOK
<1>3. /\ \A r \in Removals : r \notin waiting => removals'[r] = removals[r]
      /\ \A r \in Removals : r \in waiting => removals'[r] = Over(Outcome(Callback))
  BY <1>1
<1>4. /\ AskedNow \subseteq AskedNow' /\ Settled \subseteq Settled'
      /\ \A d, r : <<d, r>> \in Serves => r \in Settled' \/ <<d, r>> \in Serves'
  BY <1>1, <1>3, OutcomeType, OverKeeps
<1> QED  BY <1>1, <1>2, <1>4, OKGrows DEF QueueInv

\* check_and_remove_if_needed shares a check, so it puts nothing into the queue.
LEMMA CheckAndRemoveQueue ==
  ASSUME IInv, QueueInv, CheckAndRemove
  PROVE  QueueInv' /\ UNCHANGED checks
<1>1. PICK r \in Removals : r = Callback
  BY HeadCallback DEF CheckAndRemove
<1>2. /\ ready # <<>> /\ Head(ready)[1] = "waiter" /\ removals[r].state = "spawned"
      /\ Runs("waiter") /\ UNCHANGED <<now, lastChecked>>
  BY <1>1 DEF CheckAndRemove, Runs
<1>3. PICK c : c = CheckForRecent(PeerOf(removals[r].obj)) /\ c # NoCheck
  BY <1>1, <1>2, FindsCheck
<1>4. /\ ready' = Tail(ready) /\ UNCHANGED checks
      /\ \/ Conclude({r}, {removals[r].obj}, c)
         \/ Await(r, removals[r].obj, removals[r].asked, "waiting", c)
  BY <1>1, <1>3 DEF CheckAndRemove
<1>5. QueueOK(Tail(ready), AskedNow, Settled, Serves)
  BY <1>2, HeadOK
<1>6. /\ AskedNow \subseteq AskedNow' /\ Settled \subseteq Settled'
      /\ \A d, q : <<d, q>> \in Serves => q \in Settled' \/ <<d, q>> \in Serves'
  <2>1. CASE Conclude({r}, {removals[r].obj}, c)
    <3>1. removals' = [q \in Removals |-> IF q \in {r} THEN Over(Outcome(c)) ELSE removals[q]]
      BY <2>1 DEF Conclude
    <3>2. /\ \A q \in Removals : q \notin {r} => removals'[q] = removals[q]
          /\ \A q \in Removals : q \in {r} => removals'[q] = Over(Outcome(c))
      BY <3>1
    <3> QED  BY <1>2, <1>4, <3>2, OutcomeType, OverKeeps
  <2>2. CASE Await(r, removals[r].obj, removals[r].asked, "waiting", c)
    <3>1. removals \in [Removals -> Removal]
      BY DEF IInv, TypeOK
    <3>2. \A q \in Removals : IF q = r THEN removals'[q].state = "waiting"
                              ELSE removals'[q] = removals[q]
      BY <2>2, <3>1 DEF Await
    <3>3. \A q \in Removals : removals[q].state # "idle" =>
            /\ removals'[q].state # "idle"
            /\ removals'[q].state = "spawned" =>
                 removals[q].state = "spawned" /\ removals'[q].obj = removals[q].obj
      BY <3>2
    <3> QED  BY <1>2, <1>4, <3>3, InstantKeeps
  <2> QED  BY <1>4, <2>1, <2>2
<1> QED  BY <1>4, <1>5, <1>6, OKGrows DEF QueueInv

\* remove_peer: the removal stands in the queue behind a recorded check or behind
\* the submit of its own.
LEMMA RemovePeerQueue ==
  ASSUME IInv, QueueInv, NEW r \in Removals, NEW o \in Objects, RemovePeer(r, o)
  PROVE  QueueInv' /\ \A c \in CheckIds : c # <<r, "remove_peer">> => checks'[c] = checks[c]
<1> DEFINE p == PeerOf(o)
           mine == <<r, "remove_peer">>
<1>0. /\ checks \in [CheckIds -> Check] /\ removals \in [Removals -> Removal]
      /\ ready \in Seq(Callbacks) /\ now \in Nat
  BY DEF IInv, TypeOK
<1>1. /\ removals[r].state = "idle" /\ UNCHANGED <<now, lastChecked>>
      /\ checks[mine].state = "none" /\ mine \in CheckIds /\ p \in Peers
  BY CheckNames, ObjectsOfPeers DEF RemovePeer, IInv, RemovalInv, RemovalOK
<1>2. CASE /\ (Refused(r) \/ \E c : Conclude({r}, {o}, c)) /\ UNCHANGED <<ready, checks>>
  <2>1. PICK s \in Verdicts : \A q \in Removals : removals'[q] = IF q \in {r} THEN Over(s) ELSE removals[q]
    <3>1. CASE Refused(r)
      BY <1>0, <3>1 DEF Refused, Verdicts
    <3>2. ASSUME NEW c, Conclude({r}, {o}, c)
          PROVE  \A q \in Removals : removals'[q] = IF q \in {r} THEN Over(Outcome(c)) ELSE removals[q]
      BY <3>2 DEF Conclude
    <3> QED  BY <1>2, <3>1, <3>2, OutcomeType
  <2>2. /\ \A q \in Removals : q \notin {r} => removals'[q] = removals[q]
        /\ \A q \in Removals : q \in {r} => removals'[q] = Over(s)
    BY <2>1
  <2>3. /\ AskedNow \subseteq AskedNow' /\ Settled \subseteq Settled'
        /\ \A d, q : <<d, q>> \in Serves => q \in Settled' \/ <<d, q>> \in Serves'
    BY <1>1, <1>2, <2>2, OverKeeps
  <2> QED  BY <1>2, <2>3, OKGrows DEF QueueInv
<1>3. ASSUME Await(r, o, now, "spawned", NoCheck), NEW b,
             checks' = [checks EXCEPT ![mine] = b], b \in Check,
             \/ b = checks[mine]
             \/ b.state # "none" /\ b.stamp = now /\ b.peer = p
      PROVE  /\ QueueOK(ready, AskedNow', Settled', Serves')
             /\ removals'[r].state = "spawned" /\ removals'[r].obj = o
             /\ Shared \subseteq Shared'
             /\ \A c \in CheckIds : c # mine => checks'[c] = checks[c]
             /\ b # checks[mine] => mine \in AskedNow' /\ <<mine, r>> \in Serves'
  <2>1. /\ removals'[r].state = "spawned" /\ removals'[r].obj = o
        /\ \A q \in Removals : q # r => removals'[q] = removals[q]
    BY <1>0, <1>3 DEF Await
  <2>2. /\ checks'[mine] = b
        /\ \A c \in CheckIds : c # mine => checks'[c] = checks[c]
    BY <1>0, <1>1, <1>3
  <2>3. \A c \in CheckIds : checks[c].state # "none" =>
          /\ checks'[c].state # "none"
          /\ checks'[c].stamp = checks[c].stamp /\ checks'[c].peer = checks[c].peer
    BY <1>1, <2>2
  <2>4. \A q \in Removals : removals[q].state # "idle" =>
          /\ removals'[q].state # "idle"
          /\ removals'[q].state = "spawned" =>
               removals[q].state = "spawned" /\ removals'[q].obj = removals[q].obj
    BY <1>1, <2>1
  <2>5. /\ AskedNow \subseteq AskedNow' /\ Settled \subseteq Settled' /\ Shared \subseteq Shared'
        /\ \A d, q : <<d, q>> \in Serves => q \in Settled' \/ <<d, q>> \in Serves'
    BY <1>1, <2>3, <2>4, InstantKeeps
  <2>6. QueueOK(ready, AskedNow', Settled', Serves')
    BY <2>5, OKGrows DEF QueueInv
  <2>7. b # checks[mine] => mine \in AskedNow' /\ <<mine, r>> \in Serves'
    BY <1>1, <1>3, <2>1, <2>2 DEF AskedNow, Serves
  <2> QED  BY <2>1, <2>2, <2>5, <2>6, <2>7
<1>4. CASE /\ CheckForRecent(p) # NoCheck /\ ready' = Append(ready, <<"waiter", r>>)
           /\ Await(r, o, now, "spawned", NoCheck) /\ UNCHANGED checks
  <2>1. checks' = [checks EXCEPT ![mine] = checks[mine]] /\ checks[mine] \in Check
    BY <1>0, <1>1, <1>4
  <2>2. /\ QueueOK(ready, AskedNow', Settled', Serves')
        /\ removals'[r].state = "spawned" /\ removals'[r].obj = o /\ Shared \subseteq Shared'
    BY <1>3, <1>4, <2>1
  <2>3. p \in Shared
    BY <1>1, <1>4 DEF CheckForRecent, Shared
  <2>4. r \in Settled'
    BY <2>2, <2>3 DEF Settled
  <2> QED  BY <1>0, <1>4, <2>2, <2>4, OKAppend, CallbackMembers DEF QueueInv
<1>5. CASE /\ Spawn(mine, p) /\ Await(r, o, now, "spawned", NoCheck)
           /\ ready' = ready \o << <<"submit", mine>>, <<"waiter", r>> >>
  <2>1. PICK b \in Check : /\ checks' = [checks EXCEPT ![mine] = b]
                           /\ b.state = "queued" /\ b.stamp = now /\ b.peer = p
    <3>1. PICK b : b = [checks[mine] EXCEPT !.state = "queued", !.peer = p, !.stamp = now]
      OBVIOUS
    <3>2. b \in Check /\ b.state = "queued" /\ b.stamp = now /\ b.peer = p
      BY <1>0, <1>1, <3>1 DEF Check
    <3>3. checks' = [checks EXCEPT ![mine] = b]
      BY <1>0, <1>5, <3>1 DEF Spawn
    <3> QED  BY <3>2, <3>3
  <2>2. b # checks[mine]
    BY <1>1, <2>1
  <2>3. /\ QueueOK(ready, AskedNow', Settled', Serves')
        /\ mine \in AskedNow' /\ <<mine, r>> \in Serves'
        /\ \A c \in CheckIds : c # mine => checks'[c] = checks[c]
    BY <1>3, <1>5, <2>1, <2>2
  <2>4. PICK x \in Callbacks, y \in Callbacks : x = <<"submit", mine>> /\ y = <<"waiter", r>>
    BY <1>1, CallbackMembers
  <2>5. QueueOK(ready \o <<x, y>>, AskedNow', Settled', Serves')
    BY <1>0, <2>3, <2>4, OKTwo
  <2> QED  BY <1>5, <2>3, <2>4, <2>5 DEF QueueInv
<1> QED  BY <1>2, <1>4, <1>5 DEF RemovePeer

\* __aexit__ puts only tasks of checks into the queue.
LEMMA ExitQueue ==
  ASSUME IInv, QueueInv, Exit
  PROVE  QueueInv' /\ \A c \in CheckIds : checks[c].state = "none" => checks'[c] = checks[c]
<1> DEFINE latest == {c \in CheckIds : \E p \in Peers : lastChecked[p] = c}
           cancelled == {c \in latest : checks[c].state \in Running}
           awaiting == SetToSeq({c \in cancelled : checks[c].state # "initiated"})
           woken == [i \in 1..Len(awaiting) |-> <<"check", awaiting[i]>>]
<1>1. /\ ready' = ready \o woken
      /\ checks' = [c \in CheckIds |-> IF c \in cancelled
                                         THEN [checks[c] EXCEPT !.state = "cancelling"]
                                         ELSE checks[c]]
      /\ UNCHANGED <<now, lastChecked, removals>>
  BY DEF Exit
<1>2. checks \in [CheckIds -> Check] /\ ready \in Seq(Callbacks)
  BY DEF IInv, TypeOK
<1>3. \A c \in CheckIds : /\ checks'[c].stamp = checks[c].stamp
                          /\ checks'[c].peer = checks[c].peer
                          /\ checks[c].state # "none" => checks'[c].state # "none"
                          /\ checks[c].state = "none" => checks'[c] = checks[c]
  <2> SUFFICES ASSUME NEW c \in CheckIds
               PROVE  /\ checks'[c].stamp = checks[c].stamp
                      /\ checks'[c].peer = checks[c].peer
                      /\ checks[c].state # "none" => checks'[c].state # "none"
                      /\ checks[c].state = "none" => checks'[c] = checks[c]
    OBVIOUS
  <2>1. CASE c \in cancelled
    <3>1. checks'[c] = [checks[c] EXCEPT !.state = "cancelling"] /\ checks[c].state # "none"
      BY <1>1, <2>1 DEF Running
    <3> QED  BY <1>2, <3>1 DEF Check
  <2>2. CASE c \notin cancelled
    BY <1>1, <2>2
  <2> QED  BY <2>1, <2>2
<1>4. /\ AskedNow \subseteq AskedNow' /\ Settled \subseteq Settled'
      /\ \A d, r : <<d, r>> \in Serves => r \in Settled' \/ <<d, r>> \in Serves'
  BY <1>1, <1>3, InstantKeeps
<1>5. QueueOK(ready, AskedNow', Settled', Serves')
  BY <1>4, OKGrows DEF QueueInv
<1>6. woken \in Seq(Callbacks) /\ \A i \in 1..Len(woken) : woken[i][1] = "check"
  <2>1. awaiting \in Seq(CheckIds)
    BY SequenceOfChecks
  <2> HIDE DEF awaiting
  <2>2. Len(awaiting) \in Nat /\ \A i \in 1..Len(awaiting) : awaiting[i] \in CheckIds
    BY <2>1
  <2>3. /\ woken \in [1..Len(awaiting) -> Callbacks]
        /\ \A i \in 1..Len(awaiting) : woken[i][1] = "check"
    BY <2>2, CallbackMembers
  <2> HIDE DEF woken
  <2>4. woken \in Seq(Callbacks)
    BY <2>2, <2>3
  <2>5. Len(woken) = Len(awaiting)
    BY <2>2, <2>3, <2>4
  <2> QED  BY <2>3, <2>4, <2>5
<1> HIDE DEF woken, cancelled
<1>7. QueueOK(woken, AskedNow', Settled', Serves')
  BY <1>6 DEF QueueOK
<1>8. QueueInv'
  BY <1>1, <1>2, <1>5, <1>6, <1>7, OKConcat DEF QueueInv
<1> QED  BY <1>3, <1>8

\* Every step keeps the order of the queue, and only remove_peer makes a check.
LEMMA NextQueue ==
  ASSUME IInv, QueueInv, [Next]_vars
  PROVE  /\ QueueInv'
         /\ \A r \in Removals : LET c == <<r, "check_and_remove_if_needed">>
                                IN  checks[c].state = "none" => checks'[c].state = "none"
<1>0. checks \in [CheckIds -> Check] /\ \A r \in Removals : <<r, "check_and_remove_if_needed">> \in CheckIds
  BY CheckNames DEF IInv, TypeOK
<1> SUFFICES QueueInv' /\ \A c \in CheckIds : /\ c[2] = "check_and_remove_if_needed"
                                              /\ checks[c].state = "none"
                                              => checks'[c].state = "none"
  BY <1>0
<1>1. CASE Submit
  <2>1. Callback \in CheckIds
    BY <1>1, HeadCallback DEF Submit
  <2>2. \A c \in CheckIds : checks[c].state = "none" => checks'[c].state = "none"
    BY <1>0, <1>1, <2>1 DEF Submit
  <2> QED  BY <1>1, <2>2, SubmitQueue
<1>2. CASE NewCheck
  <2>1. Callback \in CheckIds /\ checks[Callback].state # "none"
        /\ \A c \in CheckIds : c # Callback => checks'[c] = checks[c]
    BY <1>0, <1>2, HeadCallback DEF NewCheck
  <2> QED  BY <1>2, <2>1, CheckQueue
<1>3. CASE CheckAndRemove
  BY <1>3, CheckAndRemoveQueue
<1>4. CASE Wake
  BY <1>4, WakeQueue DEF Wake
<1>5. ASSUME NEW d \in CheckIds, MsgArrived(d) \/ PingTimeout(d) \/ \E b \in BOOLEAN : ConnectEnds(d, b)
      PROVE  QueueInv' /\ \A c \in CheckIds : checks[c].state = "none" => checks'[c].state = "none"
  <2>1. checks[d].state # "none" /\ \A c \in CheckIds : c # d => checks'[c] = checks[c]
    BY <1>0, <1>5 DEF MsgArrived, PingTimeout, ConnectEnds, EndCheck
  <2> QED  BY <1>5, <2>1, CheckQueue
<1>6. ASSUME NEW o \in Objects, NEW r \in Removals, RemovePeer(r, o)
      PROVE  /\ QueueInv'
             /\ \A c \in CheckIds : c[2] = "check_and_remove_if_needed" => checks'[c] = checks[c]
  BY <1>6, RemovePeerQueue
<1>7. CASE Exit
  BY <1>7, ExitQueue
<1>8. CASE Tick
  BY <1>8 DEF Tick, QueueInv, QueueOK
<1>9. ASSUME UNCHANGED <<now, ready, checks, lastChecked, removals>>
      PROVE  QueueInv' /\ \A c \in CheckIds : checks[c].state = "none" => checks'[c].state = "none"
  BY <1>9 DEF QueueInv, QueueOK, AskedNow, Settled, Serves, Shared
<1>10. ASSUME NEW o \in Objects, NEW s \in {"online", "offline"}, AddContact(o, s)
       PROVE  UNCHANGED <<now, ready, checks, lastChecked, removals>>
  BY <1>10 DEF AddContact
<1>11. ASSUME GroupExits \/ Finished \/ UNCHANGED vars
       PROVE  UNCHANGED <<now, ready, checks, lastChecked, removals>>
  BY <1>11 DEF GroupExits, Finished, vars
<1> QED  BY <1>1, <1>2, <1>3, <1>4, <1>5, <1>6, <1>7, <1>8, <1>9, <1>10, <1>11
         DEF Next, EventLoop, Loop, Timers

\* A removal asks new_check twice (remove_peer, and check_and_remove_if_needed when
\* its task runs) and makes one check at most, however many removals, exits and
\* ends of checks come between: the submit of the first is ahead of the second in
\* the event loop's queue, and no time passes while the queue is not empty.
THEOREM OneCheckEach == Spec => []SharesItsCheck
<1>1. Init => QueueInv /\ SharesItsCheck
  <2>1. Init => QueueInv
    BY DEF Init, QueueInv, QueueOK
  <2>2. ASSUME Init, NEW r \in Removals
        PROVE  checks[<<r, "check_and_remove_if_needed">>].state = "none"
    BY <2>2, CheckNames DEF Init
  <2> QED  BY <2>1, <2>2 DEF SharesItsCheck
<1>2. IInv /\ (QueueInv /\ SharesItsCheck) /\ [Next]_vars => (QueueInv /\ SharesItsCheck)'
  BY NextQueue DEF SharesItsCheck
<1>3. Spec => [](QueueInv /\ SharesItsCheck)
  BY <1>1, <1>2, Invariance, PTL DEF Spec
<1> QED  BY <1>3, PTL

-----------------------------------------------------------------------------
(* What the page shows *)

\* Objects of a peer that are marked offline are shown, when they are listed.
LEMMA MarkedIsShown ==
  ASSUME IInv, ListInv, OfflineShown, NEW S, NEW what, MayBeRemove(S, what), UNCHANGED peerList
  PROVE  ListInv' /\ OfflineShown'
<1>1. ListInv'
  BY DEF ListInv
<1> SUFFICES ASSUME NEW p \in Peers, peerList[p] # NoObject, status'[peerList[p]] = "offline"
             PROVE  page'[p] = "offline"
  BY <1>1 DEF OfflineShown
<1>2. peerList[p] \in Objects /\ PeerOf(peerList[p]) = p
  BY DEF IInv, TypeOK, ListInv
<1>3. CASE ~what /\ peerList[p] \in S
  BY <1>2, <1>3 DEF MayBeRemove
<1>4. CASE ~(~what /\ peerList[p] \in S)
  <2>1. page[p] = "offline"
    BY <1>2, <1>4 DEF MayBeRemove, OfflineShown
  <2> QED  BY <2>1 DEF MayBeRemove
<1> QED  BY <1>3, <1>4

\* new_peer lists and shows the object together.
LEMMA AddedIsShown ==
  ASSUME IInv, ListInv, OfflineShown, NEW o \in Objects, NEW s \in {"online", "offline"},
         AddContact(o, s)
  PROVE  ListInv' /\ OfflineShown'
<1>1. /\ status' = [status EXCEPT ![o] = s] /\ peerList' = [peerList EXCEPT ![PeerOf(o)] = o]
      /\ page' = [page EXCEPT ![PeerOf(o)] = s]
  BY DEF AddContact
<1>2. /\ PeerOf(o) \in Peers /\ status \in [Objects -> {"online", "offline"}]
      /\ page \in [Peers -> {"online", "offline"}]
      /\ peerList \in [Peers -> Objects \cup {NoObject}]
  BY ObjectsOfPeers DEF IInv, TypeOK
<1>3. ASSUME NEW p \in Peers
      PROVE  /\ peerList'[p] # NoObject => PeerOf(peerList'[p]) = p
             /\ peerList'[p] # NoObject /\ status'[peerList'[p]] = "offline" => page'[p] = "offline"
  <2>1. CASE p = PeerOf(o)
    BY <1>1, <1>2, <2>1
  <2>2. CASE p # PeerOf(o)
    <3>1. peerList'[p] = peerList[p] /\ page'[p] = page[p]
      BY <1>1, <1>2, <2>2
    <3>2. peerList[p] # NoObject => peerList[p] \in Objects /\ PeerOf(peerList[p]) = p
      BY <1>2 DEF ListInv
    <3>3. peerList[p] # NoObject => status'[peerList[p]] = status[peerList[p]]
      BY <1>1, <1>2, <2>2, <3>2
    <3> QED  BY <3>1, <3>2, <3>3 DEF OfflineShown
  <2> QED  BY <2>1, <2>2
<1> QED  BY <1>3 DEF ListInv, OfflineShown

\* A listed object that is marked OFFLINE (may_be_remove, or the status a new peer
\* came with) is shown so by the page, whichever objects of the peer removals hold
\* and however its return interleaves with them.
THEOREM OfflineIsShown == Spec => []OfflineShown
<1>1. Init => ListInv /\ OfflineShown
  BY DEF Init, ListInv, OfflineShown
<1>2. ASSUME IInv, ListInv /\ OfflineShown, [Next]_vars
      PROVE  (ListInv /\ OfflineShown)'
  <2>1. ASSUME UNCHANGED <<status, peerList, page>>
        PROVE  ListInv' /\ OfflineShown'
    BY <1>2, <2>1 DEF ListInv, OfflineShown
  <2>2. ASSUME NEW o \in Objects, NEW r \in Removals, RemovePeer(r, o)
        PROVE  ListInv' /\ OfflineShown'
    <3>1. /\ UNCHANGED peerList
          /\ \/ UNCHANGED <<status, page>>
             \/ \E c : MayBeRemove({o}, Outcome(c) # "offline")
      BY <2>2 DEF RemovePeer, Conclude, Await, Refused
    <3> QED  BY <1>2, <2>1, <3>1, MarkedIsShown
  <2>3. CASE CheckAndRemove \/ Wake
    <3>1. /\ UNCHANGED peerList
          /\ \/ UNCHANGED <<status, page>>
             \/ \E S, c : MayBeRemove(S, Outcome(c) # "offline")
      BY <2>3 DEF CheckAndRemove, Wake, Conclude, Await, Refused
    <3> QED  BY <1>2, <2>1, <3>1, MarkedIsShown
  <2>4. ASSUME NEW o \in Objects, NEW s \in {"online", "offline"}, AddContact(o, s)
        PROVE  ListInv' /\ OfflineShown'
    BY <1>2, <2>4, AddedIsShown
  <2>5. CASE Submit \/ NewCheck \/ Tick \/ GroupExits \/ Exit \/ Finished \/ UNCHANGED vars
    BY <2>1, <2>5 DEF Submit, NewCheck, Tick, GroupExits, Exit, Finished, vars
  <2>6. ASSUME NEW c \in CheckIds,
               MsgArrived(c) \/ PingTimeout(c) \/ \E b \in BOOLEAN : ConnectEnds(c, b)
        PROVE  ListInv' /\ OfflineShown'
    BY <2>1, <2>6 DEF MsgArrived, PingTimeout, ConnectEnds
  <2> QED  BY <1>2, <2>2, <2>3, <2>4, <2>5, <2>6 DEF Next, EventLoop, Loop, Timers
<1>3. Spec => [](ListInv /\ OfflineShown)
  BY <1>1, <1>2, Invariance, PTL DEF Spec
<1> QED  BY <1>3, PTL

-----------------------------------------------------------------------------
(* No wake-up is lost *)

\* The callback x finds the task or the check in the state that it is for.
Runnable(x) ==
  /\ x[1] = "submit" => checks[x[2]].state = "queued"
  /\ x[1] = "check" => checks[x[2]].state \in {"initiated", "cancelling"}
  /\ x[1] = "waiter" => removals[x[2]].state = "spawned"
  /\ x[1] = "wake" => checks[x[2]].state \in Ended

In(q) == {q[i] : i \in 1..Len(q)}
Once(q) == \A i, j \in 1..Len(q) : q[i] = q[j] => i = j

\* Each callback is in the queue once, and checks are cancelled by the exit only.
LoopInv ==
  /\ Once(ready)
  /\ \A x \in Queued : Runnable(x)
  /\ group = "open" => \A c \in CheckIds : checks[c].state # "cancelling"

WakeupInv == LoopInv /\ NoLostWakeup

\* The first callback leaves the queue.
LEMMA InTail ==
  ASSUME NEW q \in Seq(Callbacks), q # <<>>, Once(q)
  PROVE  /\ In(Tail(q)) = In(q) \ {Head(q)} /\ Once(Tail(q)) /\ Head(q) \in In(q)
         /\ Tail(q) \in Seq(Callbacks)
<1>1. /\ Tail(q) \in Seq(Callbacks) /\ Len(Tail(q)) = Len(q) - 1
      /\ \A i \in 1..Len(Tail(q)) : Tail(q)[i] = q[i + 1]
  OBVIOUS
<1>2. Len(q) \in Nat /\ Len(q) > 0 /\ Head(q) = q[1] /\ 1 \in 1..Len(q)
  OBVIOUS
<1>3. \A i \in 1..Len(Tail(q)) : i + 1 \in 1..Len(q) /\ i + 1 # 1
  BY <1>1, <1>2
<1>4. \A i \in 1..Len(q) : i # 1 => i - 1 \in 1..Len(Tail(q)) /\ (i - 1) + 1 = i
  BY <1>1, <1>2
<1>5. In(Tail(q)) \subseteq In(q) \ {Head(q)}
  BY <1>1, <1>2, <1>3 DEF In, Once
<1>6. In(q) \ {Head(q)} \subseteq In(Tail(q))
  <2> SUFFICES ASSUME NEW i \in 1..Len(q), q[i] # Head(q) PROVE q[i] \in In(Tail(q))
    BY DEF In
  <2>1. i # 1
    BY <1>2
  <2> QED BY <1>1, <1>4, <2>1 DEF In
<1>7. Once(Tail(q))
  <2> SUFFICES ASSUME NEW i \in 1..Len(Tail(q)), NEW j \in 1..Len(Tail(q)), Tail(q)[i] = Tail(q)[j]
               PROVE  i = j
    BY DEF Once
  <2>1. i + 1 = j + 1
    BY <1>1, <1>3 DEF Once
  <2> QED BY <2>1
<1> QED BY <1>1, <1>2, <1>5, <1>6, <1>7 DEF In

\* Callbacks that are not in the queue are put behind it.
LEMMA InConcat ==
  ASSUME NEW q \in Seq(Callbacks), NEW t \in Seq(Callbacks), Once(q), Once(t),
         In(q) \cap In(t) = {}
  PROVE  In(q \o t) = In(q) \cup In(t) /\ Once(q \o t)
<1>1. q \o t \in Seq(Callbacks) /\ Len(q \o t) = Len(q) + Len(t)
  OBVIOUS
<1>2. Len(q) \in Nat /\ Len(t) \in Nat
  OBVIOUS
<1>3. /\ \A i \in 1..Len(q) : (q \o t)[i] = q[i]
      /\ \A i \in 1..Len(t) : (q \o t)[Len(q) + i] = t[i]
  OBVIOUS
<1>4. \A i \in 1..Len(q \o t) : i \in 1..Len(q) \/ \E k \in 1..Len(t) : i = Len(q) + k
  <2> SUFFICES ASSUME NEW i \in 1..Len(q \o t), i \notin 1..Len(q)
               PROVE  \E k \in 1..Len(t) : i = Len(q) + k
    OBVIOUS
  <2>1. i - Len(q) \in 1..Len(t) /\ i = Len(q) + (i - Len(q))
    BY <1>1, <1>2
  <2> QED BY <2>1
<1>5. /\ \A i \in 1..Len(q) : i \in 1..Len(q \o t)
      /\ \A i \in 1..Len(t) : Len(q) + i \in 1..Len(q \o t)
  BY <1>1, <1>2
<1>6. In(q \o t) = In(q) \cup In(t)
  <2>1. \A i \in 1..Len(q \o t) : (q \o t)[i] \in In(q) \cup In(t)
    BY <1>3, <1>4 DEF In
  <2>2. \A i \in 1..Len(q) : q[i] \in In(q \o t)
    BY <1>3, <1>5 DEF In
  <2>3. \A i \in 1..Len(t) : t[i] \in In(q \o t)
    BY <1>3, <1>5 DEF In
  <2> QED BY <2>1, <2>2, <2>3 DEF In
<1>7. Once(q \o t)
  <2> SUFFICES ASSUME NEW i \in 1..Len(q \o t), NEW j \in 1..Len(q \o t),
                      (q \o t)[i] = (q \o t)[j]
               PROVE  i = j
    BY DEF Once
  <2>1. CASE i \in 1..Len(q) /\ j \in 1..Len(q)
    BY <1>3, <2>1 DEF Once
  <2>2. CASE i \in 1..Len(q) /\ j \notin 1..Len(q)
    <3>1. PICK k \in 1..Len(t) : j = Len(q) + k
      BY <1>4, <2>2
    <3> QED BY <1>3, <2>2, <3>1 DEF In
  <2>3. CASE i \notin 1..Len(q) /\ j \in 1..Len(q)
    <3>1. PICK k \in 1..Len(t) : i = Len(q) + k
      BY <1>4, <2>3
    <3> QED BY <1>3, <2>3, <3>1 DEF In
  <2>4. CASE i \notin 1..Len(q) /\ j \notin 1..Len(q)
    <3>1. PICK k \in 1..Len(t), l \in 1..Len(t) : i = Len(q) + k /\ j = Len(q) + l
      BY <1>4, <2>4
    <3> QED BY <1>3, <3>1 DEF Once
  <2> QED BY <2>1, <2>2, <2>3, <2>4
<1> QED BY <1>6, <1>7

\* One callback that is not in the queue is put behind it.
LEMMA InAppend ==
  ASSUME NEW q \in Seq(Callbacks), NEW x \in Callbacks, Once(q), x \notin In(q)
  PROVE  /\ In(Append(q, x)) = In(q) \cup {x} /\ Once(Append(q, x))
         /\ Append(q, x) \in Seq(Callbacks)
<1>1. PICK t : t = <<x>>
  OBVIOUS
<1>2. t \in Seq(Callbacks) /\ Len(t) = 1 /\ t[1] = x
  BY <1>1
<1>3. In(t) = {x} /\ Once(t)
  BY <1>2 DEF In, Once
<1>4. Append(q, x) = q \o t
  BY <1>1
<1> QED BY <1>2, <1>3, <1>4, InConcat

\* The submit of a new check, and behind it the task of its removal.
LEMMA InTwo ==
  ASSUME NEW q \in Seq(Callbacks), NEW x \in Callbacks, NEW y \in Callbacks, Once(q),
         x \notin In(q), y \notin In(q), x # y
  PROVE  In(q \o <<x, y>>) = In(q) \cup {x, y} /\ Once(q \o <<x, y>>)
<1>1. PICK t : t = <<x, y>>
  OBVIOUS
<1>2. t \in Seq(Callbacks) /\ Len(t) = 2 /\ t[1] = x /\ t[2] = y
  BY <1>1
<1>3. \A i \in 1..2 : i = 1 \/ i = 2
  OBVIOUS
<1>4. In(t) = {x, y} /\ Once(t)
  BY <1>2, <1>3 DEF In, Once
<1> QED BY <1>1, <1>2, <1>4, InConcat

\* The tasks that the exit wakes, each once.
LEMMA InWoken ==
  ASSUME NEW S \in SUBSET CheckIds
  PROVE  LET t == [i \in 1..Len(SetToSeq(S)) |-> <<"check", SetToSeq(S)[i]>>]
         IN  t \in Seq(Callbacks) /\ Once(t) /\ In(t) = {<<"check", c>> : c \in S}
<1>1. IsFiniteSet(Removals)
  BY FS_Interval, TimesAssumption DEF Removals
<1>2. IsFiniteSet(Callers)
  <2>1. Callers = {"remove_peer"} \cup {"check_and_remove_if_needed"}
    BY DEF Callers
  <2> QED  BY <2>1, FS_Singleton, FS_Union
<1>3. IsFiniteSet(S)
  BY <1>1, <1>2, FS_Product, FS_Subset DEF CheckIds
<1>4. PICK n \in Nat : n = Cardinality(S) /\ ExistsBijection(1..n, S)
  BY <1>3, FS_CardinalityType
<1>5. \E f \in [1..n -> S] : IsInjective(f)
  BY <1>4 DEF ExistsBijection, Bijection, Injection, Surjection, IsInjective
<1>6. PICK f : f = SetToSeq(S)
  OBVIOUS
<1>7. f \in [1..n -> S] /\ IsInjective(f)
  BY <1>4, <1>5, <1>6 DEF SetToSeq
<1>8. f \in Injection(1..n, S)
  BY <1>7 DEF Injection, IsInjective
<1>9. Cardinality(1..n) = n
  BY <1>4, FS_Interval
<1>10. f \in Surjection(1..n, S)
  BY <1>3, <1>4, <1>8, <1>9, FS_Injection
<1>11. Len(f) = n
  BY <1>7
<1>12. PICK t : t = [i \in 1..n |-> <<"check", f[i]>>]
  OBVIOUS
<1>13. \A i \in 1..n : t[i] \in Callbacks /\ t[i] = <<"check", f[i]>>
  BY <1>7, <1>12, CallbackMembers
<1>14. t \in Seq(Callbacks) /\ Len(t) = n
  BY <1>12, <1>13
<1>15. Once(t)
  BY <1>7, <1>13, <1>14 DEF Once, IsInjective
<1>16. In(t) = {<<"check", c>> : c \in S}
  <2>1. \A i \in 1..n : t[i] \in {<<"check", c>> : c \in S}
    BY <1>7, <1>13
  <2>2. ASSUME NEW c \in S
        PROVE  <<"check", c>> \in In(t)
    <3>1. PICK i \in 1..n : f[i] = c
      BY <1>10 DEF Surjection
    <3> QED BY <1>13, <1>14, <3>1 DEF In
  <2> QED BY <1>14, <2>1, <2>2 DEF In
<1> QED BY <1>6, <1>11, <1>12, <1>14, <1>15, <1>16

\* The queue as a set.
LEMMA QueuedIn == Queued = In(ready) /\ Queued' = In(ready')
BY DEF Queued, In

\* The callbacks of check c.
Of(c) == {<<"submit", c>>, <<"check", c>>, <<"wake", c>>}

\* A step of check c takes callbacks of its own from the queue and adds such.
LEMMA CheckWakeup ==
  ASSUME IInv, WakeupInv, NEW c \in CheckIds, UNCHANGED <<now, removals, group>>,
         \A d \in CheckIds : d # c => checks'[d] = checks[d],
         Once(ready'), ready' \in Seq(Callbacks),
         NEW R \in SUBSET Of(c), NEW A \in SUBSET Of(c), In(ready') = (In(ready) \ R) \cup A,
         \A x \in In(ready') : x \in Of(c) => Runnable(x)',
         checks'[c].state # "none", Driven(c)', checks[c].state \notin Ended,
         checks'[c].state \in Ended => <<"wake", c>> \in In(ready'),
         group = "open" => checks'[c].state # "cancelling"
  PROVE  WakeupInv'
<1>1. Queued = In(ready) /\ Queued' = In(ready')
  BY QueuedIn
<1>2. ASSUME NEW x \in In(ready') PROVE Runnable(x)'
  <2>1. CASE x \in Of(c)
    BY <2>1
  <2>2. CASE x \notin Of(c)
    <3>1. x \in In(ready) /\ Runnable(x)
      BY <1>1, <2>2 DEF WakeupInv, LoopInv
    <3>2. x \in Callbacks
      BY <3>1 DEF In, IInv, TypeOK
    <3>3. x[1] \in {"submit", "check", "wake"} => x[2] \in CheckIds /\ x[2] # c
      BY <2>2, <3>2 DEF Callbacks, Of
    <3>4. x[1] \in {"submit", "check", "wake"} => checks'[x[2]] = checks[x[2]]
      BY <3>3
    <3> QED BY <3>1, <3>4 DEF Runnable
  <2> QED BY <2>1, <2>2
<1>3. LoopInv'
  BY <1>1, <1>2 DEF WakeupInv, LoopInv
<1>4. ASSUME NEW k, NEW d \in CheckIds, d # c, <<k, d>> \in In(ready) PROVE <<k, d>> \in In(ready')
  BY <1>4 DEF Of
<1>5. ASSUME NEW d \in CheckIds PROVE Driven(d)'
  <2>1. CASE d = c
    BY <2>1
  <2>2. CASE d # c
    <3>1. Driven(d) /\ checks'[d] = checks[d]
      BY <2>2 DEF WakeupInv, NoLostWakeup
    <3> QED BY <1>1, <1>4, <2>2, <3>1 DEF Driven
  <2> QED BY <2>1, <2>2
<1>6. ASSUME NEW r \in Removals, removals[r].state = "spawned" PROVE <<"waiter", r>> \in In(ready')
  <2>1. <<"waiter", r>> \in In(ready)
    BY <1>1, <1>6 DEF WakeupInv, NoLostWakeup
  <2> QED BY <2>1 DEF Of
<1>7. ASSUME NEW r \in Removals, removals[r].state = "waiting"
      PROVE  /\ checks'[removals[r].fut].state # "none"
             /\ checks'[removals[r].fut].state \in Ended => <<"wake", removals[r].fut>> \in In(ready')
  <2>1. PICK d \in CheckIds : d = removals[r].fut
    BY <1>7 DEF IInv, RemovalInv, RemovalOK
  <2>2. CASE d = c
    BY <2>1, <2>2
  <2>3. CASE d # c
    <3>1. checks[d].state # "none" /\ (checks[d].state \in Ended => <<"wake", d>> \in In(ready))
      BY <1>1, <1>7, <2>1 DEF WakeupInv, NoLostWakeup, Blamed
    <3> QED BY <1>4, <2>1, <2>3, <3>1
  <2> QED BY <2>2, <2>3
<1>8. NoLostWakeup'
  BY <1>1, <1>5, <1>6, <1>7 DEF NoLostWakeup, Blamed
<1> QED BY <1>3, <1>8 DEF WakeupInv

\* Connectivity.submit hands its check on to _new_check.
LEMMA SubmitWakeup ==
  ASSUME IInv, WakeupInv, Submit
  PROVE  WakeupInv'
<1>1. PICK c \in CheckIds : c = Callback
  BY HeadCallback DEF Submit
<1>2. checks \in [CheckIds -> Check] /\ ready \in Seq(Callbacks) /\ ready # <<>> /\ Once(ready)
  BY DEF IInv, TypeOK, WakeupInv, LoopInv, Submit, Runs
<1>3. Head(ready) = <<"submit", c>>
  <2>1. Head(ready) \in Callbacks /\ Head(ready)[1] = "submit" /\ Head(ready)[2] = c
    BY <1>1, <1>2 DEF Submit, Runs, Callback
  <2> QED BY <2>1 DEF Callbacks
<1>4. /\ checks' = [checks EXCEPT ![c].state = "initiated"] /\ checks[c].state = "queued"
      /\ ready' = Append(Tail(ready), <<"check", c>>)
      /\ UNCHANGED <<now, removals, group>>
  BY <1>1 DEF Submit
<1>5. checks'[c].state = "initiated" /\ \A d \in CheckIds : d # c => checks'[d] = checks[d]
  BY <1>2, <1>4 DEF Check
<1>6. /\ In(Tail(ready)) = In(ready) \ {<<"submit", c>>} /\ Once(Tail(ready))
      /\ Tail(ready) \in Seq(Callbacks)
  BY <1>2, <1>3, InTail
<1>7. <<"check", c>> \notin In(ready) /\ <<"wake", c>> \notin In(ready)
  BY <1>4, QueuedIn DEF WakeupInv, LoopInv, Runnable, Ended
<1>8. /\ In(ready') = (In(ready) \ {<<"submit", c>>}) \cup {<<"check", c>>}
      /\ Once(ready') /\ ready' \in Seq(Callbacks)
  <2>1. PICK q \in Seq(Callbacks), x \in Callbacks : q = Tail(ready) /\ x = <<"check", c>>
    BY <1>6, CallbackMembers
  <2>2. Once(q) /\ In(q) = In(ready) \ {<<"submit", c>>} /\ x \notin In(q)
    BY <1>6, <1>7, <2>1
  <2>3. In(Append(q, x)) = In(q) \cup {x} /\ Once(Append(q, x)) /\ Append(q, x) \in Seq(Callbacks)
    BY <2>2, InAppend
  <2> QED BY <1>4, <2>1, <2>2, <2>3
<1>9. \A x \in In(ready') : x \in Of(c) => x = <<"check", c>>
  BY <1>7, <1>8 DEF Of
<1>10. \A x \in In(ready') : x \in Of(c) => Runnable(x)'
  BY <1>5, <1>9 DEF Runnable
<1>11. Driven(c)'
  BY <1>5, <1>8, QueuedIn DEF Driven
<1> QED BY <1>4, <1>5, <1>8, <1>10, <1>11, CheckWakeup DEF Of, Ended

\* The callback that runs leaves the queue; another may be put behind the rest.
LEMMA HeadLeaves ==
  ASSUME IInv, WakeupInv, NEW k, Runs(k)
  PROVE  /\ In(Tail(ready)) = In(ready) \ {<<k, Callback>>} /\ Once(Tail(ready))
         /\ Tail(ready) \in Seq(Callbacks) /\ <<k, Callback>> \in In(ready)
         /\ \A x \in Callbacks : x \notin In(Tail(ready)) =>
              /\ In(Append(Tail(ready), x)) = In(Tail(ready)) \cup {x}
              /\ Once(Append(Tail(ready), x)) /\ Append(Tail(ready), x) \in Seq(Callbacks)
<1>1. ready \in Seq(Callbacks) /\ ready # <<>> /\ Once(ready) /\ Head(ready)[1] = k
  BY DEF IInv, TypeOK, WakeupInv, LoopInv, Runs
<1>2. /\ In(Tail(ready)) = In(ready) \ {Head(ready)} /\ Once(Tail(ready))
      /\ Tail(ready) \in Seq(Callbacks) /\ Head(ready) \in In(ready)
  BY <1>1, InTail
<1>3. Head(ready) = <<k, Callback>>
  <2>1. Head(ready) \in Callbacks
    BY <1>1
  <2> QED BY <1>1, <2>1 DEF Callbacks, Callback
<1>4. ASSUME NEW x \in Callbacks, x \notin In(Tail(ready))
      PROVE  /\ In(Append(Tail(ready), x)) = In(Tail(ready)) \cup {x}
             /\ Once(Append(Tail(ready), x)) /\ Append(Tail(ready), x) \in Seq(Callbacks)
  <2>1. PICK q \in Seq(Callbacks) : q = Tail(ready)
    BY <1>2
  <2>2. Once(q) /\ x \notin In(q)
    BY <1>2, <1>4, <2>1
  <2> QED BY <2>1, <2>2, InAppend
<1> QED BY <1>2, <1>3, <1>4

\* _new_check starts its timer, or ends and wakes who awaits it.
LEMMA NewCheckWakeup ==
  ASSUME IInv, WakeupInv, NewCheck
  PROVE  WakeupInv'
<1>1. PICK c \in CheckIds : c = Callback
  BY HeadCallback DEF NewCheck
<1>2. checks \in [CheckIds -> Check] /\ checks[c] \in Check /\ now \in Nat
  BY DEF IInv, TypeOK
<1>3. UNCHANGED <<now, removals, group>>
  BY DEF NewCheck
<1>4. checks[c].state \in {"initiated", "cancelling"}
  BY <1>1 DEF NewCheck
<1>5. <<"submit", c>> \notin In(ready) /\ <<"wake", c>> \notin In(ready)
  BY <1>4, QueuedIn DEF WakeupInv, LoopInv, Runnable, Ended
<1>6. /\ In(Tail(ready)) = In(ready) \ {<<"check", c>>} /\ Once(Tail(ready))
      /\ Tail(ready) \in Seq(Callbacks)
      /\ \A x \in Callbacks : x \notin In(Tail(ready)) =>
           /\ In(Append(Tail(ready), x)) = In(Tail(ready)) \cup {x}
           /\ Once(Append(Tail(ready), x)) /\ Append(Tail(ready), x) \in Seq(Callbacks)
  BY <1>1, HeadLeaves DEF NewCheck
<1>7. CASE /\ checks[c].state = "initiated" /\ ready' = Tail(ready)
           /\ checks' = [checks EXCEPT ![c].state = "req_check", ![c].deadline = Deadline]
  <2>1. /\ checks'[c].state = "req_check" /\ checks'[c].deadline = now + PING_TIMEOUT
        /\ \A d \in CheckIds : d # c => checks'[d] = checks[d]
    BY <1>2, <1>7 DEF Check, Deadline
  <2>2. \A x \in In(ready') : x \notin Of(c)
    BY <1>5, <1>6, <1>7 DEF Of
  <2>3. Driven(c)'
    BY <1>2, <1>3, <2>1, TimesAssumption DEF Driven
  <2>4. /\ In(ready') = (In(ready) \ {<<"check", c>>}) \cup {}
        /\ {<<"check", c>>} \in SUBSET Of(c) /\ {} \in SUBSET Of(c)
    BY <1>6, <1>7 DEF Of
  <2> QED BY <1>3, <1>6, <1>7, <2>1, <2>2, <2>3, <2>4, CheckWakeup DEF Ended
<1>8. CASE /\ checks[c].state = "cancelling"
           /\ ready' = Append(Tail(ready), <<"wake", c>>)
           /\ checks' = [checks EXCEPT ![c].state = "cancelled", ![c].deadline = 0]
  <2>1. checks'[c].state = "cancelled" /\ \A d \in CheckIds : d # c => checks'[d] = checks[d]
    BY <1>2, <1>8 DEF Check
  <2>2. /\ In(ready') = (In(ready) \ {<<"check", c>>}) \cup {<<"wake", c>>}
        /\ Once(ready') /\ ready' \in Seq(Callbacks)
    <3>1. <<"wake", c>> \in Callbacks /\ <<"wake", c>> \notin In(Tail(ready))
      BY <1>5, <1>6, CallbackMembers
    <3> QED BY <1>6, <1>8, <3>1
  <2>3. \A x \in In(ready') : x \in Of(c) => x = <<"wake", c>>
    BY <1>5, <2>2 DEF Of
  <2>4. \A x \in In(ready') : x \in Of(c) => Runnable(x)'
    BY <2>1, <2>3 DEF Runnable, Ended
  <2>5. Driven(c)'
    BY <2>1 DEF Driven
  <2> QED BY <1>3, <1>8, <2>1, <2>2, <2>4, <2>5, CheckWakeup DEF Of, Ended
<1> QED BY <1>1, <1>7, <1>8 DEF NewCheck

\* The end of a check queues the wake-up of those that await it.
LEMMA EndCheckWakeup ==
  ASSUME IInv, WakeupInv, NEW c \in CheckIds, NEW b \in BOOLEAN, EndCheck(c, b),
         checks[c].state \in {"req_check", "con_check"}, UNCHANGED <<now, removals, group>>
  PROVE  WakeupInv'
<1>1. checks \in [CheckIds -> Check] /\ checks[c] \in Check
      /\ ready \in Seq(Callbacks) /\ Once(ready)
  BY DEF IInv, TypeOK, WakeupInv, LoopInv
<1>2. checks'[c].state = "completed" /\ \A d \in CheckIds : d # c => checks'[d] = checks[d]
  BY <1>1 DEF EndCheck, Check
<1>3. \A x \in Of(c) : x \notin In(ready)
  BY QueuedIn DEF WakeupInv, LoopInv, Runnable, Ended, Of
<1>4. PICK x \in Callbacks : x = <<"wake", c>>
  BY CallbackMembers
<1>5. x \notin In(ready) /\ ready' = Append(ready, x)
  BY <1>3, <1>4 DEF EndCheck, Of
<1>6. In(ready') = In(ready) \cup {x} /\ Once(ready') /\ ready' \in Seq(Callbacks)
  BY <1>1, <1>5, InAppend
<1>7. \A y \in In(ready') : y \in Of(c) => Runnable(y)'
  BY <1>2, <1>3, <1>4, <1>6 DEF Runnable, Ended
<1>8. Driven(c)'
  BY <1>2 DEF Driven
<1>9. In(ready') = (In(ready) \ {}) \cup {x} /\ {x} \in SUBSET Of(c) /\ {} \in SUBSET Of(c)
  BY <1>4, <1>6 DEF Of
<1> QED BY <1>2, <1>4, <1>6, <1>7, <1>8, <1>9, CheckWakeup DEF Of, Ended

\* The timer of the ping gives way to the timer of the connection.
LEMMA PingTimeoutWakeup ==
  ASSUME IInv, WakeupInv, NEW c \in CheckIds, PingTimeout(c)
  PROVE  WakeupInv'
<1>1. checks \in [CheckIds -> Check] /\ checks[c] \in Check /\ now \in Nat
      /\ ready \in Seq(Callbacks) /\ Once(ready)
  BY DEF IInv, TypeOK, WakeupInv, LoopInv
<1>2. /\ checks'[c].state = "con_check" /\ checks'[c].deadline = now + PING_TIMEOUT
      /\ \A d \in CheckIds : d # c => checks'[d] = checks[d]
      /\ checks[c].state = "req_check" /\ UNCHANGED <<now, ready, removals, group>>
  BY <1>1 DEF PingTimeout, Check, Deadline
<1>3. \A x \in Of(c) : x \notin In(ready)
  BY <1>2, QueuedIn DEF WakeupInv, LoopInv, Runnable, Ended, Of
<1>4. Driven(c)'
  BY <1>1, <1>2, TimesAssumption DEF Driven
<1>5. In(ready') = (In(ready) \ {}) \cup {} /\ {} \in SUBSET Of(c)
  BY <1>2
<1> QED BY <1>1, <1>2, <1>3, <1>4, <1>5, CheckWakeup DEF Ended

\* A step that leaves the checks alone and changes the task of one removal.
LEMMA RemovalWakeup ==
  ASSUME IInv, WakeupInv, NEW r \in Removals, UNCHANGED <<now, checks, group>>,
         \A q \in Removals : q # r => removals'[q] = removals[q],
         Once(ready'),
         NEW R \in SUBSET {<<"waiter", r>>}, NEW A \in SUBSET {<<"waiter", r>>},
         In(ready') = (In(ready) \ R) \cup A,
         removals'[r].state = "spawned" <=> <<"waiter", r>> \in In(ready'),
         removals'[r].state = "waiting" =>
           /\ removals'[r].fut \in CheckIds
           /\ checks[removals'[r].fut].state \notin {"none"} \cup Ended
  PROVE  WakeupInv'
<1>1. Queued = In(ready) /\ Queued' = In(ready')
  BY QueuedIn
<1>2. \A x : x # <<"waiter", r>> => (x \in In(ready) <=> x \in In(ready'))
  OBVIOUS
<1>3. ASSUME NEW x \in In(ready') PROVE Runnable(x)'
  <2>1. CASE x = <<"waiter", r>>
    BY <2>1 DEF Runnable
  <2>2. CASE x # <<"waiter", r>>
    <3>1. x \in In(ready) /\ Runnable(x)
      BY <1>1, <1>2, <2>2 DEF WakeupInv, LoopInv
    <3>2. x \in Callbacks
      BY <3>1 DEF In, IInv, TypeOK
    <3>3. x[1] = "waiter" => x[2] \in Removals /\ x[2] # r
      BY <2>2, <3>2 DEF Callbacks
    <3> QED BY <3>1, <3>3 DEF Runnable
  <2> QED BY <2>1, <2>2
<1>4. LoopInv'
  BY <1>1, <1>3 DEF WakeupInv, LoopInv
<1>5. ASSUME NEW d \in CheckIds PROVE Driven(d)'
  <2>1. Driven(d)
    BY DEF WakeupInv, NoLostWakeup
  <2> QED BY <1>1, <1>2, <2>1 DEF Driven
<1>6. ASSUME NEW q \in Removals, removals'[q].state = "spawned" PROVE <<"waiter", q>> \in In(ready')
  <2>1. CASE q = r
    BY <1>6, <2>1
  <2>2. CASE q # r
    <3>1. <<"waiter", q>> \in In(ready)
      BY <1>1, <1>6, <2>2 DEF WakeupInv, NoLostWakeup
    <3> QED BY <1>2, <2>2, <3>1
  <2> QED BY <2>1, <2>2
<1>7. ASSUME NEW q \in Removals, removals'[q].state = "waiting"
      PROVE  /\ checks[removals'[q].fut].state # "none"
             /\ checks[removals'[q].fut].state \in Ended => <<"wake", removals'[q].fut>> \in In(ready')
  <2>1. CASE q = r
    BY <1>7, <2>1
  <2>2. CASE q # r
    <3>1. removals'[q] = removals[q]
      BY <2>2
    <3>2. /\ checks[removals[q].fut].state # "none"
          /\ checks[removals[q].fut].state \in Ended => <<"wake", removals[q].fut>> \in In(ready)
      BY <1>1, <1>7, <3>1 DEF WakeupInv, NoLostWakeup, Blamed
    <3> QED BY <1>2, <3>1, <3>2
  <2> QED BY <2>1, <2>2
<1>8. NoLostWakeup'
  BY <1>1, <1>5, <1>6, <1>7 DEF NoLostWakeup, Blamed
<1> QED BY <1>4, <1>8 DEF WakeupInv

\* The task of a removal finds a check: its outcome, or one to await.
LEMMA CheckAndRemoveWakeup ==
  ASSUME IInv, QueueInv, WakeupInv, CheckAndRemove
  PROVE  WakeupInv'
<1>1. PICK r \in Removals : r = Callback
  BY HeadCallback DEF CheckAndRemove
<1>2. PICK o \in Objects : o = removals[r].obj
  BY <1>1 DEF CheckAndRemove, IInv, RemovalInv, RemovalOK
<1>3. PICK c : c = CheckForRecent(PeerOf(o))
  OBVIOUS
<1>4. c # NoCheck
  BY <1>1, <1>2, <1>3, FindsCheck DEF CheckAndRemove
<1>5. c \in CheckIds /\ checks[c].state # "none"
  BY <1>3, <1>4, ObjectsOfPeers, Recent
<1>6. /\ UNCHANGED <<now, checks, group>> /\ ready' = Tail(ready)
      /\ \/ checks[c].state \in Ended /\ Conclude({r}, {o}, c)
         \/ checks[c].state \notin Ended /\ Await(r, o, removals[r].asked, "waiting", c)
  BY <1>1, <1>2, <1>3, <1>4 DEF CheckAndRemove
<1>7. In(Tail(ready)) = In(ready) \ {<<"waiter", r>>} /\ Once(Tail(ready))
  BY <1>1, HeadLeaves DEF CheckAndRemove
<1>8. /\ In(ready') = (In(ready) \ {<<"waiter", r>>}) \cup {} /\ Once(ready')
      /\ {} \in SUBSET {<<"waiter", r>>}
  BY <1>6, <1>7
<1>9. removals \in [Removals -> Removal]
  BY DEF IInv, TypeOK
<1>10. \A q \in Removals : q # r => removals'[q] = removals[q]
  BY <1>6, <1>9 DEF Conclude, Await
<1>11. CASE Conclude({r}, {o}, c)
  <2>1. removals'[r].state \in Verdicts
    <3>1. removals'[r] = Over(Outcome(c))
      BY <1>11 DEF Conclude
    <3> QED BY <3>1, OutcomeType DEF Over
  <2> QED BY <1>6, <1>8, <1>10, <2>1, RemovalWakeup DEF Verdicts
<1>12. CASE checks[c].state \notin Ended /\ Await(r, o, removals[r].asked, "waiting", c)
  <2>1. removals'[r].state = "waiting" /\ removals'[r].fut = c
    BY <1>9, <1>12 DEF Await
  <2> QED BY <1>5, <1>6, <1>8, <1>10, <1>12, <2>1, RemovalWakeup
<1> QED BY <1>6, <1>11, <1>12

\* remove_peer, in its four cases.
LEMMA RemovePeerWakeup ==
  ASSUME IInv, WakeupInv, NEW r \in Removals, NEW o \in Objects, RemovePeer(r, o)
  PROVE  WakeupInv'
<1>1. PICK c : c = CheckForRecent(PeerOf(o))
  OBVIOUS
<1>2. PICK mine \in CheckIds : mine = <<r, "remove_peer">>
  BY CheckNames
<1>3. removals[r].state = "idle" /\ UNCHANGED <<now, group>>
  BY DEF RemovePeer
<1>4. /\ removals \in [Removals -> Removal] /\ checks \in [CheckIds -> Check]
      /\ ready \in Seq(Callbacks) /\ Once(ready)
  BY DEF IInv, TypeOK, WakeupInv, LoopInv
<1>5. PICK task \in Callbacks : task = <<"waiter", r>>
  BY CallbackMembers
<1>6. task \notin In(ready)
  BY <1>3, <1>5, QueuedIn DEF WakeupInv, LoopInv, Runnable
<1>7. In(ready) = (In(ready) \ {}) \cup {} /\ {} \in SUBSET {<<"waiter", r>>}
  OBVIOUS
<1>8. CASE /\ (\E s \in Verdicts : removals'[r] = Over(s))
           /\ (\A q \in Removals : q # r => removals'[q] = removals[q])
           /\ UNCHANGED <<ready, checks>>
  <2>1. removals'[r].state \in Verdicts
    BY <1>8 DEF Over
  <2> QED BY <1>3, <1>4, <1>5, <1>6, <1>7, <1>8, <2>1, RemovalWakeup DEF Verdicts
<1>9. CASE Await(r, o, now, "spawned", NoCheck) /\ ready' = Append(ready, task) /\ UNCHANGED checks
  <2>1. removals'[r].state = "spawned" /\ \A q \in Removals : q # r => removals'[q] = removals[q]
    BY <1>4, <1>9 DEF Await
  <2>2. In(ready') = In(ready) \cup {task} /\ Once(ready')
    BY <1>4, <1>6, <1>9, InAppend
  <2>3. In(ready') = (In(ready) \ {}) \cup {task} /\ {task} \in SUBSET {<<"waiter", r>>}
    BY <1>5, <2>2
  <2> QED BY <1>3, <1>5, <1>7, <1>9, <2>1, <2>2, <2>3, RemovalWakeup
<1>10. CASE /\ Spawn(mine, PeerOf(o)) /\ Await(r, o, now, "spawned", NoCheck)
            /\ ready' = ready \o << <<"submit", mine>>, task >>
  <2>1. PICK sub \in Callbacks : sub = <<"submit", mine>>
    BY CallbackMembers
  <2>2. checks[mine].state = "none"
    BY <1>2, <1>3 DEF IInv, RemovalInv, RemovalOK
  <2>3. \A x \in Of(mine) : x \notin In(ready)
    BY <2>2, QueuedIn DEF WakeupInv, LoopInv, Runnable, Ended, Of
  <2>4. removals'[r].state = "spawned" /\ \A q \in Removals : q # r => removals'[q] = removals[q]
    BY <1>4, <1>10 DEF Await
  <2>5. checks'[mine].state = "queued" /\ \A d \in CheckIds : d # mine => checks'[d] = checks[d]
    BY <1>4, <1>10 DEF Spawn, Check
  <2>6. In(ready') = In(ready) \cup {sub, task} /\ Once(ready')
    <3>1. sub \notin In(ready) /\ sub # task /\ ready' = ready \o <<sub, task>>
      BY <1>5, <1>10, <2>1, <2>3 DEF Of
    <3> QED BY <1>4, <1>6, <3>1, InTwo
  <2>7. Queued = In(ready) /\ Queued' = In(ready')
    BY QueuedIn
  <2>8. ASSUME NEW x \in In(ready') PROVE Runnable(x)'
    <3>1. CASE x = sub \/ x = task
      BY <1>5, <2>1, <2>4, <2>5, <3>1 DEF Runnable
    <3>2. CASE x # sub /\ x # task
      <4>1. x \in In(ready) /\ Runnable(x) /\ x \notin Of(mine)
        BY <2>3, <2>6, <2>7, <3>2 DEF WakeupInv, LoopInv
      <4>2. x \in Callbacks
        BY <1>4, <4>1 DEF In
      <4>3. /\ x[1] \in {"submit", "check", "wake"} => x[2] \in CheckIds /\ x[2] # mine
            /\ x[1] = "waiter" => x[2] \in Removals /\ x[2] # r
        BY <1>5, <3>2, <4>1, <4>2 DEF Callbacks, Of
      <4> QED BY <2>4, <2>5, <4>1, <4>3 DEF Runnable
    <3> QED BY <3>1, <3>2
  <2>9. ASSUME NEW d \in CheckIds PROVE Driven(d)'
    <3>1. CASE d = mine
      BY <2>1, <2>5, <2>6, <2>7, <3>1 DEF Driven
    <3>2. CASE d # mine
      <4>1. Driven(d) /\ checks'[d] = checks[d]
        BY <2>5, <3>2 DEF WakeupInv, NoLostWakeup
      <4> QED BY <1>3, <2>6, <2>7, <4>1 DEF Driven
    <3> QED BY <3>1, <3>2
  <2>10. ASSUME NEW q \in Removals
         PROVE  /\ removals'[q].state = "spawned" => <<"waiter", q>> \in In(ready')
                /\ removals'[q].state = "waiting" =>
                     /\ checks'[removals'[q].fut].state # "none"
                     /\ checks'[removals'[q].fut].state \in Ended =>
                          <<"wake", removals'[q].fut>> \in In(ready')
    <3>1. CASE q = r
      BY <1>5, <2>4, <2>6, <3>1
    <3>2. CASE q # r
      <4>1. removals'[q] = removals[q]
        BY <2>4, <3>2
      <4>2. /\ removals[q].state = "spawned" => <<"waiter", q>> \in In(ready)
            /\ removals[q].state = "waiting" =>
                 /\ checks[removals[q].fut].state # "none"
                 /\ checks[removals[q].fut].state \in Ended =>
                      <<"wake", removals[q].fut>> \in In(ready)
        BY <2>7 DEF WakeupInv, NoLostWakeup, Blamed
      <4>3. removals[q].state = "waiting" => removals[q].fut \in CheckIds
        BY DEF IInv, RemovalInv, RemovalOK
      <4>4. removals[q].state = "waiting" => checks'[removals[q].fut] = checks[removals[q].fut]
        BY <2>2, <2>5, <4>2, <4>3
      <4> QED BY <2>6, <4>1, <4>2, <4>4
    <3> QED BY <3>1, <3>2
  <2>11. LoopInv'
    <3>1. group' = "open" => \A d \in CheckIds : checks'[d].state # "cancelling"
      BY <1>3, <2>5 DEF WakeupInv, LoopInv
    <3> QED BY <2>6, <2>7, <2>8, <3>1 DEF LoopInv
  <2>12. NoLostWakeup'
    BY <2>7, <2>9, <2>10 DEF NoLostWakeup, Blamed
  <2> QED BY <2>11, <2>12 DEF WakeupInv
<1>11. ASSUME NEW d, Conclude({r}, {o}, d), UNCHANGED <<ready, checks>>
       PROVE  WakeupInv'
  <2>1. removals'[r] = Over(Outcome(d)) /\ \A q \in Removals : q # r => removals'[q] = removals[q]
    BY <1>11 DEF Conclude
  <2> QED BY <1>8, <1>11, <2>1, OutcomeType
<1>12. ASSUME Refused(r), UNCHANGED <<ready, checks>>
       PROVE  WakeupInv'
  <2>1. removals'[r] = Over("raised") /\ \A q \in Removals : q # r => removals'[q] = removals[q]
    BY <1>4, <1>12 DEF Refused
  <2> QED BY <1>8, <1>12, <2>1 DEF Verdicts
<1> QED BY <1>2, <1>5, <1>9, <1>10, <1>11, <1>12 DEF RemovePeer

\* The wake-up reaches every removal that awaits the check.
LEMMA WakeWakeup ==
  ASSUME IInv, WakeupInv, Wake
  PROVE  WakeupInv'
<1>1. PICK c \in CheckIds : c = Callback
  BY HeadCallback DEF Wake
<1> DEFINE rs == {r \in Removals : removals[r].state = "waiting" /\ removals[r].fut = c}
<1>2. /\ removals' = [r \in Removals |-> IF r \in rs THEN Over(Outcome(c)) ELSE removals[r]]
      /\ ready' = Tail(ready) /\ UNCHANGED <<now, checks, group>>
  BY <1>1 DEF Wake, Conclude
<1>3. In(ready') = In(ready) \ {<<"wake", c>>} /\ Once(ready')
  BY <1>1, <1>2, HeadLeaves DEF Wake
<1>4. Queued = In(ready) /\ Queued' = In(ready')
  BY QueuedIn
<1>5. \A r \in rs : removals'[r].state \in Verdicts
  BY <1>2, OutcomeType DEF Over
<1>6. \A r \in Removals : r \notin rs => removals'[r] = removals[r]
  BY <1>2
<1>7. ASSUME NEW x \in In(ready') PROVE Runnable(x)'
  <2>1. x \in Callbacks /\ Runnable(x)
    <3>1. x \in In(ready) /\ ready \in Seq(Callbacks)
      BY <1>3 DEF IInv, TypeOK
    <3>2. x \in Callbacks
      BY <3>1 DEF In
    <3>3. Runnable(x)
      BY <1>4, <3>1 DEF WakeupInv, LoopInv
    <3> QED BY <3>2, <3>3
  <2>2. x[1] = "waiter" => x[2] \in Removals /\ x[2] \notin rs
    BY <2>1 DEF Callbacks, Runnable
  <2> HIDE DEF rs
  <2> QED BY <1>2, <1>6, <2>1, <2>2 DEF Runnable
<1>8. \A d \in CheckIds : Driven(d)'
  <2> SUFFICES ASSUME NEW d \in CheckIds PROVE Driven(d)'
    OBVIOUS
  <2>1. Driven(d)
    BY DEF WakeupInv, NoLostWakeup
  <2> QED BY <1>2, <1>3, <1>4, <2>1 DEF Driven
<1>9. ASSUME NEW r \in Removals
      PROVE  /\ removals'[r].state = "spawned" => <<"waiter", r>> \in In(ready')
             /\ removals'[r].state = "waiting" =>
                  /\ checks[removals'[r].fut].state # "none"
                  /\ checks[removals'[r].fut].state \in Ended =>
                       <<"wake", removals'[r].fut>> \in In(ready')
  <2>1. CASE r \in rs
    BY <1>5, <2>1 DEF Verdicts
  <2>2. CASE r \notin rs
    <3>1. removals'[r] = removals[r] /\ (removals[r].state = "waiting" => removals[r].fut # c)
      BY <1>6, <2>2
    <3>2. /\ removals[r].state = "spawned" => <<"waiter", r>> \in In(ready)
          /\ removals[r].state = "waiting" =>
               /\ checks[removals[r].fut].state # "none"
               /\ checks[removals[r].fut].state \in Ended => <<"wake", removals[r].fut>> \in In(ready)
      BY <1>4 DEF WakeupInv, NoLostWakeup, Blamed
    <3> HIDE DEF rs
    <3> QED BY <1>3, <3>1, <3>2
  <2> QED BY <2>1, <2>2
<1>10. LoopInv' /\ NoLostWakeup'
  <2> HIDE DEF rs
  <2>1. LoopInv'
    BY <1>2, <1>3, <1>4, <1>7 DEF WakeupInv, LoopInv
  <2>2. NoLostWakeup'
    BY <1>2, <1>4, <1>8, <1>9 DEF NoLostWakeup, Blamed
  <2> QED BY <2>1, <2>2
<1> QED BY <1>10 DEF WakeupInv

\* Time passes only while every timer is ahead of it.
LEMMA TickWakeup ==
  ASSUME IInv, WakeupInv, Tick
  PROVE  WakeupInv'
<1>1. /\ now \in Nat /\ now' = now + 1 /\ UNCHANGED <<ready, checks, removals, group>>
      /\ checks \in [CheckIds -> Check]
  BY DEF Tick, IInv, TypeOK
<1>2. ASSUME NEW c \in CheckIds PROVE Driven(c)'
  <2>1. Driven(c) /\ checks[c].deadline \in Nat
    BY <1>1 DEF WakeupInv, NoLostWakeup, Check
  <2>2. checks[c].state \in {"req_check", "con_check"} => now < checks[c].deadline
    BY DEF Tick
  <2> QED BY <1>1, <2>1, <2>2, TimesAssumption DEF Driven, Queued
<1>3. LoopInv'
  BY <1>1 DEF WakeupInv, LoopInv, Once, Queued, Runnable
<1>4. NoLostWakeup'
  BY <1>1, <1>2 DEF WakeupInv, NoLostWakeup, Blamed, Queued
<1> QED BY <1>3, <1>4 DEF WakeupInv

\* The exit cancels checks and puts those that await into the queue: one that has
\* not started is there already.
LEMMA ExitWakeup ==
  ASSUME IInv, WakeupInv, Exit
  PROVE  WakeupInv'
<1> DEFINE latest == {c \in CheckIds : \E p \in Peers : lastChecked[p] = c}
<1>1. PICK X \in SUBSET CheckIds : X = {c \in latest : checks[c].state \in Running}
  OBVIOUS
<1>2. PICK S \in SUBSET CheckIds : S = {c \in X : checks[c].state # "initiated"}
  OBVIOUS
<1>3. PICK t \in Seq(Callbacks) :
         /\ t = [i \in 1..Len(SetToSeq(S)) |-> <<"check", SetToSeq(S)[i]>>]
         /\ Once(t) /\ In(t) = {<<"check", c>> : c \in S}
  BY InWoken
<1>4. /\ group = "open" /\ group' = "exiting" /\ ready' = ready \o t
      /\ checks' = [c \in CheckIds |-> IF c \in X THEN [checks[c] EXCEPT !.state = "cancelling"]
                                                  ELSE checks[c]]
      /\ UNCHANGED <<now, removals>>
  BY <1>1, <1>2, <1>3 DEF Exit
<1>5. /\ ready \in Seq(Callbacks) /\ Once(ready) /\ checks \in [CheckIds -> Check]
  BY DEF IInv, TypeOK, WakeupInv, LoopInv
<1>6. Queued = In(ready) /\ Queued' = In(ready')
  BY QueuedIn
<1>7. \A c \in X : checks[c].state \in {"initiated", "req_check", "con_check"}
  BY <1>1, <1>4 DEF Running, WakeupInv, LoopInv
<1>8. \A c \in S : <<"check", c>> \notin In(ready)
  BY <1>2, <1>6, <1>7 DEF WakeupInv, LoopInv, Runnable
<1>9. In(ready') = In(ready) \cup {<<"check", c>> : c \in S} /\ Once(ready')
  <2>1. In(ready) \cap In(t) = {}
    BY <1>3, <1>8
  <2>2. In(ready \o t) = In(ready) \cup In(t) /\ Once(ready \o t)
    BY <1>3, <1>5, <2>1, InConcat
  <2> QED BY <1>3, <1>4, <2>2
<1>10. ASSUME NEW c \in CheckIds
       PROVE  /\ c \in X => checks'[c].state = "cancelling"
              /\ c \notin X => checks'[c] = checks[c]
  <2>1. checks[c] \in Check
    BY <1>5
  <2> QED BY <1>4, <2>1 DEF Check
<1>11. ASSUME NEW x \in In(ready') PROVE Runnable(x)'
  <2>1. CASE x \in In(ready)
    <3>1. x \in Callbacks /\ Runnable(x)
      BY <1>5, <1>6, <2>1 DEF In, WakeupInv, LoopInv
    <3>2. x[1] \in {"submit", "check", "wake"} => x[2] \in CheckIds
      BY <3>1, CallbackTypes
    <3>3. x[1] \in {"submit", "wake"} => x[2] \notin X
      BY <1>7, <3>1 DEF Runnable, Ended
    <3> QED BY <1>4, <1>10, <3>1, <3>2, <3>3 DEF Runnable
  <2>2. CASE x \notin In(ready)
    <3>1. PICK c \in S : x = <<"check", c>>
      BY <1>9, <2>2
    <3> QED BY <1>2, <1>10, <3>1 DEF Runnable
  <2> QED BY <2>1, <2>2
<1>12. ASSUME NEW c \in CheckIds PROVE Driven(c)'
  <2>1. Driven(c)
    BY DEF WakeupInv, NoLostWakeup
  <2>2. CASE c \in X
    <3>1. <<"check", c>> \in In(ready')
      BY <1>2, <1>6, <1>7, <1>9, <2>1, <2>2 DEF Driven
    <3> QED BY <1>6, <1>10, <2>2, <3>1 DEF Driven
  <2>3. CASE c \notin X
    BY <1>4, <1>6, <1>9, <1>10, <2>1, <2>3 DEF Driven
  <2> QED BY <2>2, <2>3
<1>13. ASSUME NEW r \in Removals
       PROVE  /\ removals[r].state = "spawned" => <<"waiter", r>> \in In(ready')
              /\ removals[r].state = "waiting" =>
                   /\ checks'[removals[r].fut].state # "none"
                   /\ checks'[removals[r].fut].state \in Ended =>
                        <<"wake", removals[r].fut>> \in In(ready')
  <2>1. /\ removals[r].state = "spawned" => <<"waiter", r>> \in In(ready)
        /\ removals[r].state = "waiting" =>
             /\ checks[removals[r].fut].state # "none"
             /\ checks[removals[r].fut].state \in Ended => <<"wake", removals[r].fut>> \in In(ready)
    BY <1>6 DEF WakeupInv, NoLostWakeup, Blamed
  <2>2. removals[r].state = "waiting" => removals[r].fut \in CheckIds
    BY DEF IInv, RemovalInv, RemovalOK
  <2> QED BY <1>9, <1>10, <2>1, <2>2 DEF Ended
<1>14. LoopInv'
  BY <1>4, <1>6, <1>9, <1>11 DEF LoopInv
<1>15. NoLostWakeup'
  BY <1>4, <1>6, <1>12, <1>13 DEF NoLostWakeup, Blamed
<1> QED BY <1>14, <1>15 DEF WakeupInv

\* Every step of the program keeps every wake-up.
LEMMA NextWakeup ==
  ASSUME IInv, QueueInv, WakeupInv, [Next]_vars
  PROVE  WakeupInv'
<1>1. CASE Loop
  BY <1>1, SubmitWakeup, NewCheckWakeup, CheckAndRemoveWakeup, WakeWakeup DEF Loop
<1>2. ASSUME NEW c \in CheckIds, PingTimeout(c)
      PROVE  WakeupInv'
  BY <1>2, PingTimeoutWakeup
<1>3. ASSUME NEW c \in CheckIds, NEW b \in BOOLEAN, ConnectEnds(c, b)
      PROVE  WakeupInv'
  BY <1>3, EndCheckWakeup DEF ConnectEnds
<1>4. ASSUME NEW c \in CheckIds, MsgArrived(c)
      PROVE  WakeupInv'
  BY <1>4, EndCheckWakeup DEF MsgArrived
<1>5. ASSUME NEW o \in Objects, NEW r \in Removals, RemovePeer(r, o)
      PROVE  WakeupInv'
  BY <1>5, RemovePeerWakeup
<1>6. CASE Exit
  BY <1>6, ExitWakeup
<1>7. CASE Tick
  BY <1>7, TickWakeup
<1>8. ASSUME UNCHANGED <<now, ready, checks, removals>>, group' \in {group, "closed"}
      PROVE  WakeupInv'
  <2>1. LoopInv'
    BY <1>8 DEF WakeupInv, LoopInv, Once, Queued, Runnable
  <2>2. NoLostWakeup'
    BY <1>8 DEF WakeupInv, NoLostWakeup, Blamed, Queued, Driven
  <2> QED BY <2>1, <2>2 DEF WakeupInv
<1>9. ASSUME NEW o \in Objects, NEW s \in {"online", "offline"}, AddContact(o, s)
      PROVE  WakeupInv'
  BY <1>8, <1>9 DEF AddContact
<1>10. CASE GroupExits \/ Finished \/ UNCHANGED vars
  BY <1>8, <1>10 DEF GroupExits, Finished, vars
<1> QED BY <1>1, <1>2, <1>3, <1>4, <1>5, <1>6, <1>7, <1>9, <1>10 DEF Next, EventLoop, Timers

\* The invariant holds, together with the order of the queue.
LEMMA WakeupInvariance == Spec => []WakeupInv
<1>1. Init => QueueInv /\ WakeupInv
  <2>1. Init => QueueInv
    BY DEF Init, QueueInv, QueueOK
  <2>2. Init => WakeupInv
    BY DEF Init, Over, WakeupInv, LoopInv, NoLostWakeup, Once, Queued, Driven
  <2> QED BY <2>1, <2>2
<1>2. IInv /\ (QueueInv /\ WakeupInv) /\ [Next]_vars => (QueueInv /\ WakeupInv)'
  BY NextQueue, NextWakeup
<1> QED BY <1>1, <1>2, Invariance, PTL DEF Spec

\* Whatever removals share, cancel or time out, no removal awaits in vain: its task is
\* queued, or its check goes on, or its wake-up is queued.  This is what RemovalsEnd
\* and ExitEnds rest on, for any number of peers and removals.
THEOREM WakeupsKept == Spec => []NoLostWakeup
<1>1. WakeupInv => NoLostWakeup
  BY DEF WakeupInv
<1> QED BY <1>1, WakeupInvariance, PTL

\* The event loop never gets stuck on a callback: the next one finds its check or its
\* removal in the state that it is for, each check is started and ended once.
LoopNeverStuck == ready # <<>> => Runnable(Head(ready))
THEOREM LoopGoesOn == Spec => []LoopNeverStuck
<1>1. IInv /\ WakeupInv => LoopNeverStuck
  BY InTail, QueuedIn DEF IInv, TypeOK, WakeupInv, LoopInv, LoopNeverStuck
<1> QED BY <1>1, Invariance, WakeupInvariance, PTL
=============================================================================
