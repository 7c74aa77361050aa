---------------------------- MODULE Connectivity ----------------------------
(***************************************************************************)
(* Removal of a peer (core/peers.py) and the connectivity check it waits   *)
(* for (core/connectivity.py).  When a call to a contact fails, kademlia   *)
(* removes it from the routing table and remove_peer asks for a check:     *)
(* a ping, and if no reply comes in time a TCP connection.  Removals that  *)
(* come close together share one check.  Only a failed check marks the     *)
(* peer OFFLINE.  Several objects may stand for one peer: the one in       *)
(* Dock.peer_list and those that came with the answers of other peers.     *)
(***************************************************************************)
EXTENDS Integers, Sequences, SequencesExt

CONSTANTS
  Peers,                    \* peers, as RemotePeer.__eq__ tells them apart
  Copies,                   \* names of the RemotePeer objects of one peer
  MaxRemovals,              \* bound: calls of remove_peer
  Answering,                \* the peers that reply to REMOVAL_PING
  PING_TIMEOUT,             \* const.PING_TIMEOUT
  PING_TIME_CHECK_WINDOW,   \* const.PING_TIME_CHECK_WINDOW
  MaxAsk                    \* bound: no removal is asked after this instant

\* constants.py: 4 and 3.0 seconds.
ASSUME TimesAssumption ==
  /\ PING_TIMEOUT \in Nat \ {0} /\ PING_TIME_CHECK_WINDOW \in Nat /\ MaxAsk \in Nat
  /\ MaxRemovals \in Nat
  /\ PING_TIME_CHECK_WINDOW < PING_TIMEOUT
ASSUME AnsweringAssumption == Answering \subseteq Peers

Removals == 1..MaxRemovals      \* numbered in the order of the calls
Objects == Peers \X Copies
PeerOf(o) == o[1]

\* A check is named after the removal and the caller of new_check it was made for.
Callers == {"remove_peer", "check_and_remove_if_needed"}
CheckIds == Removals \X Callers
NoCheck == <<>>
NoObject == <<>>

\* No check outlives this instant, so that time need not pass it.
MaxTime == MaxAsk + 2 * PING_TIMEOUT

VARIABLES
  now,          \* time.monotonic(), in seconds
  ready,        \* the event loop's queue of callbacks: tasks to start or to wake
  checks,       \* CheckRequest, and its _new_check task
  lastChecked,  \* Connectivity.last_checked
  removals,     \* the removals asked
  status,       \* RemotePeer.status of each object
  peerList,     \* Dock.peer_list
  page,         \* what the page was last told of each peer
  contacts,     \* peers in kademlia's routing table
  group         \* the TaskGroup of Connectivity: "open", "exiting", "closed"

vars == <<now, ready, checks, lastChecked, removals, status, peerList,
          page, contacts, group>>

Running == {"initiated", "req_check", "con_check", "cancelling"}
Ended == {"completed", "cancelled"}
Verdicts == {"online", "offline", "raised"}

\* A removal without a task.
Over(state) == [state |-> state, obj |-> NoObject, asked |-> 0, fut |-> NoCheck]

Init ==
  /\ now = 0 /\ ready = <<>>
  /\ checks = [c \in CheckIds |-> [state |-> "none", peer |-> NoCheck, stamp |-> 0,
                                   deadline |-> 0, succeeded |-> FALSE, failedAt |-> 0]]
  /\ lastChecked = [p \in Peers |-> NoCheck]
  /\ removals = [r \in Removals |-> Over("idle")]
  /\ status = [o \in Objects |-> "online"]
  /\ peerList = [p \in Peers |-> NoObject] /\ page = [p \in Peers |-> "offline"]
  /\ contacts = {} /\ group = "open"

-----------------------------------------------------------------------------
(* new_check *)

\* Mutant: a check is recent for ever.
CheckForRecentMutant(p) == lastChecked[p]
\* check_for_recent: the check to share, if the latest one was asked for within the window.
CheckForRecent(p) ==
  LET c == lastChecked[p] IN
  IF c # NoCheck /\ now - checks[c].stamp <= PING_TIME_CHECK_WINDOW THEN c ELSE NoCheck

\* connector(req): a task that will run submit; the closed group refuses it.
Spawn(c, p) == checks' = [checks EXCEPT ![c].state = "queued", ![c].peer = p,
                                        ![c].stamp = now]

-----------------------------------------------------------------------------
(* may_be_remove *)

\* Mutant: the page is not told.
MayBeRemoveMutant(objects, what) ==
  /\ status' = [o \in Objects |-> IF ~what /\ o \in objects THEN "offline" ELSE status[o]]
  /\ page' = page

\* For the objects of one peer whose removals learn the outcome together.
MayBeRemove(objects, what) ==
  /\ status' = [o \in Objects |-> IF ~what /\ o \in objects THEN "offline" ELSE status[o]]
  /\ page' = [p \in Peers |-> IF ~what /\ \E o \in objects : PeerOf(o) = p
                                 THEN "offline" ELSE page[p]]

Outcome(c) == IF checks[c].state = "cancelled" THEN "raised"
              ELSE IF checks[c].succeeded THEN "online" ELSE "offline"

\* The result of the ended check c is used for the removals rs, of these objects;
\* a cancelled one raises.  Their tasks are over and forget what they knew.
Conclude(rs, objects, c) ==
  /\ removals' = [r \in Removals |-> IF r \in rs THEN Over(Outcome(c)) ELSE removals[r]]
  /\ MayBeRemove(objects, Outcome(c) # "offline")

Refused(r) == removals' = [removals EXCEPT ![r] = Over("raised")] /\ UNCHANGED <<status, page>>

Await(r, o, asked, state, c) ==
  /\ removals' = [removals EXCEPT ![r] = [obj |-> o, asked |-> asked, fut |-> c,
                                          state |-> state]]
  /\ UNCHANGED <<status, page>>

-----------------------------------------------------------------------------
(* The routing table's callbacks *)

\* add_contact of a peer that is not a contact: new_peer.  The object was just
\* decoded, with the status its sender gave the peer.
AddContact(o, announced) ==
  LET p == PeerOf(o) IN
  /\ p \notin contacts /\ peerList[p] # o
  /\ \A r \in Removals : removals[r].obj # o
  /\ contacts' = contacts \cup {p}
  /\ status' = [status EXCEPT ![o] = announced]
  /\ peerList' = [peerList EXCEPT ![p] = o]
  /\ page' = [page EXCEPT ![p] = announced]
  /\ UNCHANGED <<now, ready, checks, lastChecked, removals, group>>

\* remove_contact, then remove_peer: with a check to share that has ended the
\* outcome is there, otherwise check_and_remove_if_needed becomes a task, behind
\* the submit of the check that was made.
RemovePeer(r, o) ==
  LET p == PeerOf(o)
      c == CheckForRecent(p)
      mine == <<r, "remove_peer">> IN
  /\ removals[r].state = "idle" /\ \A q \in 1..(r - 1) : removals[q].state # "idle"
  /\ now <= MaxAsk
  /\ contacts' = contacts \ {p}
  /\ \/ /\ c # NoCheck /\ checks[c].state \in Ended
        /\ Conclude({r}, {o}, c)
        /\ UNCHANGED <<ready, checks>>
     \/ /\ c # NoCheck /\ checks[c].state \notin Ended
        /\ ready' = Append(ready, <<"waiter", r>>)
        /\ Await(r, o, now, "spawned", NoCheck)
        /\ UNCHANGED checks
     \/ /\ c = NoCheck /\ group # "closed"
        /\ Spawn(mine, p)
        /\ ready' = ready \o << <<"submit", mine>>, <<"waiter", r>> >>
        /\ Await(r, o, now, "spawned", NoCheck)
     \/ /\ c = NoCheck /\ group = "closed"
        /\ Refused(r)
        /\ UNCHANGED <<ready, checks>>
  /\ UNCHANGED <<now, lastChecked, peerList, group>>

-----------------------------------------------------------------------------
(* The callbacks of the event loop *)

\* When a wait that begins now times out.
Deadline == now + PING_TIMEOUT

Runs(kind) == ready # <<>> /\ Head(ready)[1] = kind
Callback == Head(ready)[2]

\* Mutant: the check starts without being recorded.
SubmitMutant ==
  /\ Runs("submit") /\ checks[Callback].state = "queued"
  /\ checks' = [checks EXCEPT ![Callback].state = "initiated"]
  /\ ready' = Append(Tail(ready), <<"check", Callback>>)
  /\ UNCHANGED <<now, lastChecked, removals, status, peerList, page, contacts, group>>

\* Connectivity.submit: record the check as the peer's latest, start _new_check, await it.
Submit ==
  /\ Runs("submit") /\ checks[Callback].state = "queued"
  /\ lastChecked' = [lastChecked EXCEPT ![checks[Callback].peer] = Callback]
  /\ checks' = [checks EXCEPT ![Callback].state = "initiated"]
  /\ ready' = Append(Tail(ready), <<"check", Callback>>)
  /\ UNCHANGED <<now, removals, status, peerList, page, contacts, group>>

\* Mutant: a task that was cancelled ends and wakes nobody.
NewCheckMutant ==
  /\ Runs("check")
  /\ \/ /\ checks[Callback].state = "initiated"
        /\ checks' = [checks EXCEPT ![Callback].state = "req_check",
                                    ![Callback].deadline = Deadline]
     \/ /\ checks[Callback].state = "cancelling"
        /\ checks' = [checks EXCEPT ![Callback].state = "cancelled", ![Callback].deadline = 0]
  /\ ready' = Tail(ready)
  /\ UNCHANGED <<now, lastChecked, removals, status, peerList, page, contacts, group>>

\* _new_check, up to its first await: register the reply, send the ping.  A task
\* that was cancelled meanwhile raises instead, wherever it awaits.
NewCheck ==
  /\ Runs("check")
  /\ \/ /\ checks[Callback].state = "initiated"
        /\ checks' = [checks EXCEPT ![Callback].state = "req_check",
                                    ![Callback].deadline = Deadline]
        /\ ready' = Tail(ready)
     \/ /\ checks[Callback].state = "cancelling"
        /\ checks' = [checks EXCEPT ![Callback].state = "cancelled", ![Callback].deadline = 0]
        /\ ready' = Append(Tail(ready), <<"wake", Callback>>)
  /\ UNCHANGED <<now, lastChecked, removals, status, peerList, page, contacts, group>>

\* check_and_remove_if_needed asks for the check again and awaits it.
CheckAndRemove ==
  LET r == Callback
      o == removals[r].obj
      c == CheckForRecent(PeerOf(o))
      mine == <<r, "check_and_remove_if_needed">> IN
  /\ Runs("waiter") /\ removals[r].state = "spawned"
  /\ \/ /\ c # NoCheck /\ checks[c].state \in Ended
        /\ Conclude({r}, {o}, c)
        /\ ready' = Tail(ready) /\ UNCHANGED checks
     \/ /\ c # NoCheck /\ checks[c].state \notin Ended
        /\ Await(r, o, removals[r].asked, "waiting", c)
        /\ ready' = Tail(ready) /\ UNCHANGED checks
     \/ /\ c = NoCheck /\ group # "closed"
        /\ Spawn(mine, PeerOf(o))
        /\ Await(r, o, removals[r].asked, "waiting", mine)
        /\ ready' = Append(Tail(ready), <<"submit", mine>>)
     \/ /\ c = NoCheck /\ group = "closed"
        /\ Refused(r)
        /\ ready' = Tail(ready) /\ UNCHANGED checks
  /\ UNCHANGED <<now, lastChecked, peerList, contacts, group>>

\* A check has ended: every check_and_remove_if_needed that awaits it goes on.
Wake ==
  LET waiting == {r \in Removals : removals[r].state = "waiting" /\ removals[r].fut = Callback} IN
  /\ Runs("wake")
  /\ ready' = Tail(ready)
  /\ Conclude(waiting, {removals[r].obj : r \in waiting}, Callback)
  /\ UNCHANGED <<now, checks, lastChecked, peerList, contacts, group>>

-----------------------------------------------------------------------------
(* Replies, timeouts, connections *)

EndCheck(c, succeeded) ==
  /\ checks' = [checks EXCEPT ![c].state = "completed", ![c].succeeded = succeeded,
                              ![c].failedAt = IF succeeded THEN 0 ELSE now,
                              ![c].deadline = 0]
  /\ ready' = Append(ready, <<"wake", c>>)

\* msg_arrived: the reply came in time.  A late one finds a future that wait_for
\* has cancelled and changes nothing but the registry, which held it until then.
MsgArrived(c) ==
  /\ checks[c].state = "req_check" /\ checks[c].peer \in Answering
  /\ EndCheck(c, TRUE)
  /\ UNCHANGED <<now, lastChecked, removals, status, peerList, page, contacts, group>>

\* Mutant: the ping has no timeout.
PingTimeoutMutant(c) == FALSE /\ UNCHANGED vars

\* wait_for raises TimeoutError: try TCP.
PingTimeout(c) ==
  /\ checks[c].state = "req_check" /\ now >= checks[c].deadline
  /\ checks' = [checks EXCEPT ![c].state = "con_check",
                              ![c].deadline = Deadline]
  /\ UNCHANGED <<now, ready, lastChecked, removals, status, peerList, page,
                 contacts, group>>

\* connect_to_peer returns a socket, or raises OSError: refused, or timed out.
ConnectEnds(c, succeeded) ==
  /\ checks[c].state = "con_check"
  /\ EndCheck(c, succeeded)
  /\ UNCHANGED <<now, lastChecked, removals, status, peerList, page, contacts,
                 group>>

\* The loop sleeps only when no callback is ready and no timer is due.
Tick ==
  /\ ready = <<>> /\ now < MaxTime
  /\ \A c \in CheckIds : checks[c].state \in {"req_check", "con_check"} =>
                           now < checks[c].deadline
  /\ now' = now + 1
  /\ UNCHANGED <<ready, checks, lastChecked, removals, status, peerList, page,
                 contacts, group>>

-----------------------------------------------------------------------------
(* The way out *)

\* __aexit__ cancels the latest check of every peer; a task that awaits is put
\* into the queue, one that has not started is there already.
Exit ==
  LET latest == {c \in CheckIds : \E p \in Peers : lastChecked[p] = c}
      cancelled == {c \in latest : checks[c].state \in Running}
      awaiting == SetToSeq({c \in cancelled : checks[c].state # "initiated"}) IN
  /\ group = "open" /\ group' = "exiting"
  /\ checks' = [c \in CheckIds |-> IF c \in cancelled
                                     THEN [checks[c] EXCEPT !.state = "cancelling"]
                                     ELSE checks[c]]
  /\ ready' = ready \o [i \in 1..Len(awaiting) |-> <<"check", awaiting[i]>>]
  /\ UNCHANGED <<now, lastChecked, removals, status, peerList, page, contacts>>

\* The group's own __aexit__ waits for every submit task.
GroupExits ==
  /\ group = "exiting" /\ ready = <<>>
  /\ \A c \in CheckIds : checks[c].state \in Ended \cup {"none"}
  /\ group' = "closed"
  /\ UNCHANGED <<now, ready, checks, lastChecked, removals, status, peerList,
                 page, contacts>>

\* Nothing is left to do within the bounds.
Finished ==
  /\ now = MaxTime /\ ready = <<>> /\ group = "closed"
  /\ UNCHANGED vars

Loop == Submit \/ NewCheck \/ CheckAndRemove \/ Wake
Timers == \E c \in CheckIds : PingTimeout(c) \/ \E b \in BOOLEAN : ConnectEnds(c, b)
EventLoop == Loop \/ Timers \/ Tick \/ GroupExits

Next ==
  \/ EventLoop \/ Exit \/ Finished
  \/ \E c \in CheckIds : MsgArrived(c)
  \/ \E o \in Objects :
       \/ \E s \in {"online", "offline"} : AddContact(o, s)
       \/ \E r \in Removals : RemovePeer(r, o)

Spec == Init /\ [][Next]_vars

\* The event loop goes on running callbacks and firing timers, and a connection
\* attempt ends by its own timeout.  Nothing is assumed of peers, replies or exit.
FairSpec == Spec /\ WF_vars(EventLoop)

-----------------------------------------------------------------------------
(* Properties *)

Callbacks == ({"submit", "check", "wake"} \X CheckIds) \cup ({"waiter"} \X Removals)
Check == [state : {"none", "queued"} \cup Running \cup Ended,
          peer : Peers \cup {NoCheck}, stamp : Nat, deadline : Nat,
          succeeded : BOOLEAN, failedAt : Nat]
Removal == [state : {"idle", "spawned", "waiting"} \cup Verdicts,
            obj : Objects \cup {NoObject}, asked : Nat, fut : CheckIds \cup {NoCheck}]

\* The types of the checker's and the removals' state.
TypeOK ==
  /\ now \in Nat /\ ready \in Seq(Callbacks)
  /\ checks \in [CheckIds -> Check] /\ removals \in [Removals -> Removal]
  /\ lastChecked \in [Peers -> CheckIds \cup {NoCheck}]
  /\ status \in [Objects -> {"online", "offline"}]
  /\ page \in [Peers -> {"online", "offline"}]
  /\ peerList \in [Peers -> Objects \cup {NoObject}]
  /\ contacts \subseteq Peers
  /\ group \in {"open", "exiting", "closed"}

\* The check whose result removal r uses.
Blamed(r) == checks[removals[r].fut]

\* "If peer is reachable then it is not removed": whatever check a removal came to
\* share, an outcome that marks the peer offline is a failure to reach this very
\* peer that was seen after the removal was asked, never one remembered from before.
FreshVerdict ==
  [][\A r \in Removals :
       removals[r].state # "offline" /\ removals'[r].state = "offline" =>
         /\ removals[r].state = "waiting"
         /\ Blamed(r).state = "completed" /\ ~Blamed(r).succeeded
         /\ Blamed(r).peer = PeerOf(removals[r].obj)
         /\ Blamed(r).failedAt >= removals[r].asked]_vars

\* A removal makes at most one check although it asks for it twice: when
\* check_and_remove_if_needed asks, the check that remove_peer asked for is recorded.
SharesItsCheck ==
  \A r \in Removals : checks[<<r, "check_and_remove_if_needed">>].state = "none"

\* An object in Dock.peer_list that is OFFLINE is shown as such, however
\* removals of other objects of the peer and its return interleave.
OfflineShown ==
  \A p \in Peers :
    peerList[p] # NoObject /\ status[peerList[p]] = "offline" => page[p] = "offline"

\* The callbacks the event loop has still to run.
Queued == {ready[i] : i \in 1..Len(ready)}

\* What goes on with check c is there: the callback that runs its task next, or a
\* timer that is due within its timeout.
Driven(c) ==
  /\ checks[c].state = "queued" => <<"submit", c>> \in Queued
  /\ checks[c].state \in {"initiated", "cancelling"} => <<"check", c>> \in Queued
  /\ checks[c].state \in {"req_check", "con_check"} =>
       now <= checks[c].deadline /\ checks[c].deadline <= now + PING_TIMEOUT

\* No wake-up is lost: whatever is shared, cancelled or timed out, a removal that
\* awaits has a task in the queue, or a check that goes on, or one that has ended
\* and whose wake-up is still in the queue.
NoLostWakeup ==
  /\ \A c \in CheckIds : Driven(c)
  /\ \A r \in Removals : removals[r].state = "spawned" => <<"waiter", r>> \in Queued
  /\ \A r \in Removals : removals[r].state = "waiting" =>
       /\ Blamed(r).state # "none"
       /\ Blamed(r).state \in Ended => <<"wake", removals[r].fut>> \in Queued

\* Every removal gets its outcome, whatever is lost.
RemovalsEnd ==
  \A r \in Removals :
    (removals[r].state \in {"spawned", "waiting"}) ~> (removals[r].state \in Verdicts)

\* The exit ends, within the timeouts of the checks that were not cancelled.
ExitEnds == (group = "exiting") ~> (group = "closed")
=============================================================================
