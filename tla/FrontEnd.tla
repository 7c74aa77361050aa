------------------------------ MODULE FrontEnd ------------------------------
(***************************************************************************)
(* Messages to the web page: FrontEndDispatcher spawns one task per        *)
(* message, which runs FrontEndWebSocketDispatcher.submit (webpage_handlers*)
(* /pagehandle.py).  A message that cannot be sent goes to a bounded       *)
(* deque; the next submit that succeeds flushes it.  Pages come and go, so *)
(* a task may still await a send on an earlier websocket when the          *)
(* dispatcher already has another one.                                     *)
(***************************************************************************)
EXTENDS Integers, Sequences

CONSTANTS
  Msgs,           \* messages submitted; each one's task is named after it
  MaxBuffer,      \* const.MAX_FRONTEND_MESSAGE_BUFFER_LEN
  MaxTransports   \* bound: websocket connections the page ever makes

ASSUME BufferAssumption == MaxBuffer \in Nat \ {0}
ASSUME TransportsAssumption == MaxTransports \in Nat

Transports == 1..MaxTransports

VARIABLES
  ready,       \* tasks created and not yet started, in creation order
  pc,          \* where each task awaits
  hold,        \* the message the task is sending: its own, or one of the buffer's
  via,         \* the websocket of that send
  buffer,      \* the deque
  connected,   \* _is_transport_connected
  transport,   \* the current websocket, 0 for None
  used,        \* websockets that were ever connected: 1..used
  open,        \* those that are still open
  acked,       \* messages whose send returned
  discarded,   \* messages that fell out of the deque
  exited       \* the dispatchers' exit stack has unwound

vars == <<ready, pc, hold, via, buffer, connected, transport, used, open,
          acked, discarded, exited>>

Active == {t \in Msgs : pc[t] \in {"sending", "flushing"}}

Init ==
  /\ ready = <<>> /\ pc = [t \in Msgs |-> "new"]
  /\ hold = [t \in Msgs |-> t] /\ via = [t \in Msgs |-> 0]
  /\ buffer = <<>> /\ connected = FALSE /\ transport = 0 /\ used = 0
  /\ open = {} /\ acked = {} /\ discarded = {} /\ exited = FALSE

-----------------------------------------------------------------------------
(* deque(maxlen=buffer_size): an append at one end of a full deque drops    *)
(* the element at the other end.                                            *)

Full(b) == Len(b) >= MaxBuffer
DequeAppend(b, m) == Append(IF Full(b) THEN Tail(b) ELSE b, m)
DequeAppendLeft(b, m) == <<m>> \o (IF Full(b) THEN SubSeq(b, 1, Len(b) - 1) ELSE b)

Elements(b) == {b[i] : i \in 1..Len(b)}

\* The deque becomes b, in which m was put; whatever it no longer holds is lost.
Rebuffer(b) ==
  /\ buffer' = b
  /\ discarded' = discarded \cup (Elements(buffer) \ Elements(b))

\* Mutant: nothing makes room first.
HandleBufferMutant == buffer

\* _handle_buffer_and_log: the oldest message of a full buffer is discarded.
HandleBuffer == IF Full(buffer) THEN Tail(buffer) ELSE buffer

-----------------------------------------------------------------------------
(* The tasks *)

\* FrontEndDispatcher()(m): QueueMixIn.__call__ creates the task.
Submit(m) ==
  /\ pc[m] = "new" /\ ~exited
  /\ pc' = [pc EXCEPT ![m] = "queued"] /\ ready' = Append(ready, m)
  /\ UNCHANGED <<hold, via, buffer, connected, transport, used, open, acked,
                 discarded, exited>>

\* The task that was created first starts: submit, up to its first await.
Start ==
  /\ ready # <<>> /\ ready' = Tail(ready)
  /\ LET m == Head(ready) IN
       \/ /\ ~connected
          /\ Rebuffer(DequeAppend(buffer, m))
          /\ pc' = [pc EXCEPT ![m] = "done"]
          /\ UNCHANGED via
       \/ /\ connected
          /\ pc' = [pc EXCEPT ![m] = "sending"]
          /\ via' = [via EXCEPT ![m] = transport]
          /\ UNCHANGED <<buffer, discarded>>
  /\ UNCHANGED <<hold, connected, transport, used, open, acked, exited>>

\* Mutant: the message leaves the buffer only after its send returned.
FlushLoopMutant(t) ==
  IF buffer = <<>>
    THEN pc' = [pc EXCEPT ![t] = "done"] /\ UNCHANGED <<hold, via, buffer>>
    ELSE /\ pc' = [pc EXCEPT ![t] = "flushing"]
         /\ hold' = [hold EXCEPT ![t] = Head(buffer)]
         /\ via' = [via EXCEPT ![t] = transport]
         /\ UNCHANGED buffer

\* The head of _send_buffer's loop: pop the oldest message and start its send on
\* the websocket that is current now.
FlushLoop(t) ==
  IF buffer = <<>>
    THEN pc' = [pc EXCEPT ![t] = "done"] /\ UNCHANGED <<hold, via, buffer>>
    ELSE /\ pc' = [pc EXCEPT ![t] = "flushing"]
         /\ hold' = [hold EXCEPT ![t] = Head(buffer)]
         /\ via' = [via EXCEPT ![t] = transport]
         /\ buffer' = Tail(buffer)

\* A send returns, of the task's own message or of one it took from the buffer.
SendReturns(t) ==
  /\ t \in Active /\ via[t] \in open
  /\ acked' = acked \cup {hold[t]}
  /\ FlushLoop(t)
  /\ UNCHANGED <<ready, connected, transport, used, open, discarded, exited>>

\* Mutant: the message whose send failed is not put back.
SendRaisesMutant(t) ==
  /\ pc[t] = "sending" /\ via[t] \notin open
  /\ connected' = FALSE
  /\ Rebuffer(HandleBuffer)
  /\ pc' = [pc EXCEPT ![t] = "done"]
  /\ UNCHANGED <<ready, hold, via, transport, used, open, acked, exited>>

\* submit's send raises: back to the end of the buffer.
SendRaises(t) ==
  /\ pc[t] = "sending" /\ via[t] \notin open
  /\ connected' = FALSE
  /\ Rebuffer(DequeAppend(HandleBuffer, hold[t]))
  /\ pc' = [pc EXCEPT ![t] = "done"]
  /\ UNCHANGED <<ready, hold, via, transport, used, open, acked, exited>>

\* Mutant: the flush loop goes on after a failed send.
FlushRaisesMutant(t) ==
  /\ pc[t] = "flushing" /\ via[t] \notin open
  /\ connected' = FALSE
  /\ via' = [via EXCEPT ![t] = transport]
  /\ UNCHANGED <<ready, pc, hold, buffer, transport, used, open, acked, discarded, exited>>

\* _send_buffer's send raises: back to the front of the buffer.
FlushRaises(t) ==
  /\ pc[t] = "flushing" /\ via[t] \notin open
  /\ connected' = FALSE
  /\ Rebuffer(DequeAppendLeft(HandleBuffer, hold[t]))
  /\ pc' = [pc EXCEPT ![t] = "done"]
  /\ UNCHANGED <<ready, hold, via, transport, used, open, acked, exited>>

-----------------------------------------------------------------------------
(* The page *)

\* validate_connection: update_transport on the registered dispatcher.
UpdateTransport ==
  /\ used < MaxTransports /\ ~exited
  /\ used' = used + 1 /\ transport' = used' /\ connected' = TRUE
  /\ open' = open \cup {used'}
  /\ UNCHANGED <<ready, pc, hold, via, buffer, acked, discarded, exited>>

\* The page goes away; the dispatcher notices when a send raises.
PageCloses(w) ==
  /\ w \in open /\ open' = open \ {w}
  /\ UNCHANGED <<ready, pc, hold, via, buffer, connected, transport, used, acked,
                 discarded, exited>>

\* The exit stack unwinds: the server closes every websocket, __aexit__ closes
\* the current one; no more messages are accepted, those buffered are given up.
Exit ==
  /\ ~exited /\ exited' = TRUE /\ open' = {}
  /\ UNCHANGED <<ready, pc, hold, via, buffer, connected, transport, used, acked,
                 discarded>>

Task(t) == SendReturns(t) \/ SendRaises(t) \/ FlushRaises(t)

\* The dispatcher is closed and its task group has waited for every task.
Finished == exited /\ ready = <<>> /\ Active = {} /\ UNCHANGED vars

Next ==
  \/ Start \/ UpdateTransport \/ Exit \/ Finished
  \/ \E m \in Msgs : Submit(m) \/ Task(m)
  \/ \E w \in Transports : PageCloses(w)

Spec == Init /\ [][Next]_vars

\* The event loop starts every created task and a websocket's send returns or
\* raises (websockets closes a connection whose peer stopped answering pings).
FairSpec == Spec /\ WF_vars(Start) /\ \A t \in Msgs : WF_vars(Task(t))

-----------------------------------------------------------------------------
(* Properties *)

TypeOK ==
  /\ ready \in Seq(Msgs) /\ buffer \in Seq(Msgs)
  /\ pc \in [Msgs -> {"new", "queued", "sending", "flushing", "done"}]
  /\ hold \in [Msgs -> Msgs] /\ via \in [Msgs -> 0..MaxTransports]
  /\ connected \in BOOLEAN /\ exited \in BOOLEAN
  /\ transport \in 0..MaxTransports /\ used \in 0..MaxTransports
  /\ open \in SUBSET (1..used)
  /\ acked \in SUBSET Msgs /\ discarded \in SUBSET Msgs
  /\ Len(buffer) <= MaxBuffer

Queued(m) == pc[m] = "queued"
Held(m) == \E t \in Active : hold[t] = m

\* However sends, failures and reconnections of several tasks interleave, a
\* message handed to the dispatcher is somewhere: waiting for its task, in some
\* task's hands, in the buffer, sent, or discarded from a full buffer.
NothingLost ==
  \A m \in Msgs : pc[m] # "new" =>
    Queued(m) \/ Held(m) \/ m \in Elements(buffer) \/ m \in acked \/ m \in discarded

\* And it is in one place only: no two tasks send the same message, the buffer
\* holds no message twice or one that a task is sending, and what was sent or
\* discarded is never sent again.
OneOwner ==
  /\ \A t, u \in Active : hold[t] = hold[u] => t = u
  /\ \A i, j \in 1..Len(buffer) : buffer[i] = buffer[j] => i = j
  /\ \A m \in Msgs :
       /\ m \in Elements(buffer) => ~Held(m)
       /\ m \in acked \cup discarded => ~Held(m) /\ m \notin Elements(buffer)
       /\ Queued(m) => ~Held(m) /\ m \notin Elements(buffer) \cup acked \cup discarded
  /\ acked \cap discarded = {}

\* A message is given up only when the buffer is full, and then it is the oldest
\* one in the buffer, also when a task puts back what it had taken from the front.
OldestDropped ==
  [][discarded' # discarded =>
       /\ Full(buffer)
       /\ discarded' = discarded \cup {Head(buffer)}]_vars

\* Every task ends: the flush loop of one task does not run on what other tasks
\* keep putting back, and a broken websocket does not leave a task waiting.
TasksEnd == \A m \in Msgs : (pc[m] # "new") ~> (pc[m] = "done")
=============================================================================
