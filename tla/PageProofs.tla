----------------------------- MODULE PageProofs -----------------------------
(***************************************************************************)
(* Proofs about the two components that serve the web page and keep state  *)
(* of their own: FrontEnd, the messages to it, for any set of messages,    *)
(* any buffer length and any number of websockets; and Profiles, which it  *)
(* edits, for any names, pages, answers and kills.  They share no state;   *)
(* the proofs about Profiles begin at "The calls a handler has still to    *)
(* make".                                                                  *)
(***************************************************************************)
EXTENDS FrontEnd, Profiles, SequenceTheorems, FiniteSetTheorems, TLAPS

Inj(b) == \A i, j \in 1..Len(b) : b[i] = b[j] => i = j

-----------------------------------------------------------------------------
(* The deque *)

\* Appending to the right of the deque adds one element, and keeps elements
\* distinct when it is a new one.
LEMMA AppendElements ==
  ASSUME NEW S, NEW b \in Seq(S), NEW m \in S
  PROVE  /\ Append(b, m) \in Seq(S) /\ Len(Append(b, m)) = Len(b) + 1
         /\ Elements(Append(b, m)) = Elements(b) \cup {m}
         /\ Inj(b) /\ m \notin Elements(b) => Inj(Append(b, m))
<1>1. /\ Append(b, m) \in Seq(S) /\ Len(Append(b, m)) = Len(b) + 1
      /\ \A i \in 1..Len(b) : Append(b, m)[i] = b[i]
      /\ Append(b, m)[Len(b) + 1] = m
      /\ Len(b) \in Nat
  OBVIOUS
<1>2. Elements(Append(b, m)) = Elements(b) \cup {m}
  <2>1. ASSUME NEW x \in Elements(Append(b, m)) PROVE x \in Elements(b) \cup {m}
    BY <1>1, <2>1 DEF Elements
  <2>2. ASSUME NEW x \in Elements(b) PROVE x \in Elements(Append(b, m))
    <3>1. PICK i \in 1..Len(b) : x = b[i]
      BY <2>2 DEF Elements
    <3>2. i \in 1..Len(Append(b, m)) /\ Append(b, m)[i] = x
      BY <1>1, <3>1
    <3> QED BY <3>2 DEF Elements
  <2>3. m \in Elements(Append(b, m))
    <3>1. Len(b) + 1 \in 1..Len(Append(b, m)) /\ Append(b, m)[Len(b) + 1] = m
      BY <1>1
    <3> QED BY <3>1 DEF Elements
  <2> QED BY <2>1, <2>2, <2>3
<1>3. ASSUME Inj(b), m \notin Elements(b) PROVE Inj(Append(b, m))
  BY <1>1, <1>3 DEF Inj, Elements
<1> QED BY <1>1, <1>2, <1>3

\* Taking the leftmost element of a non-empty deque removes just that element.
LEMMA TailElements ==
  ASSUME NEW S, NEW b \in Seq(S), b # <<>>
  PROVE  /\ Tail(b) \in Seq(S) /\ Len(Tail(b)) = Len(b) - 1 /\ Len(b) > 0
         /\ Head(b) \in S
         /\ Elements(b) = Elements(Tail(b)) \cup {Head(b)}
         /\ Inj(b) => Inj(Tail(b)) /\ Head(b) \notin Elements(Tail(b))
<1>1. /\ Tail(b) \in Seq(S) /\ Len(Tail(b)) = Len(b) - 1 /\ Len(b) \in Nat /\ Len(b) > 0
      /\ \A i \in 1..Len(b) - 1 : Tail(b)[i] = b[i + 1]
      /\ Head(b) = b[1] /\ Head(b) \in S
  OBVIOUS
<1>2. Elements(b) = Elements(Tail(b)) \cup {Head(b)}
  <2>1. ASSUME NEW x \in Elements(b) PROVE x \in Elements(Tail(b)) \cup {Head(b)}
    <3>1. PICK i \in 1..Len(b) : x = b[i]
      BY <2>1 DEF Elements
    <3>2. CASE i = 1
      BY <1>1, <3>1, <3>2
    <3>3. CASE i # 1
      <4>1. i - 1 \in 1..Len(Tail(b)) /\ Tail(b)[i - 1] = x
        BY <1>1, <3>1, <3>3
      <4> QED BY <4>1 DEF Elements
    <3> QED BY <3>2, <3>3
  <2>2. ASSUME NEW x \in Elements(Tail(b)) PROVE x \in Elements(b)
    <3>1. PICK i \in 1..Len(Tail(b)) : x = Tail(b)[i]
      BY <2>2 DEF Elements
    <3>2. i + 1 \in 1..Len(b) /\ b[i + 1] = x
      BY <1>1, <3>1
    <3> QED BY <3>2 DEF Elements
  <2>3. Head(b) \in Elements(b)
    <3>1. 1 \in 1..Len(b) BY <1>1
    <3> QED BY <1>1, <3>1 DEF Elements
  <2> QED BY <2>1, <2>2, <2>3
<1>3. ASSUME Inj(b) PROVE Inj(Tail(b)) /\ Head(b) \notin Elements(Tail(b))
  <2>1. ASSUME NEW i \in 1..Len(Tail(b)), NEW j \in 1..Len(Tail(b)), Tail(b)[i] = Tail(b)[j]
        PROVE  i = j
    <3>1. i + 1 \in 1..Len(b) /\ j + 1 \in 1..Len(b) /\ b[i + 1] = b[j + 1]
      BY <1>1, <2>1
    <3>2. i + 1 = j + 1 BY <1>3, <3>1 DEF Inj
    <3> QED BY <3>2, <1>1
  <2>2. ASSUME NEW i \in 1..Len(Tail(b)), Head(b) = Tail(b)[i] PROVE FALSE
    <3>1. 1 \in 1..Len(b) /\ i + 1 \in 1..Len(b) /\ b[1] = b[i + 1]
      BY <1>1, <2>2
    <3>2. 1 = i + 1 BY <1>3, <3>1 DEF Inj
    <3> QED BY <3>2, <1>1
  <2> QED BY <2>1, <2>2 DEF Inj, Elements
<1> QED BY <1>1, <1>2, <1>3

\* Putting an element back at the left adds it and keeps elements distinct.
LEMMA ConsElements ==
  ASSUME NEW S, NEW b \in Seq(S), NEW m \in S
  PROVE  /\ <<m>> \o b \in Seq(S) /\ Len(<<m>> \o b) = Len(b) + 1
         /\ Elements(<<m>> \o b) = Elements(b) \cup {m}
         /\ Inj(b) /\ m \notin Elements(b) => Inj(<<m>> \o b)
<1> DEFINE c == <<m>> \o b
<1>1. /\ c \in Seq(S) /\ Len(c) = Len(b) + 1 /\ Len(b) \in Nat
      /\ c[1] = m /\ \A i \in 2..Len(b) + 1 : c[i] = b[i - 1]
  OBVIOUS
<1> HIDE DEF c
<1>2. Elements(c) = Elements(b) \cup {m}
  <2>1. ASSUME NEW x \in Elements(c) PROVE x \in Elements(b) \cup {m}
    <3>1. PICK i \in 1..Len(c) : x = c[i]
      BY <2>1 DEF Elements
    <3>2. i = 1 \/ (i \in 2..Len(b) + 1 /\ i - 1 \in 1..Len(b))
      BY <1>1, <3>1
    <3> QED BY <1>1, <3>1, <3>2 DEF Elements
  <2>2. ASSUME NEW x \in Elements(b) PROVE x \in Elements(c)
    <3>1. PICK i \in 1..Len(b) : x = b[i]
      BY <2>2 DEF Elements
    <3>2. i + 1 \in 1..Len(c) /\ c[i + 1] = x
      BY <1>1, <3>1
    <3> QED BY <3>2 DEF Elements
  <2>3. m \in Elements(c)
    <3>1. 1 \in 1..Len(c) BY <1>1
    <3> QED BY <1>1, <3>1 DEF Elements
  <2> QED BY <2>1, <2>2, <2>3
<1>3. ASSUME Inj(b), m \notin Elements(b) PROVE Inj(c)
  <2>1. ASSUME NEW i \in 1..Len(c), NEW j \in 1..Len(c), c[i] = c[j] PROVE i = j
    <3>1. \A k \in 1..Len(c) : k # 1 => k - 1 \in 1..Len(b) /\ c[k] = b[k - 1]
      BY <1>1
    <3>2. \A k \in 1..Len(b) : b[k] # m
      BY <1>3 DEF Elements
    <3>3. CASE i = 1 /\ j = 1 BY <3>3
    <3>4. CASE i = 1 /\ j # 1 BY <1>1, <2>1, <3>1, <3>2, <3>4
    <3>5. CASE i # 1 /\ j = 1 BY <1>1, <2>1, <3>1, <3>2, <3>5
    <3>6. CASE i # 1 /\ j # 1
      <4>1. i - 1 = j - 1 BY <1>3, <2>1, <3>1, <3>6 DEF Inj
      <4> QED BY <4>1, <1>1
    <3> QED BY <3>3, <3>4, <3>5, <3>6
  <2> QED BY <2>1 DEF Inj
<1> QED BY <1>1, <1>2, <1>3 DEF c

-----------------------------------------------------------------------------
(* Putting a message into the buffer *)

\* What the buffer loses when a message is put into it.
Dropped == IF Full(buffer) THEN {Head(buffer)} ELSE {}

\* After _handle_buffer_and_log there is room, so neither end of the deque drops
\* anything more, and the three ways to put a message back differ only in place.
LEMMA RoomMade ==
  ASSUME TypeOK, NEW m \in Msgs
  PROVE  /\ HandleBuffer \in Seq(Msgs) /\ Len(HandleBuffer) < MaxBuffer
         /\ Elements(buffer) = Elements(HandleBuffer) \cup Dropped
         /\ Inj(buffer) => Inj(HandleBuffer) /\ Dropped \cap Elements(HandleBuffer) = {}
         /\ DequeAppend(buffer, m) = Append(HandleBuffer, m)
         /\ DequeAppend(HandleBuffer, m) = Append(HandleBuffer, m)
         /\ DequeAppendLeft(HandleBuffer, m) = <<m>> \o HandleBuffer
<1>1. buffer \in Seq(Msgs) /\ Len(buffer) \in Nat /\ Len(buffer) <= MaxBuffer /\ MaxBuffer \in Nat \ {0}
  BY BufferAssumption DEF TypeOK
<1>2. CASE Full(buffer)
  <2>1. buffer # <<>> BY <1>1, <1>2 DEF Full
  <2>2. /\ Tail(buffer) \in Seq(Msgs) /\ Len(Tail(buffer)) = Len(buffer) - 1
        /\ Elements(buffer) = Elements(Tail(buffer)) \cup {Head(buffer)}
        /\ Inj(buffer) => Inj(Tail(buffer)) /\ Head(buffer) \notin Elements(Tail(buffer))
    BY <1>1, <2>1, TailElements
  <2>3. HandleBuffer = Tail(buffer) /\ Dropped = {Head(buffer)}
    BY <1>2 DEF HandleBuffer, Dropped
  <2>4. ~Full(HandleBuffer) /\ Len(HandleBuffer) < MaxBuffer
    BY <1>1, <2>2, <2>3 DEF Full
  <2> QED BY <1>2, <2>2, <2>3, <2>4 DEF DequeAppend, DequeAppendLeft
<1>3. CASE ~Full(buffer)
  <2>1. HandleBuffer = buffer /\ Dropped = {} /\ Len(buffer) < MaxBuffer
    BY <1>1, <1>3 DEF HandleBuffer, Dropped, Full
  <2> QED BY <1>1, <1>3, <2>1 DEF DequeAppend, DequeAppendLeft
<1> QED BY <1>2, <1>3

\* Putting a message that is not there into the buffer: what is dropped is what
\* becomes discarded, and nothing else moves.
LEMMA PutBack ==
  ASSUME TypeOK, Inj(buffer), NEW m \in Msgs, m \notin Elements(buffer), NEW b,
         b = Append(HandleBuffer, m) \/ b = <<m>> \o HandleBuffer, Rebuffer(b)
  PROVE  /\ buffer' \in Seq(Msgs) /\ Len(buffer') <= MaxBuffer /\ Inj(buffer)'
         /\ Elements(buffer)' = (Elements(buffer) \ Dropped) \cup {m}
         /\ Dropped \subseteq Elements(buffer)
         /\ discarded' = discarded \cup Dropped
<1>1. /\ HandleBuffer \in Seq(Msgs) /\ Len(HandleBuffer) < MaxBuffer
      /\ Elements(buffer) = Elements(HandleBuffer) \cup Dropped
      /\ Inj(HandleBuffer) /\ Dropped \cap Elements(HandleBuffer) = {}
  BY RoomMade
<1>2. m \notin Elements(HandleBuffer)
  BY <1>1
<1>3. /\ b \in Seq(Msgs) /\ Len(b) = Len(HandleBuffer) + 1 /\ Inj(b)
      /\ Elements(b) = Elements(HandleBuffer) \cup {m}
  <2>1. CASE b = Append(HandleBuffer, m)
    BY <1>1, <1>2, <2>1, AppendElements
  <2>2. CASE b = <<m>> \o HandleBuffer
    BY <1>1, <1>2, <2>2, ConsElements
  <2> QED BY <2>1, <2>2
<1>4. Len(b) <= MaxBuffer
  <2>1. Len(HandleBuffer) \in Nat BY <1>1
  <2> QED BY <1>1, <1>3, <2>1, BufferAssumption
<1>5. buffer' = b /\ discarded' = discarded \cup (Elements(buffer) \ Elements(b))
  BY DEF Rebuffer
<1>6. Elements(buffer)' = Elements(b) /\ (Inj(buffer)' <=> Inj(b))
  BY <1>5 DEF Elements, Inj
<1>7. Elements(buffer) \ Elements(b) = Dropped
  BY <1>1, <1>3
<1> QED BY <1>1, <1>3, <1>4, <1>5, <1>6, <1>7

-----------------------------------------------------------------------------
(* The inductive invariant *)

\* The ready queue holds each task that was created and has not started, once.
ReadyInv == Inj(ready) /\ \A m \in Msgs : m \in Elements(ready) <=> pc[m] = "queued"

\* Until its own send ended, a task holds its own message.
OwnInv == \A t \in Msgs : pc[t] \in {"new", "queued", "sending"} => hold[t] = t

\* A message not yet submitted is nowhere.
NewInv == \A m \in Msgs : pc[m] = "new" =>
  ~Held(m) /\ m \notin Elements(buffer) /\ m \notin acked /\ m \notin discarded

IInv == TypeOK /\ ReadyInv /\ OwnInv /\ NewInv /\ OneOwner /\ NothingLost

\* The dispatcher starts with an empty buffer and no task.
LEMMA InitIInv == Init => IInv
<1> SUFFICES ASSUME Init PROVE IInv
  OBVIOUS
<1>1. TypeOK
  <2>1. ready \in Seq(Msgs) /\ buffer \in Seq(Msgs) /\ Len(buffer) = 0
    BY DEF Init
  <2>2. /\ pc \in [Msgs -> {"new", "queued", "sending", "flushing", "done"}]
        /\ hold \in [Msgs -> Msgs] /\ via \in [Msgs -> 0..MaxTransports]
    BY TransportsAssumption DEF Init
  <2>3. /\ connected \in BOOLEAN /\ exited \in BOOLEAN
        /\ open \in SUBSET (1..used) /\ acked \in SUBSET Msgs /\ discarded \in SUBSET Msgs
    BY DEF Init
  <2>4. transport \in 0..MaxTransports /\ used \in 0..MaxTransports /\ 0 <= MaxBuffer
    BY BufferAssumption, TransportsAssumption DEF Init
  <2> QED BY <2>1, <2>2, <2>3, <2>4 DEF TypeOK
<1>2. Elements(ready) = {} /\ Elements(buffer) = {} /\ Active = {}
  BY DEF Init, Elements, Active
<1>3. Inj(ready) /\ Inj(buffer)
  BY DEF Init, Inj
<1> QED BY <1>1, <1>2, <1>3 DEF Init, IInv, ReadyInv, OwnInv, NewInv, OneOwner,
     NothingLost, Held, Queued, Inj

\* Steps of the page touch nothing that the invariant speaks of but the types.
LEMMA PageSteps ==
  ASSUME IInv, UpdateTransport \/ (\E w \in Transports : PageCloses(w)) \/ Exit \/ UNCHANGED vars
  PROVE  IInv'
<1>1. /\ ready' = ready /\ pc' = pc /\ hold' = hold /\ via' = via /\ buffer' = buffer
      /\ acked' = acked /\ discarded' = discarded
  BY DEF UpdateTransport, PageCloses, Exit, vars
<1>2. TypeOK'
  <2>1. TypeOK BY DEF IInv
  <2>2. CASE UpdateTransport
    BY <2>1, <2>2, TransportsAssumption DEF UpdateTransport, TypeOK
  <2>3. CASE \E w \in Transports : PageCloses(w)
    BY <2>1, <2>3 DEF PageCloses, TypeOK
  <2>4. CASE Exit
    BY <2>1, <2>4 DEF Exit, TypeOK
  <2>5. CASE UNCHANGED vars
    BY <2>1, <2>5 DEF vars, TypeOK
  <2> QED BY <2>2, <2>3, <2>4, <2>5
<1>3. /\ Elements(ready)' = Elements(ready) /\ Elements(buffer)' = Elements(buffer)
      /\ Active' = Active /\ (Inj(ready)' <=> Inj(ready))
  BY <1>1 DEF Elements, Active, Inj
<1>4. \A m \in Msgs : Held(m)' <=> Held(m)
  BY <1>1, <1>3 DEF Held
<1> QED
  <2>1. ReadyInv' BY <1>1, <1>3 DEF IInv, ReadyInv
  <2>2. OwnInv' BY <1>1 DEF IInv, OwnInv
  <2>3. NewInv' BY <1>1, <1>3, <1>4 DEF IInv, NewInv
  <2>4. OneOwner' BY <1>1, <1>3, <1>4 DEF IInv, OneOwner, Queued
  <2>5. NothingLost' BY <1>1, <1>3, <1>4 DEF IInv, NothingLost, Queued
  <2> QED BY <1>2, <2>1, <2>2, <2>3, <2>4, <2>5 DEF IInv

\* A new task joins the ready queue.
LEMMA SubmitStep ==
  ASSUME IInv, NEW m \in Msgs, Submit(m)
  PROVE  IInv'
<1>1. /\ pc[m] = "new" /\ pc' = [pc EXCEPT ![m] = "queued"] /\ ready' = Append(ready, m)
      /\ hold' = hold /\ via' = via /\ buffer' = buffer /\ connected' = connected
      /\ transport' = transport /\ used' = used /\ open' = open /\ acked' = acked
      /\ discarded' = discarded /\ exited' = exited
  BY DEF Submit
<1>2. TypeOK /\ ReadyInv /\ OwnInv /\ NewInv /\ OneOwner /\ NothingLost
  BY DEF IInv
<1>3. pc \in [Msgs -> {"new", "queued", "sending", "flushing", "done"}] /\ ready \in Seq(Msgs)
  BY <1>2 DEF TypeOK
<1>4. m \notin Elements(ready)
  BY <1>1, <1>2 DEF ReadyInv
<1>5. /\ ready' \in Seq(Msgs) /\ Elements(ready)' = Elements(ready) \cup {m} /\ Inj(ready)'
  <2>1. /\ Append(ready, m) \in Seq(Msgs) /\ Elements(Append(ready, m)) = Elements(ready) \cup {m}
        /\ Inj(Append(ready, m))
    BY <1>2, <1>3, <1>4, AppendElements DEF ReadyInv
  <2> QED BY <1>1, <2>1 DEF Elements, Inj
<1>6. Active' = Active
  BY <1>1, <1>3 DEF Active
<1>7. (\A x \in Msgs : Held(x)' <=> Held(x)) /\ Elements(buffer)' = Elements(buffer)
  BY <1>1, <1>6 DEF Held, Elements
<1>8. \A x \in Msgs : pc'[x] = IF x = m THEN "queued" ELSE pc[x]
  BY <1>1, <1>3
<1>9. TypeOK' BY <1>1, <1>2, <1>5 DEF TypeOK
<1>10. ReadyInv' BY <1>2, <1>5, <1>8 DEF ReadyInv
<1>11. OwnInv' BY <1>1, <1>2, <1>8 DEF OwnInv
<1>12. NewInv' BY <1>1, <1>2, <1>7, <1>8 DEF NewInv
<1>13. OneOwner' BY <1>1, <1>2, <1>6, <1>7, <1>8 DEF OneOwner, NewInv, Queued
<1>14. NothingLost' BY <1>1, <1>2, <1>7, <1>8 DEF NothingLost, Queued
<1> QED BY <1>9, <1>10, <1>11, <1>12, <1>13, <1>14 DEF IInv

\* The first task of the ready queue starts: its message goes into the buffer,
\* or into the task's hands.
LEMMA StartStep ==
  ASSUME IInv, Start
  PROVE  IInv'
<1> DEFINE m == Head(ready)
<1>1. /\ ready # <<>> /\ ready' = Tail(ready) /\ hold' = hold /\ connected' = connected
      /\ transport' = transport /\ used' = used /\ open' = open /\ acked' = acked
      /\ exited' = exited
  BY DEF Start
<1>2. TypeOK /\ ReadyInv /\ OwnInv /\ NewInv /\ OneOwner /\ NothingLost
  BY DEF IInv
<1>3. /\ pc \in [Msgs -> {"new", "queued", "sending", "flushing", "done"}]
      /\ ready \in Seq(Msgs) /\ hold \in [Msgs -> Msgs] /\ buffer \in Seq(Msgs)
      /\ via \in [Msgs -> 0..MaxTransports] /\ transport \in 0..MaxTransports
      /\ discarded \in SUBSET Msgs
  BY <1>2 DEF TypeOK
<1>4. /\ ready' \in Seq(Msgs) /\ m \in Msgs /\ Elements(ready) = Elements(ready)' \cup {m}
      /\ Inj(ready)' /\ m \notin Elements(ready)'
  <2>1. /\ Tail(ready) \in Seq(Msgs) /\ m \in Msgs
        /\ Elements(ready) = Elements(Tail(ready)) \cup {m}
        /\ Inj(Tail(ready)) /\ m \notin Elements(Tail(ready))
    BY <1>1, <1>2, <1>3, TailElements DEF ReadyInv
  <2> QED BY <1>1, <2>1 DEF Elements, Inj
<1> HIDE DEF m
<1>5. pc[m] = "queued" /\ m \notin Active
  BY <1>2, <1>4 DEF ReadyInv, Active
<1>6. /\ ~Held(m) /\ m \notin Elements(buffer) /\ m \notin acked /\ m \notin discarded
  BY <1>2, <1>4, <1>5 DEF OneOwner, Queued
<1>7. CASE ~connected
  <2>1. /\ Rebuffer(DequeAppend(buffer, m)) /\ pc' = [pc EXCEPT ![m] = "done"] /\ via' = via
    BY <1>7 DEF Start, m
  <2>2. \A x \in Msgs : pc'[x] = IF x = m THEN "done" ELSE pc[x]
    BY <1>3, <2>1
  <2>3. Active' = Active
    BY <1>5, <2>2 DEF Active
  <2>4. \A x \in Msgs : Held(x)' <=> Held(x)
    BY <1>1, <2>3 DEF Held
  <2>5. Inj(buffer)
    BY <1>2 DEF OneOwner, Inj
  <2>6. /\ buffer' \in Seq(Msgs) /\ Len(buffer') <= MaxBuffer /\ Inj(buffer)'
        /\ Elements(buffer)' = (Elements(buffer) \ Dropped) \cup {m}
        /\ Dropped \subseteq Elements(buffer) /\ discarded' = discarded \cup Dropped
    <3>1. DequeAppend(buffer, m) = Append(HandleBuffer, m)
      BY <1>2, <1>4, RoomMade
    <3> QED BY <1>2, <1>4, <1>6, <2>1, <2>5, <3>1, PutBack
  <2>7. Elements(buffer) \subseteq Msgs
    BY <1>3 DEF Elements
  <2>8. TypeOK'
    <3>1. pc' \in [Msgs -> {"new", "queued", "sending", "flushing", "done"}]
      BY <1>3, <2>1
    <3>2. discarded' \in SUBSET Msgs
      BY <1>3, <2>6, <2>7
    <3> QED BY <1>1, <1>2, <1>4, <2>1, <2>6, <3>1, <3>2 DEF TypeOK
  <2>9. ReadyInv' BY <1>2, <1>4, <2>2 DEF ReadyInv
  <2>10. OwnInv' BY <1>1, <1>2, <2>2 DEF OwnInv
  <2>11. NewInv' BY <1>1, <1>2, <2>2, <2>4, <2>6 DEF NewInv
  <2>12. OneOwner'
    <3>1. \A t, u \in Active' : hold'[t] = hold'[u] => t = u
      BY <1>1, <1>2, <2>3 DEF OneOwner
    <3>2. \A i, j \in 1..Len(buffer') : buffer'[i] = buffer'[j] => i = j
      BY <2>6 DEF Inj
    <3>3. \A x \in Msgs : x \in Elements(buffer)' => ~Held(x)'
      BY <1>2, <1>6, <2>4, <2>6 DEF OneOwner
    <3>4. \A x \in Msgs : x \in acked' \cup discarded' => ~Held(x)' /\ x \notin Elements(buffer)'
      BY <1>1, <1>2, <1>6, <2>4, <2>6 DEF OneOwner
    <3>5. \A x \in Msgs : pc'[x] = "queued" =>
             ~Held(x)' /\ x \notin Elements(buffer)' \cup acked' \cup discarded'
      BY <1>1, <1>2, <2>2, <2>4, <2>6 DEF OneOwner, Queued
    <3>6. acked' \cap discarded' = {}
      BY <1>1, <1>2, <2>6, <2>7 DEF OneOwner
    <3> QED BY <3>1, <3>2, <3>3, <3>4, <3>5, <3>6 DEF OneOwner, Queued
  <2>13. NothingLost' BY <1>1, <1>2, <2>2, <2>4, <2>6 DEF NothingLost, Queued
  <2> QED BY <2>8, <2>9, <2>10, <2>11, <2>12, <2>13 DEF IInv
<1>8. CASE connected
  <2>1. /\ pc' = [pc EXCEPT ![m] = "sending"] /\ via' = [via EXCEPT ![m] = transport]
        /\ buffer' = buffer /\ discarded' = discarded
    BY <1>8 DEF Start, m
  <2>2. \A x \in Msgs : pc'[x] = IF x = m THEN "sending" ELSE pc[x]
    BY <1>3, <2>1
  <2>3. Active' = Active \cup {m} /\ Elements(buffer)' = Elements(buffer)
    BY <1>4, <2>1, <2>2 DEF Active, Elements
  <2>4. hold[m] = m
    BY <1>2, <1>4, <1>5 DEF OwnInv
  <2>5. \A x \in Msgs : Held(x)' <=> Held(x) \/ x = m
    BY <1>1, <2>3, <2>4 DEF Held
  <2>6. TypeOK'
    <3>1. pc' \in [Msgs -> {"new", "queued", "sending", "flushing", "done"}]
      BY <1>3, <2>1
    <3>2. via' \in [Msgs -> 0..MaxTransports]
      BY <1>3, <2>1
    <3> QED BY <1>1, <1>2, <1>4, <2>1, <3>1, <3>2 DEF TypeOK
  <2>7. ReadyInv' BY <1>2, <1>4, <2>2 DEF ReadyInv
  <2>8. OwnInv' BY <1>1, <1>2, <2>2, <2>4 DEF OwnInv
  <2>9. NewInv' BY <1>1, <1>2, <2>1, <2>2, <2>3, <2>5 DEF NewInv
  <2>10. OneOwner'
    <3>1. \A t, u \in Active' : hold'[t] = hold'[u] => t = u
      BY <1>1, <1>2, <1>6, <2>3, <2>4 DEF OneOwner, Held
    <3>2. \A i, j \in 1..Len(buffer') : buffer'[i] = buffer'[j] => i = j
      BY <1>2, <2>1 DEF OneOwner
    <3>3. \A x \in Msgs : x \in Elements(buffer)' => ~Held(x)'
      BY <1>2, <1>6, <2>3, <2>5 DEF OneOwner
    <3>4. \A x \in Msgs : x \in acked' \cup discarded' => ~Held(x)' /\ x \notin Elements(buffer)'
      BY <1>1, <1>2, <1>6, <2>1, <2>3, <2>5 DEF OneOwner
    <3>5. \A x \in Msgs : pc'[x] = "queued" =>
             ~Held(x)' /\ x \notin Elements(buffer)' \cup acked' \cup discarded'
      BY <1>1, <1>2, <2>1, <2>2, <2>3, <2>5 DEF OneOwner, Queued
    <3>6. acked' \cap discarded' = {}
      BY <1>1, <1>2, <2>1 DEF OneOwner
    <3> QED BY <3>1, <3>2, <3>3, <3>4, <3>5, <3>6 DEF OneOwner, Queued
  <2>11. NothingLost' BY <1>1, <1>2, <2>1, <2>2, <2>3, <2>5 DEF NothingLost, Queued
  <2> QED BY <2>6, <2>7, <2>8, <2>9, <2>10, <2>11 DEF IInv
<1> QED BY <1>7, <1>8

\* A send returns: the task's message is acked and it takes the next one, if any.
LEMMA SendReturnsStep ==
  ASSUME IInv, NEW t \in Msgs, SendReturns(t)
  PROVE  IInv'
<1> DEFINE h == hold[t]
<1>1. /\ t \in Active /\ acked' = acked \cup {h} /\ FlushLoop(t)
      /\ ready' = ready /\ connected' = connected /\ transport' = transport
      /\ used' = used /\ open' = open /\ discarded' = discarded /\ exited' = exited
  BY DEF SendReturns
<1>2. TypeOK /\ ReadyInv /\ OwnInv /\ NewInv /\ OneOwner /\ NothingLost
  BY DEF IInv
<1>3. /\ pc \in [Msgs -> {"new", "queued", "sending", "flushing", "done"}]
      /\ hold \in [Msgs -> Msgs] /\ buffer \in Seq(Msgs) /\ h \in Msgs
      /\ via \in [Msgs -> 0..MaxTransports] /\ transport \in 0..MaxTransports
      /\ acked \in SUBSET Msgs /\ Len(buffer) <= MaxBuffer
  BY <1>2 DEF TypeOK
<1>4. pc[t] \in {"sending", "flushing"}
  BY <1>1 DEF Active
<1>5. Held(h) /\ h \notin Elements(buffer) /\ h \notin acked /\ h \notin discarded /\ pc[h] # "queued" /\ pc[h] # "new"
  <2>1. Held(h) BY <1>1 DEF Held
  <2> QED BY <1>2, <1>3, <2>1 DEF OneOwner, NewInv, Queued
<1>6. /\ Elements(ready)' = Elements(ready) /\ (Inj(ready)' <=> Inj(ready))
  BY <1>1 DEF Elements, Inj
<1>7. CASE buffer = <<>>
  <2>1. pc' = [pc EXCEPT ![t] = "done"] /\ hold' = hold /\ via' = via /\ buffer' = buffer
    BY <1>1, <1>7 DEF FlushLoop
  <2>2. \A x \in Msgs : pc'[x] = IF x = t THEN "done" ELSE pc[x]
    BY <1>3, <2>1
  <2>3. Active' = Active \ {t} /\ Elements(buffer)' = Elements(buffer)
    BY <2>1, <2>2 DEF Active, Elements
  <2>4. \A x \in Msgs : Held(x)' <=> Held(x) /\ x # h
    BY <1>1, <1>2, <2>1, <2>3 DEF Held, OneOwner
  <2>5. TypeOK'
    <3>1. pc' \in [Msgs -> {"new", "queued", "sending", "flushing", "done"}] /\ acked' \in SUBSET Msgs
      BY <1>1, <1>3, <2>1
    <3> QED BY <1>1, <1>2, <2>1, <3>1 DEF TypeOK
  <2>6. ReadyInv' BY <1>2, <1>4, <1>6, <2>2 DEF ReadyInv
  <2>7. OwnInv' BY <1>2, <2>1, <2>2 DEF OwnInv
  <2>8. NewInv' BY <1>1, <1>2, <1>5, <2>2, <2>3, <2>4 DEF NewInv
  <2>9. OneOwner'
    <3>1. \A v, u \in Active' : hold'[v] = hold'[u] => v = u
      BY <1>2, <2>1, <2>3 DEF OneOwner
    <3>2. \A i, j \in 1..Len(buffer') : buffer'[i] = buffer'[j] => i = j
      BY <1>2, <2>1 DEF OneOwner
    <3>3. \A x \in Msgs : x \in Elements(buffer)' => ~Held(x)'
      BY <1>2, <2>3, <2>4 DEF OneOwner
    <3>4. \A x \in Msgs : x \in acked' \cup discarded' => ~Held(x)' /\ x \notin Elements(buffer)'
      BY <1>1, <1>2, <1>5, <2>3, <2>4 DEF OneOwner
    <3>5. \A x \in Msgs : pc'[x] = "queued" =>
             ~Held(x)' /\ x \notin Elements(buffer)' \cup acked' \cup discarded'
      BY <1>1, <1>2, <1>5, <2>2, <2>3, <2>4 DEF OneOwner, Queued
    <3>6. acked' \cap discarded' = {}
      BY <1>1, <1>2, <1>5 DEF OneOwner
    <3> QED BY <3>1, <3>2, <3>3, <3>4, <3>5, <3>6 DEF OneOwner, Queued
  <2>10. NothingLost' BY <1>1, <1>2, <1>4, <2>2, <2>3, <2>4 DEF NothingLost, Queued
  <2> QED BY <2>5, <2>6, <2>7, <2>8, <2>9, <2>10 DEF IInv
<1>8. CASE buffer # <<>>
  <2> DEFINE g == Head(buffer)
  <2>1. /\ pc' = [pc EXCEPT ![t] = "flushing"] /\ hold' = [hold EXCEPT ![t] = g]
        /\ via' = [via EXCEPT ![t] = transport] /\ buffer' = Tail(buffer)
    BY <1>1, <1>8 DEF FlushLoop
  <2>2. \A x \in Msgs : /\ pc'[x] = IF x = t THEN "flushing" ELSE pc[x]
                        /\ hold'[x] = IF x = t THEN g ELSE hold[x]
    BY <1>3, <2>1
  <2>3. Inj(buffer)
    BY <1>2 DEF OneOwner, Inj
  <2>4. /\ buffer' \in Seq(Msgs) /\ Len(buffer') = Len(buffer) - 1 /\ g \in Msgs
        /\ Elements(buffer) = Elements(buffer)' \cup {g}
        /\ Inj(buffer)' /\ g \notin Elements(buffer)'
    <3>1. /\ Tail(buffer) \in Seq(Msgs) /\ Len(Tail(buffer)) = Len(buffer) - 1 /\ g \in Msgs
          /\ Elements(buffer) = Elements(Tail(buffer)) \cup {g}
          /\ Inj(Tail(buffer)) /\ g \notin Elements(Tail(buffer))
      BY <1>3, <1>8, <2>3, TailElements
    <3> QED BY <2>1, <3>1 DEF Elements, Inj
  <2> HIDE DEF g
  <2>5. Active' = Active
    BY <1>4, <2>2 DEF Active
  <2>6. ~Held(g) /\ g # h /\ g \notin acked /\ g \notin discarded /\ pc[g] # "queued" /\ pc[g] # "new"
    BY <1>2, <1>5, <2>4 DEF OneOwner, NewInv, Queued
  <2>7. \A x \in Msgs : Held(x)' <=> (Held(x) /\ x # h) \/ x = g
    <3>1. \A u \in Active : u \in Msgs BY DEF Active
    <3> QED BY <1>1, <1>2, <2>2, <2>5, <2>6, <3>1 DEF Held, OneOwner
  <2>8. TypeOK'
    <3>1. pc' \in [Msgs -> {"new", "queued", "sending", "flushing", "done"}] /\ acked' \in SUBSET Msgs
      BY <1>1, <1>3, <2>1
    <3>2. hold' \in [Msgs -> Msgs] /\ via' \in [Msgs -> 0..MaxTransports]
      BY <1>3, <2>1, <2>4
    <3>3. Len(buffer') <= MaxBuffer
      BY <1>3, <2>4, BufferAssumption
    <3> QED BY <1>1, <1>2, <2>4, <3>1, <3>2, <3>3 DEF TypeOK
  <2>9. ReadyInv' BY <1>2, <1>4, <1>6, <2>2 DEF ReadyInv
  <2>10. OwnInv' BY <1>2, <2>2 DEF OwnInv
  <2>11. NewInv' BY <1>1, <1>2, <1>5, <2>2, <2>4, <2>6, <2>7 DEF NewInv
  <2>12. OneOwner'
    <3>1. \A v, u \in Active' : hold'[v] = hold'[u] => v = u
      <4>1. \A u \in Active : u \in Msgs /\ hold[u] # g BY <2>6 DEF Active, Held
      <4> QED BY <1>2, <2>2, <2>5, <4>1 DEF OneOwner
    <3>2. \A i, j \in 1..Len(buffer') : buffer'[i] = buffer'[j] => i = j
      BY <2>4 DEF Inj
    <3>3. \A x \in Msgs : x \in Elements(buffer)' => ~Held(x)'
      BY <1>2, <2>4, <2>7 DEF OneOwner
    <3>4. \A x \in Msgs : x \in acked' \cup discarded' => ~Held(x)' /\ x \notin Elements(buffer)'
      BY <1>1, <1>2, <1>5, <2>4, <2>6, <2>7 DEF OneOwner
    <3>5. \A x \in Msgs : pc'[x] = "queued" =>
             ~Held(x)' /\ x \notin Elements(buffer)' \cup acked' \cup discarded'
      BY <1>1, <1>2, <1>5, <2>2, <2>4, <2>6, <2>7 DEF OneOwner, Queued
    <3>6. acked' \cap discarded' = {}
      BY <1>1, <1>2, <1>5 DEF OneOwner
    <3> QED BY <3>1, <3>2, <3>3, <3>4, <3>5, <3>6 DEF OneOwner, Queued
  <2>13. NothingLost' BY <1>1, <1>2, <1>4, <2>2, <2>4, <2>7 DEF NothingLost, Queued
  <2> QED BY <2>8, <2>9, <2>10, <2>11, <2>12, <2>13 DEF IInv
<1> QED BY <1>7, <1>8

\* A send raises: the task's message goes back into the buffer, at either end.
LEMMA RaisesStep ==
  ASSUME IInv, NEW t \in Msgs, SendRaises(t) \/ FlushRaises(t)
  PROVE  IInv' /\ discarded' = discarded \cup Dropped
<1> DEFINE h == hold[t]
<1>1. /\ pc[t] \in {"sending", "flushing"} /\ connected' = FALSE
      /\ Rebuffer(DequeAppend(HandleBuffer, h)) \/ Rebuffer(DequeAppendLeft(HandleBuffer, h))
      /\ pc' = [pc EXCEPT ![t] = "done"] /\ ready' = ready /\ hold' = hold /\ via' = via
      /\ transport' = transport /\ used' = used /\ open' = open /\ acked' = acked
      /\ exited' = exited
  BY DEF SendRaises, FlushRaises
<1>2. TypeOK /\ ReadyInv /\ OwnInv /\ NewInv /\ OneOwner /\ NothingLost
  BY DEF IInv
<1>3. /\ pc \in [Msgs -> {"new", "queued", "sending", "flushing", "done"}]
      /\ hold \in [Msgs -> Msgs] /\ buffer \in Seq(Msgs) /\ h \in Msgs
      /\ discarded \in SUBSET Msgs
  BY <1>2 DEF TypeOK
<1>4. t \in Active
  BY <1>1 DEF Active
<1>5. Held(h) /\ h \notin Elements(buffer) /\ h \notin acked /\ h \notin discarded /\ pc[h] # "queued" /\ pc[h] # "new"
  <2>1. Held(h) BY <1>4 DEF Held
  <2> QED BY <1>2, <1>3, <2>1 DEF OneOwner, NewInv, Queued
<1>6. /\ Elements(ready)' = Elements(ready) /\ (Inj(ready)' <=> Inj(ready))
  BY <1>1 DEF Elements, Inj
<1>7. \A x \in Msgs : pc'[x] = IF x = t THEN "done" ELSE pc[x]
  BY <1>1, <1>3
<1>8. Active' = Active \ {t}
  BY <1>7 DEF Active
<1>9. \A x \in Msgs : Held(x)' <=> Held(x) /\ x # h
  BY <1>1, <1>2, <1>4, <1>8 DEF Held, OneOwner
<1>10. Inj(buffer)
  BY <1>2 DEF OneOwner, Inj
<1> HIDE DEF h
<1>11. /\ buffer' \in Seq(Msgs) /\ Len(buffer') <= MaxBuffer /\ Inj(buffer)'
       /\ Elements(buffer)' = (Elements(buffer) \ Dropped) \cup {h}
       /\ Dropped \subseteq Elements(buffer) /\ discarded' = discarded \cup Dropped
  <2>1. /\ DequeAppend(HandleBuffer, h) = Append(HandleBuffer, h)
        /\ DequeAppendLeft(HandleBuffer, h) = <<h>> \o HandleBuffer
    BY <1>2, <1>3, RoomMade
  <2>2. CASE Rebuffer(DequeAppend(HandleBuffer, h))
    BY <1>2, <1>3, <1>5, <1>10, <2>1, <2>2, PutBack
  <2>3. CASE Rebuffer(DequeAppendLeft(HandleBuffer, h))
    BY <1>2, <1>3, <1>5, <1>10, <2>1, <2>3, PutBack
  <2> QED BY <1>1, <2>2, <2>3
<1>12. Elements(buffer) \subseteq Msgs
  BY <1>3 DEF Elements
<1>13. TypeOK'
  <2>1. pc' \in [Msgs -> {"new", "queued", "sending", "flushing", "done"}]
    BY <1>1, <1>3
  <2>2. discarded' \in SUBSET Msgs /\ connected' \in BOOLEAN
    BY <1>1, <1>3, <1>11, <1>12
  <2> QED BY <1>1, <1>2, <1>11, <2>1, <2>2 DEF TypeOK
<1>14. ReadyInv' BY <1>1, <1>2, <1>6, <1>7 DEF ReadyInv
<1>15. OwnInv' BY <1>1, <1>2, <1>7 DEF OwnInv
<1>16. NewInv' BY <1>1, <1>2, <1>5, <1>7, <1>9, <1>11 DEF NewInv
<1>17. OneOwner'
  <2>1. \A v, u \in Active' : hold'[v] = hold'[u] => v = u
    BY <1>1, <1>2, <1>8 DEF OneOwner
  <2>2. \A i, j \in 1..Len(buffer') : buffer'[i] = buffer'[j] => i = j
    BY <1>11 DEF Inj
  <2>3. \A x \in Msgs : x \in Elements(buffer)' => ~Held(x)'
    BY <1>2, <1>9, <1>11 DEF OneOwner
  <2>4. \A x \in Msgs : x \in acked' \cup discarded' => ~Held(x)' /\ x \notin Elements(buffer)'
    BY <1>1, <1>2, <1>5, <1>9, <1>11 DEF OneOwner
  <2>5. \A x \in Msgs : pc'[x] = "queued" =>
           ~Held(x)' /\ x \notin Elements(buffer)' \cup acked' \cup discarded'
    BY <1>1, <1>2, <1>5, <1>7, <1>9, <1>11 DEF OneOwner, Queued
  <2>6. acked' \cap discarded' = {}
    BY <1>1, <1>2, <1>11, <1>12 DEF OneOwner
  <2> QED BY <2>1, <2>2, <2>3, <2>4, <2>5, <2>6 DEF OneOwner, Queued
<1>18. NothingLost' BY <1>1, <1>2, <1>7, <1>9, <1>11 DEF NothingLost, Queued
<1> QED BY <1>11, <1>13, <1>14, <1>15, <1>16, <1>17, <1>18 DEF IInv

-----------------------------------------------------------------------------
(* The theorems *)

\* Every step keeps the inductive invariant.
LEMMA NextIInv == IInv /\ [Next]_vars => IInv'
<1> SUFFICES ASSUME IInv, [Next]_vars PROVE IInv'
  OBVIOUS
<1>1. CASE UpdateTransport \/ (\E w \in Transports : PageCloses(w)) \/ Exit \/ UNCHANGED vars
  BY <1>1, PageSteps
<1>2. CASE Finished BY <1>2, PageSteps DEF Finished
<1>3. CASE Start BY <1>3, StartStep
<1>4. ASSUME NEW m \in Msgs, Submit(m) PROVE IInv'
  BY <1>4, SubmitStep
<1>5. ASSUME NEW m \in Msgs, SendReturns(m) PROVE IInv'
  BY <1>5, SendReturnsStep
<1>6. ASSUME NEW m \in Msgs, SendRaises(m) \/ FlushRaises(m) PROVE IInv'
  BY <1>6, RaisesStep
<1> QED BY <1>1, <1>2, <1>3, <1>4, <1>5, <1>6 DEF Next, Task

\* The dispatcher's inductive invariant holds throughout.
THEOREM Invariance == Spec => []IInv
  BY InitIInv, NextIInv, PTL DEF Spec

\* The dispatcher's variables keep their types and the deque its maxlen, however
\* many messages and websockets there are.
THEOREM TypeCorrect == Spec => []TypeOK
<1>1. IInv => TypeOK BY DEF IInv
<1> QED BY <1>1, Invariance, PTL

\* submit and _send_buffer lose no message, for any number of concurrent tasks.
THEOREM NeverLost == Spec => []NothingLost
<1>1. IInv => NothingLost BY DEF IInv
<1> QED BY <1>1, Invariance, PTL

\* No message is sent twice or held in two places, for any number of tasks.
THEOREM SingleOwner == Spec => []OneOwner
<1>1. IInv => OneOwner BY DEF IInv
<1> QED BY <1>1, Invariance, PTL

\* Only the oldest message of a full buffer is ever discarded.
THEOREM DropsOldest == Spec => OldestDropped
<1> DEFINE A == discarded' # discarded =>
                  Full(buffer) /\ discarded' = discarded \cup {Head(buffer)}
<1>1. ASSUME IInv, [Next]_vars PROVE [A]_vars
  <2>1. CASE discarded' = discarded
    BY <2>1
  <2>2. CASE discarded' # discarded
    <3>1. discarded' = discarded \cup Dropped
      <4>1. CASE Start
        <5>1. TypeOK /\ Rebuffer(DequeAppend(buffer, Head(ready)))
          BY <1>1, <2>2, <4>1 DEF Start, IInv
        <5>2. Head(ready) \in Msgs /\ Head(ready) \notin Elements(buffer) /\ Inj(buffer)
          <6>1. ready \in Seq(Msgs) /\ ready # <<>>
            BY <1>1, <4>1 DEF Start, IInv, TypeOK
          <6>2. Head(ready) \in Msgs /\ Head(ready) \in Elements(ready)
            BY <6>1, TailElements
          <6> QED BY <1>1, <6>2 DEF IInv, ReadyInv, OneOwner, Queued, Inj
        <5>3. DequeAppend(buffer, Head(ready)) = Append(HandleBuffer, Head(ready))
          BY <5>1, <5>2, RoomMade
        <5> QED BY <5>1, <5>2, <5>3, PutBack
      <4>2. ASSUME NEW m \in Msgs, SendRaises(m) \/ FlushRaises(m)
            PROVE  discarded' = discarded \cup Dropped
        BY <1>1, <4>2, RaisesStep
      <4> QED BY <1>1, <2>2, <4>1, <4>2 DEF Next, Task, Submit, SendReturns, UpdateTransport,
           PageCloses, Exit, Finished, vars
    <3> QED BY <2>2, <3>1 DEF Dropped
  <2> QED BY <2>1, <2>2
<1> QED BY <1>1, Invariance, PTL DEF Spec, OldestDropped

-----------------------------------------------------------------------------
(* The calls a handler has still to make *)

\* The writes of a sequence of calls.
WritesIn(s) == {w \in Write : \E i \in 1..Len(s) : \E k \in 1..Len(s[i]) : s[i][k] = w}

\* The operations that change the parser in memory.
Parser == {"list", "unlist", "unselect", "select"}

\* What is next in a call after a change of the parser, or a truncation.
Paired == Parser \cup {"trunc"}
Follows(v, w) ==
  /\ v.op \in Parser => w.op = "save"
  /\ v.op = "trunc" => w.op \in {"fill", "part"} /\ w.file = v.file

\* A call, or what is left of one: each change of the parser is followed by the
\* writing of the main config, and each truncation of a profile file by its writing.
CallOK(call) ==
  /\ call \in Seq(Write) /\ call # <<>>
  /\ \A k \in 1..Len(call) :
       call[k].op \in Paired => k + 1 \in 1..Len(call) /\ Follows(call[k], call[k + 1])

\* Profiles are loaded again in the last call.
Loading == todo # <<>> /\ todo[Len(todo)] = LoadProfiles

\* A sequence of calls, of which only the last one loads.
CallsOK(s) ==
  /\ s \in Seq(Seq(Write))
  /\ \A i \in 1..Len(s) :
       /\ CallOK(s[i])
       /\ \A k \in 1..Len(s[i]) : s[i][k].op = "load" => i = Len(s) /\ s[i] = LoadProfiles

\* SetToSeq of a set of profiles is a sequence of all of them.
LEMMA SequenceOfFiles ==
  ASSUME NEW S \in SUBSET File
  PROVE  /\ Cardinality(S) \in Nat
         /\ SetToSeq(S) \in [1..Cardinality(S) -> S]
         /\ \A f \in S : \E i \in 1..Cardinality(S) : SetToSeq(S)[i] = f
<1> DEFINE n == Cardinality(S)
<1>1. IsFiniteSet(S)
  BY FS_Subset, FileAssumption
<1>2. n \in Nat /\ ExistsBijection(1..n, S)
  BY <1>1, FS_CardinalityType
<1>3. \E f \in [1..n -> S] : IsInjective(f)
  BY <1>2 DEF ExistsBijection, Bijection, Injection, Surjection, IsInjective
<1>4. SetToSeq(S) \in [1..n -> S] /\ IsInjective(SetToSeq(S))
  BY <1>3 DEF SetToSeq
<1>5. IsFiniteSet(1..n) /\ Cardinality(1..n) = n
  BY <1>2, FS_Interval
<1>6. SetToSeq(S) \in Injection(1..n, S)
  BY <1>4 DEF Injection, IsInjective
<1>7. SetToSeq(S) \in Surjection(1..n, S)
  BY <1>1, <1>5, <1>6, FS_Injection
<1> QED BY <1>2, <1>4, <1>7 DEF Surjection

\* Two writes put behind others.
LEMMA TwoMore ==
  ASSUME NEW a \in Seq(Write), NEW b \in Seq(Write), Len(b) = 2
  PROVE  /\ a \o b \in Seq(Write) /\ Len(a \o b) = Len(a) + 2 /\ Len(a) \in Nat
         /\ \A i \in 1..Len(a) : (a \o b)[i] = a[i]
         /\ (a \o b)[Len(a) + 1] = b[1] /\ (a \o b)[Len(a) + 2] = b[2]
<1>1. Len(a) \in Nat
  OBVIOUS
<1>2. /\ a \o b \in Seq(Write) /\ Len(a \o b) = Len(a) + Len(b)
      /\ \A i \in 1 .. Len(a) + Len(b) :
           (a \o b)[i] = IF i <= Len(a) THEN a[i] ELSE b[i - Len(a)]
  BY ONLY ConcatProperties
<1>3. (a \o b)[Len(a) + 1] = b[1] /\ (a \o b)[Len(a) + 2] = b[2]
  BY <1>1, <1>2
<1> QED BY <1>1, <1>2, <1>3

\* One write put behind others.
LEMMA OneMore ==
  ASSUME NEW a \in Seq(Write), NEW w \in Write
  PROVE  /\ a \o <<w>> \in Seq(Write) /\ Len(a \o <<w>>) = Len(a) + 1 /\ Len(a) \in Nat
         /\ \A i \in 1..Len(a) : (a \o <<w>>)[i] = a[i]
         /\ (a \o <<w>>)[Len(a) + 1] = w
<1> DEFINE b == <<w>>
<1>1. Len(a) \in Nat /\ b \in Seq(Write) /\ Len(b) = 1 /\ b[1] = w
  OBVIOUS
<1> HIDE DEF b
<1>2. /\ a \o b \in Seq(Write) /\ Len(a \o b) = Len(a) + Len(b)
      /\ \A i \in 1 .. Len(a) + Len(b) :
           (a \o b)[i] = IF i <= Len(a) THEN a[i] ELSE b[i - Len(a)]
  <2>1. \A x, y \in Seq(Write) :
          /\ x \o y \in Seq(Write) /\ Len(x \o y) = Len(x) + Len(y)
          /\ \A i \in 1 .. Len(x) + Len(y) :
               (x \o y)[i] = IF i <= Len(x) THEN x[i] ELSE y[i - Len(x)]
    BY ONLY ConcatProperties
  <2> QED BY <1>1, <2>1
<1>3. (a \o b)[Len(a) + 1] = b[1]
  BY <1>1, <1>2
<1> QED BY <1>1, <1>2, <1>3 DEF b

\* What a write is.
Ops == {"trunc", "fill", "part", "unlink", "list", "unlist", "unselect", "select", "save",
        "append", "load"}
LEMMA AWrite ==
  ASSUME NEW f \in File, NEW op \in Ops
  PROVE  Do(op, f) \in Write /\ Do(op, f).op = op /\ Do(op, f).file = f
BY DEF Do, Write, Ops

\* The writes of the calls that manage one profile, in order.
LEMMA TheCalls ==
  ASSUME NEW f \in File, NEW g \in File
  PROVE  /\ LET c == SaveProfile(f) IN
              /\ c \in Seq(Write) /\ Len(c) = 2
              /\ c[1] = Do("trunc", f) /\ c[2] = Do("fill", f)
         /\ LET c == Enlist(f) IN
              /\ c \in Seq(Write) /\ Len(c) = 2
              /\ c[1] = Do("list", f) /\ c[2] = Do("save", f)
         /\ LET c == DeleteProfile(f) IN
              /\ c \in Seq(Write) /\ Len(c) = 3
              /\ c[1] = Do("unlink", f) /\ c[2] = Do("unlist", f) /\ c[3] = Do("save", f)
         /\ LET c == SaveProfile(f) \o Enlist(f) IN
              /\ c \in Seq(Write) /\ Len(c) = 4
              /\ c[1] = Do("trunc", f) /\ c[2] = Do("fill", f)
              /\ c[3] = Do("list", f) /\ c[4] = Do("save", f)
         /\ LET c == SelectProfile(f) IN
              /\ c \in Seq(Write) /\ Len(c) = 4
              /\ c[1] = Do("unselect", f) /\ c[2] = Do("save", f)
              /\ c[3] = Do("select", f) /\ c[4] = Do("save", f)
<1>1. \A op \in {"trunc", "fill", "unlink", "list", "unlist", "unselect", "select", "save"} :
        Do(op, f) \in Write /\ Do(op, g) \in Write
  BY DEF Do, Write
<1>3. /\ \A h \in {f, g} : /\ SaveProfile(h) \in Seq(Write) /\ Len(SaveProfile(h)) = 2
                           /\ SaveProfile(h)[1] = Do("trunc", h) /\ SaveProfile(h)[2] = Do("fill", h)
                           /\ Enlist(h) \in Seq(Write) /\ Len(Enlist(h)) = 2
                           /\ Enlist(h)[1] = Do("list", h) /\ Enlist(h)[2] = Do("save", h)
      /\ Unlist(f) \in Seq(Write) /\ Len(Unlist(f)) = 2
      /\ Unlist(f)[1] = Do("unlist", f) /\ Unlist(f)[2] = Do("save", f)
  BY <1>1 DEF SaveProfile, Enlist, Unlist
<1>4. LET c == DeleteProfile(f) IN
        /\ c \in Seq(Write) /\ Len(c) = 3
        /\ c[1] = Do("unlink", f) /\ c[2] = Do("unlist", f) /\ c[3] = Do("save", f)
  <2> DEFINE a == <<Do("unlink", f)>>
             c == a \o Unlist(f)
  <2>1. a \in Seq(Write) /\ Len(a) = 1 /\ a[1] = Do("unlink", f)
    BY <1>1
  <2>2. /\ c \in Seq(Write) /\ Len(c) = Len(a) + 2
        /\ \A i \in 1..Len(a) : c[i] = a[i]
        /\ c[Len(a) + 1] = Unlist(f)[1] /\ c[Len(a) + 2] = Unlist(f)[2]
    BY <1>3, <2>1, TwoMore
  <2>3. c = DeleteProfile(f)
    BY DEF DeleteProfile
  <2> HIDE DEF a, c
  <2> QED BY <1>3, <2>1, <2>2, <2>3
<1>5. LET c == SaveProfile(f) \o Enlist(f) IN
        /\ c \in Seq(Write) /\ Len(c) = 4
        /\ c[1] = Do("trunc", f) /\ c[2] = Do("fill", f)
        /\ c[3] = Do("list", f) /\ c[4] = Do("save", f)
  <2> DEFINE a == SaveProfile(f)
             b == Enlist(f)
             c == a \o b
  <2>1. a \in Seq(Write) /\ Len(a) = 2 /\ b \in Seq(Write) /\ Len(b) = 2
    BY <1>3
  <2>2. /\ c \in Seq(Write) /\ Len(c) = Len(a) + 2
        /\ \A i \in 1..Len(a) : c[i] = a[i]
        /\ c[Len(a) + 1] = b[1] /\ c[Len(a) + 2] = b[2]
    BY <2>1, TwoMore
  <2>4. /\ a[1] = Do("trunc", f) /\ a[2] = Do("fill", f)
        /\ b[1] = Do("list", f) /\ b[2] = Do("save", f)
    BY <1>3
  <2>5. c = SaveProfile(f) \o Enlist(f)
    OBVIOUS
  <2> HIDE DEF a, b, c
  <2> QED BY <2>1, <2>2, <2>4, <2>5
<1>6. LET c == SelectProfile(f) IN
        /\ c \in Seq(Write) /\ Len(c) = 4
        /\ c[1] = Do("unselect", f) /\ c[2] = Do("save", f)
        /\ c[3] = Do("select", f) /\ c[4] = Do("save", f)
  BY <1>1 DEF SelectProfile
<1> QED BY <1>3, <1>4, <1>5, <1>6

\* The writes of an addition.
LEMMA TheAdditions ==
  ASSUME NEW f \in File
  PROVE  /\ LET c == AddProfile(f) IN
              /\ c \in Seq(Write) /\ Len(c) = 5
              /\ c[1] = Do("trunc", f) /\ c[2] = Do("fill", f)
              /\ c[3] = Do("list", f) /\ c[4] = Do("save", f) /\ c[5] = Do("append", f)
         /\ LET c == AddLacking(f) IN
              /\ c \in Seq(Write) /\ Len(c) = 5
              /\ c[1] = Do("trunc", f) /\ c[2] = Do("part", f)
              /\ c[3] = Do("list", f) /\ c[4] = Do("save", f) /\ c[5] = Do("append", f)
<1>1. /\ Do("append", f) \in Write /\ Do("part", f) \in Write /\ Do("trunc", f) \in Write
      /\ Enlist(f) \in Seq(Write) /\ Len(Enlist(f)) = 2
      /\ Enlist(f)[1] = Do("list", f) /\ Enlist(f)[2] = Do("save", f)
  BY AWrite, TheCalls DEF Ops
<1>2. LET c == AddProfile(f) IN
        /\ c \in Seq(Write) /\ Len(c) = 5
        /\ c[1] = Do("trunc", f) /\ c[2] = Do("fill", f)
        /\ c[3] = Do("list", f) /\ c[4] = Do("save", f) /\ c[5] = Do("append", f)
  <2> DEFINE a == SaveProfile(f) \o Enlist(f)
             c == a \o <<Do("append", f)>>
  <2>1. /\ a \in Seq(Write) /\ Len(a) = 4
        /\ a[1] = Do("trunc", f) /\ a[2] = Do("fill", f)
        /\ a[3] = Do("list", f) /\ a[4] = Do("save", f)
    BY TheCalls
  <2>2. c = AddProfile(f)
    BY DEF AddProfile
  <2> HIDE DEF a
  <2>3. /\ c \in Seq(Write) /\ Len(c) = Len(a) + 1
        /\ \A i \in 1..Len(a) : c[i] = a[i]
        /\ c[Len(a) + 1] = Do("append", f)
    BY <1>1, <2>1, OneMore
  <2> HIDE DEF c
  <2> QED BY <2>1, <2>2, <2>3
<1>3. LET c == AddLacking(f) IN
        /\ c \in Seq(Write) /\ Len(c) = 5
        /\ c[1] = Do("trunc", f) /\ c[2] = Do("part", f)
        /\ c[3] = Do("list", f) /\ c[4] = Do("save", f) /\ c[5] = Do("append", f)
  <2> DEFINE d == <<Do("trunc", f), Do("part", f)>>
             a == d \o Enlist(f)
             c == a \o <<Do("append", f)>>
  <2>1. d \in Seq(Write) /\ Len(d) = 2 /\ d[1] = Do("trunc", f) /\ d[2] = Do("part", f)
    BY <1>1
  <2>2. c = AddLacking(f)
    BY DEF AddLacking
  <2> HIDE DEF d
  <2>3. /\ a \in Seq(Write) /\ Len(a) = Len(d) + 2
        /\ \A i \in 1..Len(d) : a[i] = d[i]
        /\ a[Len(d) + 1] = Enlist(f)[1] /\ a[Len(d) + 2] = Enlist(f)[2]
    BY <1>1, <2>1, TwoMore
  <2> HIDE DEF a
  <2>4. Len(a) = 4 /\ a[1] = d[1] /\ a[2] = d[2] /\ a[3] = Do("list", f) /\ a[4] = Do("save", f)
    BY <1>1, <2>1, <2>3
  <2>5. /\ c \in Seq(Write) /\ Len(c) = Len(a) + 1
        /\ \A i \in 1..Len(a) : c[i] = a[i]
        /\ c[Len(a) + 1] = Do("append", f)
    BY <1>1, <2>3, OneMore
  <2> HIDE DEF c
  <2> QED BY <2>1, <2>2, <2>4, <2>5
<1> QED BY <1>2, <1>3

\* The writes of an edit with a new name.
LEMMA TheRenaming ==
  ASSUME NEW f \in File, NEW g \in File
  PROVE  LET c == RenameProfile(f, g) IN
           /\ c \in Seq(Write) /\ Len(c) = 8
           /\ c[1] = Move("rename", f, g)
           /\ c[2] = Do("unlist", f) /\ c[3] = Do("save", f)
           /\ c[4] = Do("list", g) /\ c[5] = Do("save", g)
           /\ c[6] = Move("refile", f, g)
           /\ c[7] = Do("trunc", g) /\ c[8] = Do("fill", g)
<1>1. /\ Move("rename", f, g) \in Write /\ Move("refile", f, g) \in Write
      /\ Do("unlist", f) \in Write /\ Do("save", f) \in Write
  BY AWrite DEF Move, Write, Ops
<1>2. /\ Unlist(f) \in Seq(Write) /\ Len(Unlist(f)) = 2
      /\ Unlist(f)[1] = Do("unlist", f) /\ Unlist(f)[2] = Do("save", f)
  BY <1>1 DEF Unlist
<1>3. /\ Enlist(g) \in Seq(Write) /\ Len(Enlist(g)) = 2
      /\ Enlist(g)[1] = Do("list", g) /\ Enlist(g)[2] = Do("save", g)
      /\ SaveProfile(g) \in Seq(Write) /\ Len(SaveProfile(g)) = 2
      /\ SaveProfile(g)[1] = Do("trunc", g) /\ SaveProfile(g)[2] = Do("fill", g)
  BY TheCalls
<1> DEFINE r == <<Move("rename", f, g)>>
           a == r \o Unlist(f)
           b == a \o Enlist(g)
           d == b \o <<Move("refile", f, g)>>
           c == d \o SaveProfile(g)
<1>4. r \in Seq(Write) /\ Len(r) = 1 /\ r[1] = Move("rename", f, g)
  BY <1>1
<1>5. RenameProfile(f, g) = c
  BY DEF RenameProfile
<1> HIDE DEF r
<1>6. /\ a \in Seq(Write) /\ Len(a) = 3 /\ a[1] = Move("rename", f, g)
      /\ a[2] = Do("unlist", f) /\ a[3] = Do("save", f)
  <2>1. /\ a \in Seq(Write) /\ Len(a) = Len(r) + 2
        /\ \A i \in 1..Len(r) : a[i] = r[i]
        /\ a[Len(r) + 1] = Unlist(f)[1] /\ a[Len(r) + 2] = Unlist(f)[2]
    BY <1>2, <1>4, TwoMore
  <2> HIDE DEF a
  <2> QED BY <1>2, <1>4, <2>1
<1> HIDE DEF a
<1>7. /\ b \in Seq(Write) /\ Len(b) = 5 /\ b[1] = a[1] /\ b[2] = a[2] /\ b[3] = a[3]
      /\ b[4] = Do("list", g) /\ b[5] = Do("save", g)
  <2>1. /\ b \in Seq(Write) /\ Len(b) = Len(a) + 2
        /\ \A i \in 1..Len(a) : b[i] = a[i]
        /\ b[Len(a) + 1] = Enlist(g)[1] /\ b[Len(a) + 2] = Enlist(g)[2]
    BY <1>3, <1>6, TwoMore
  <2> HIDE DEF b
  <2> QED BY <1>3, <1>6, <2>1
<1> HIDE DEF b
<1>8. /\ d \in Seq(Write) /\ Len(d) = 6 /\ \A i \in 1..5 : d[i] = b[i]
      /\ d[6] = Move("refile", f, g)
  <2>1. /\ d \in Seq(Write) /\ Len(d) = Len(b) + 1
        /\ \A i \in 1..Len(b) : d[i] = b[i]
        /\ d[Len(b) + 1] = Move("refile", f, g)
    BY <1>1, <1>7, OneMore
  <2> HIDE DEF d
  <2> QED BY <1>7, <2>1
<1> HIDE DEF d
<1>9. /\ c \in Seq(Write) /\ Len(c) = 8 /\ \A i \in 1..6 : c[i] = d[i]
      /\ c[7] = Do("trunc", g) /\ c[8] = Do("fill", g)
  <2>1. /\ c \in Seq(Write) /\ Len(c) = Len(d) + 2
        /\ \A i \in 1..Len(d) : c[i] = d[i]
        /\ c[Len(d) + 1] = SaveProfile(g)[1] /\ c[Len(d) + 2] = SaveProfile(g)[2]
    BY <1>3, <1>8, TwoMore
  <2> HIDE DEF c
  <2> QED BY <1>3, <1>8, <2>1
<1> HIDE DEF c
<1> QED BY <1>5, <1>6, <1>7, <1>8, <1>9

\* What is left when a write has been done: its call is over, or goes on with the
\* next one.
LEMMA TheRest ==
  ASSUME todo \in Seq(Seq(Write)), todo # <<>>, \A i \in 1..Len(todo) : todo[i] # <<>>
  PROVE  /\ Following = todo[1][1] /\ Following \in Write /\ 1 \in 1..Len(todo)
         /\ todo[1] \in Seq(Write) /\ 1 \in 1..Len(todo[1]) /\ Rest \in Seq(Seq(Write))
         /\ Len(todo[1]) = 1 => /\ Len(Rest) = Len(todo) - 1
                                /\ \A i \in 1..Len(Rest) : Rest[i] = todo[i + 1]
         /\ Len(todo[1]) # 1 => /\ Len(Rest) = Len(todo) /\ Len(Rest[1]) = Len(todo[1]) - 1
                                /\ \A k \in 1..Len(Rest[1]) : Rest[1][k] = todo[1][k + 1]
                                /\ \A i \in 2..Len(Rest) : Rest[i] = todo[i]
<1> DEFINE c == todo[1]
           q == Tail(todo)
<1>1. /\ Len(todo) \in Nat /\ 1 \in 1..Len(todo) /\ Head(todo) = c /\ c \in Seq(Write)
      /\ q \in Seq(Seq(Write)) /\ Len(q) = Len(todo) - 1
      /\ \A i \in 1..Len(q) : q[i] = todo[i + 1]
  OBVIOUS
<1>2. c # <<>>
  BY <1>1
<1> HIDE DEF c, q
<1>3. /\ Len(c) \in Nat /\ 1 \in 1..Len(c) /\ Head(c) = c[1] /\ c[1] \in Write
      /\ Tail(c) \in Seq(Write) /\ Len(Tail(c)) = Len(c) - 1
      /\ \A k \in 1..Len(Tail(c)) : Tail(c)[k] = c[k + 1]
  BY <1>1, <1>2
<1>4. CASE Len(c) = 1
  <2>1. Rest = <<>> \o q
    BY <1>1, <1>4 DEF Rest, q
  <2>2. Rest = q
    BY <1>1, <2>1
  <2> QED BY <1>1, <1>3, <1>4, <2>2 DEF Following, c
<1>5. CASE Len(c) # 1
  <2> DEFINE h == <<Tail(c)>>
  <2>1. h \in Seq(Seq(Write)) /\ Len(h) = 1 /\ h[1] = Tail(c)
    BY <1>3
  <2>2. Rest = h \o q
    BY <1>1, <1>5 DEF Rest, q
  <2> HIDE DEF h
  <2>3. /\ h \o q \in Seq(Seq(Write)) /\ Len(h \o q) = Len(h) + Len(q)
        /\ \A i \in 1 .. Len(h) + Len(q) :
             (h \o q)[i] = IF i <= Len(h) THEN h[i] ELSE q[i - Len(h)]
    <3>1. \A x, y \in Seq(Seq(Write)) :
            /\ x \o y \in Seq(Seq(Write)) /\ Len(x \o y) = Len(x) + Len(y)
            /\ \A i \in 1 .. Len(x) + Len(y) :
                 (x \o y)[i] = IF i <= Len(x) THEN x[i] ELSE y[i - Len(x)]
      BY ONLY ConcatProperties
    <3> QED BY <1>1, <2>1, <3>1
  <2>4. Len(Rest) = Len(todo) /\ Rest[1] = Tail(c) /\ Rest \in Seq(Seq(Write))
    BY <1>1, <2>1, <2>2, <2>3
  <2>5. \A i \in 2..Len(Rest) : Rest[i] = todo[i]
    <3>1. TAKE i \in 2..Len(Rest)
    <3>3. i \in 1..(Len(h) + Len(q)) /\ ~(i <= Len(h)) /\ i - 1 \in 1..Len(q) /\ i - 1 + 1 = i
      BY <1>1, <2>1, <2>4
    <3>2. Rest[i] = q[i - Len(h)]
      BY <2>2, <2>3, <3>3
    <3> QED BY <1>1, <2>1, <3>3, <3>2
  <2> QED BY <1>1, <1>3, <1>5, <2>4, <2>5 DEF Following, c
<1> QED BY <1>4, <1>5 DEF c

\* Doing a write takes it from those there are, keeps the order of the others, and
\* a change of the parser or a truncation is next followed by the writing of the file.
LEMMA WriteDone ==
  ASSUME CallsOK(todo), todo # <<>>
  PROVE  /\ Following \in WritesIn(todo) /\ CallsOK(Rest)
         /\ WritesIn(Rest) \subseteq WritesIn(todo)
         /\ \A w \in WritesIn(todo) : w = Following \/ w \in WritesIn(Rest)
         /\ Following.op = "load" => todo = <<LoadProfiles>>
         /\ Following.op # "load" /\ Loading => Rest # <<>> /\ Rest[Len(Rest)] = LoadProfiles
         /\ Following.op \in Paired => Rest # <<>> /\ Follows(Following, Head(Head(Rest)))
<1>1. \A i \in 1..Len(todo) : CallOK(todo[i]) /\ todo[i] # <<>> /\ todo[i] \in Seq(Write)
  BY DEF CallsOK, CallOK
<1>2. todo \in Seq(Seq(Write)) /\ Len(todo) \in Nat
  BY DEF CallsOK
<1>3. /\ Following = todo[1][1] /\ Following \in Write /\ 1 \in 1..Len(todo)
      /\ todo[1] \in Seq(Write) /\ 1 \in 1..Len(todo[1]) /\ Rest \in Seq(Seq(Write))
  BY <1>1, <1>2, TheRest
<1>4. Len(todo[1]) = 1 => /\ Len(Rest) = Len(todo) - 1
                          /\ \A i \in 1..Len(Rest) : Rest[i] = todo[i + 1]
  BY <1>1, <1>2, TheRest
<1>5. Len(todo[1]) # 1 => /\ Len(Rest) = Len(todo) /\ Len(Rest[1]) = Len(todo[1]) - 1
                          /\ \A k \in 1..Len(Rest[1]) : Rest[1][k] = todo[1][k + 1]
                          /\ \A i \in 2..Len(Rest) : Rest[i] = todo[i]
  BY <1>1, <1>2, TheRest
<1>6. Following \in WritesIn(todo)
  BY <1>3 DEF WritesIn
<1>7. Len(todo[1]) \in Nat
  BY <1>3
<1>8. Following.op = "load" => todo = <<LoadProfiles>> /\ Len(todo) = 1 /\ todo[1] = LoadProfiles
  <2>1. ASSUME Following.op = "load" PROVE Len(todo) = 1 /\ todo[1] = LoadProfiles
    BY <1>3, <2>1 DEF CallsOK
  <2>2. ASSUME Len(todo) = 1, todo[1] = LoadProfiles PROVE todo = <<LoadProfiles>>
    BY <1>2, <2>2
  <2> QED BY <2>1, <2>2
<1>9. CASE Len(todo[1]) = 1
  <2>1. /\ Len(Rest) = Len(todo) - 1
        /\ \A i \in 1..Len(Rest) : i + 1 \in 1..Len(todo) /\ Rest[i] = todo[i + 1]
    BY <1>2, <1>3, <1>4, <1>9
  <2>2. CallsOK(Rest)
    <3>1. ASSUME NEW i \in 1..Len(Rest)
          PROVE  /\ CallOK(Rest[i])
                 /\ \A k \in 1..Len(Rest[i]) : Rest[i][k].op = "load" => i = Len(Rest) /\ Rest[i] = LoadProfiles
      <4>1. /\ i + 1 \in 1..Len(todo) /\ Rest[i] = todo[i + 1]
            /\ i + 1 = Len(todo) => i = Len(Rest)
        BY <1>2, <2>1
      <4> DEFINE j == i + 1
      <4>2. /\ CallOK(todo[j])
            /\ \A k \in 1..Len(todo[j]) : todo[j][k].op = "load" => j = Len(todo) /\ todo[j] = LoadProfiles
        BY <4>1 DEF CallsOK
      <4> QED BY <4>1, <4>2
    <3> QED BY <1>3, <3>1 DEF CallsOK
  <2>3. WritesIn(Rest) \subseteq WritesIn(todo)
    BY <2>1 DEF WritesIn
  <2>4. \A w \in WritesIn(todo) : w = Following \/ w \in WritesIn(Rest)
    <3>1. TAKE w \in WritesIn(todo)
    <3>2. PICK i, k : i \in 1..Len(todo) /\ k \in 1..Len(todo[i]) /\ todo[i][k] = w
      BY DEF WritesIn
    <3>3. CASE i = 1
      <4>1. k = 1
        BY <1>9, <3>2, <3>3
      <4> QED BY <1>3, <3>2, <3>3, <4>1
    <3>4. CASE i # 1
      <4>1. i - 1 \in 1..Len(Rest) /\ Rest[i - 1] = todo[i]
        <5>1. i - 1 \in 1..Len(Rest) /\ i - 1 + 1 = i
          BY <1>2, <2>1, <3>2, <3>4
        <5> QED BY <2>1, <5>1
      <4> QED BY <3>2, <4>1 DEF WritesIn
    <3> QED BY <3>3, <3>4
  <2>5. Following.op # "load" /\ Loading => Rest # <<>> /\ Rest[Len(Rest)] = LoadProfiles
    <3>1. SUFFICES ASSUME Following.op # "load", Loading
                   PROVE  Rest # <<>> /\ Rest[Len(Rest)] = LoadProfiles
      OBVIOUS
    <3>2. LoadProfiles[1].op = "load"
      BY DEF LoadProfiles, Do
    <3>3. Len(todo) # 1
      BY <1>3, <3>1, <3>2 DEF Loading
    <3>4. Len(Rest) \in 1..Len(Rest) /\ Len(Rest) + 1 = Len(todo)
      BY <1>2, <1>3, <2>1, <3>3
    <3> QED BY <1>3, <2>1, <3>1, <3>4 DEF Loading
  <2>6. Following.op \notin Paired
    BY <1>1, <1>3, <1>9 DEF CallOK
  <2> QED BY <1>6, <1>8, <2>2, <2>3, <2>4, <2>5, <2>6
<1>10. CASE Len(todo[1]) # 1
  <2>1. /\ Len(Rest) = Len(todo) /\ 1 \in 1..Len(Rest)
        /\ Rest[1] \in Seq(Write) /\ Len(Rest[1]) = Len(todo[1]) - 1 /\ 1 \in 1..Len(Rest[1])
        /\ \A k \in 1..Len(Rest[1]) : k + 1 \in 1..Len(todo[1]) /\ Rest[1][k] = todo[1][k + 1]
        /\ \A i \in 2..Len(Rest) : Rest[i] = todo[i]
    <3>1. Len(Rest) = Len(todo) /\ 1 \in 1..Len(Rest)
      BY <1>3, <1>5, <1>10
    <3>2. Rest[1] \in Seq(Write)
      BY <1>3, <3>1
    <3>3. Len(Rest[1]) = Len(todo[1]) - 1 /\ 1 \in 1..Len(Rest[1])
      <4>1. Len(Rest[1]) = Len(todo[1]) - 1
        BY <1>5, <1>10
      <4>2. Len(todo[1]) > 1
        <5>1. \A n \in Nat : 1 \in 1..n /\ n # 1 => n > 1
          OBVIOUS
        <5> QED BY <1>3, <1>7, <1>10, <5>1
      <4> QED BY <1>7, <4>1, <4>2
    <3>4. \A k \in 1..Len(Rest[1]) : k + 1 \in 1..Len(todo[1])
      BY <1>7, <3>3
    <3> QED BY <1>5, <1>10, <3>1, <3>2, <3>3, <3>4
  <2>2. \A i \in 1..Len(Rest) : i # 1 => i \in 2..Len(Rest) /\ Rest[i] = todo[i]
    BY <1>2, <2>1
  <2>3. CallOK(Rest[1])
    <3>1. ASSUME NEW k \in 1..Len(Rest[1]), Rest[1][k].op \in Paired
          PROVE  k + 1 \in 1..Len(Rest[1]) /\ Follows(Rest[1][k], Rest[1][k + 1])
      <4>1. k + 1 \in 1..Len(todo[1]) /\ todo[1][k + 1].op \in Paired
        BY <2>1, <3>1
      <4>2. k + 1 + 1 \in 1..Len(todo[1]) /\ Follows(todo[1][k + 1], todo[1][k + 1 + 1])
        BY <1>1, <1>3, <4>1 DEF CallOK
      <4>3. k + 1 \in 1..Len(Rest[1])
        BY <1>7, <2>1, <4>2
      <4> QED BY <2>1, <4>2, <4>3
    <3>2. Rest[1] # <<>>
      BY <2>1
    <3> QED BY <2>1, <3>1, <3>2 DEF CallOK
  <2>4. CallsOK(Rest)
    <3>1. ASSUME NEW k \in 1..Len(Rest[1]) PROVE Rest[1][k].op # "load"
      <4>1. SUFFICES ASSUME Rest[1][k].op = "load" PROVE FALSE
        OBVIOUS
      <4>2. todo[1] = LoadProfiles
        BY <1>3, <2>1, <4>1 DEF CallsOK
      <4> QED BY <1>10, <4>2 DEF LoadProfiles
    <3>2. ASSUME NEW i \in 1..Len(Rest)
          PROVE  /\ CallOK(Rest[i])
                 /\ \A k \in 1..Len(Rest[i]) : Rest[i][k].op = "load" => i = Len(Rest) /\ Rest[i] = LoadProfiles
      <4>1. CASE i = 1
        BY <2>3, <3>1, <4>1
      <4>2. CASE i # 1
        BY <2>1, <2>2, <4>2 DEF CallsOK
      <4> QED BY <4>1, <4>2
    <3> QED BY <1>3, <3>2 DEF CallsOK
  <2>5. WritesIn(Rest) \subseteq WritesIn(todo)
    <3>1. ASSUME NEW w \in WritesIn(Rest) PROVE w \in WritesIn(todo)
      <4>1. PICK i, k : i \in 1..Len(Rest) /\ k \in 1..Len(Rest[i]) /\ Rest[i][k] = w
        BY <3>1 DEF WritesIn
      <4>2. CASE i = 1
        BY <1>3, <2>1, <3>1, <4>1, <4>2 DEF WritesIn
      <4>3. CASE i # 1
        BY <2>1, <2>2, <3>1, <4>1, <4>3 DEF WritesIn
      <4> QED BY <4>2, <4>3
    <3> QED BY <3>1
  <2>6. \A w \in WritesIn(todo) : w = Following \/ w \in WritesIn(Rest)
    <3>1. TAKE w \in WritesIn(todo)
    <3>2. PICK i, k : i \in 1..Len(todo) /\ k \in 1..Len(todo[i]) /\ todo[i][k] = w
      BY DEF WritesIn
    <3>3. CASE i = 1 /\ k = 1
      BY <1>3, <3>2, <3>3
    <3>4. CASE i = 1 /\ k # 1
      <4>1. k \in 1..Len(todo[1]) /\ todo[1][k] = w
        BY <3>2, <3>4
      <4>2. k - 1 \in 1..Len(Rest[1]) /\ k - 1 + 1 = k
        BY <1>7, <2>1, <3>4, <4>1
      <4>3. Rest[1][k - 1] = w
        BY <2>1, <4>1, <4>2
      <4> QED BY <2>1, <4>2, <4>3 DEF WritesIn
    <3>5. CASE i # 1
      BY <2>1, <2>2, <3>2, <3>5 DEF WritesIn
    <3> QED BY <3>3, <3>4, <3>5
  <2>7. Following.op # "load"
    <3>1. Len(LoadProfiles) = 1
      BY DEF LoadProfiles
    <3> QED BY <1>8, <1>10, <3>1
  <2>8. Loading => Rest # <<>> /\ Rest[Len(Rest)] = LoadProfiles
    <3>1. SUFFICES ASSUME Loading PROVE Rest # <<>> /\ Rest[Len(Rest)] = LoadProfiles
      OBVIOUS
    <3>2. Len(todo) # 1
      <4>1. Len(LoadProfiles) = 1
        BY DEF LoadProfiles
      <4> QED BY <1>10, <3>1, <4>1 DEF Loading
    <3>3. Len(Rest) \in 1..Len(Rest) /\ Len(Rest) # 1
      BY <1>2, <2>1, <3>2
    <3>4. Rest[Len(Rest)] = todo[Len(Rest)]
      BY <2>2, <3>3
    <3> QED BY <1>3, <2>1, <3>1, <3>4 DEF Loading
  <2>9. Following.op \in Paired => Rest # <<>> /\ Follows(Following, Head(Head(Rest)))
    <3>1. SUFFICES ASSUME Following.op \in Paired
                   PROVE  Rest # <<>> /\ Follows(Following, Head(Head(Rest)))
      OBVIOUS
    <3>2. Follows(todo[1][1], todo[1][1 + 1])
      BY <1>1, <1>3, <3>1 DEF CallOK
    <3>3. Rest[1][1] = todo[1][1 + 1]
      BY <2>1
    <3>4. Rest # <<>> /\ Head(Rest) = Rest[1] /\ Head(Rest[1]) = Rest[1][1]
      BY <1>3, <2>1
    <3> QED BY <1>3, <3>2, <3>3, <3>4
  <2> QED BY <1>6, <2>4, <2>5, <2>6, <2>7, <2>8, <2>9
<1> QED BY <1>9, <1>10

\* Calls that do not load.
Plain(s) ==
  /\ s \in Seq(Seq(Write))
  /\ \A i \in 1..Len(s) : CallOK(s[i])
  /\ \A w \in WritesIn(s) : w.op # "load"

\* One after another, calls do the writes of both.
LEMMA PlainBehind ==
  ASSUME NEW s, NEW t, Plain(s), Plain(t)
  PROVE  Plain(s \o t) /\ WritesIn(s \o t) = WritesIn(s) \cup WritesIn(t)
<1>1. s \in Seq(Seq(Write)) /\ t \in Seq(Seq(Write)) /\ Len(s) \in Nat /\ Len(t) \in Nat
  BY DEF Plain
<1> DEFINE u == s \o t
<1>2. /\ u \in Seq(Seq(Write)) /\ Len(u) = Len(s) + Len(t)
      /\ \A i \in 1 .. Len(s) + Len(t) : u[i] = IF i <= Len(s) THEN s[i] ELSE t[i - Len(s)]
  <2>1. \A x, y \in Seq(Seq(Write)) :
          /\ x \o y \in Seq(Seq(Write)) /\ Len(x \o y) = Len(x) + Len(y)
          /\ \A i \in 1 .. Len(x) + Len(y) :
               (x \o y)[i] = IF i <= Len(x) THEN x[i] ELSE y[i - Len(x)]
    BY ONLY ConcatProperties
  <2> QED BY <1>1, <2>1
<1> HIDE DEF u
<1>3. \A i \in 1..Len(s) : i \in 1..Len(u) /\ u[i] = s[i]
  BY <1>1, <1>2
<1>4. \A i \in 1..Len(t) : Len(s) + i \in 1..Len(u) /\ u[Len(s) + i] = t[i]
  <2>1. TAKE i \in 1..Len(t)
  <2>2. Len(s) + i \in 1..(Len(s) + Len(t)) /\ ~(Len(s) + i <= Len(s)) /\ Len(s) + i - Len(s) = i
    BY <1>1
  <2> QED BY <1>2, <2>2
<1>5. ASSUME NEW i \in 1..Len(u)
      PROVE  \/ i \in 1..Len(s) /\ u[i] = s[i]
             \/ \E j \in 1..Len(t) : u[i] = t[j]
  <2>1. CASE i <= Len(s)
    BY <1>1, <1>2, <2>1
  <2>2. CASE ~(i <= Len(s))
    <3>1. i - Len(s) \in 1..Len(t)
      BY <1>1, <1>2, <2>2
    <3> QED BY <1>2, <2>2, <3>1
  <2> QED BY <2>1, <2>2
<1>6. WritesIn(u) = WritesIn(s) \cup WritesIn(t)
  <2>1. ASSUME NEW w \in WritesIn(u) PROVE w \in WritesIn(s) \cup WritesIn(t)
    <3>1. PICK i, k : i \in 1..Len(u) /\ k \in 1..Len(u[i]) /\ u[i][k] = w
      BY <2>1 DEF WritesIn
    <3> QED BY <1>5, <2>1, <3>1 DEF WritesIn
  <2>2. ASSUME NEW w \in WritesIn(s) PROVE w \in WritesIn(u)
    BY <1>3, <2>2 DEF WritesIn
  <2>3. ASSUME NEW w \in WritesIn(t) PROVE w \in WritesIn(u)
    <3>1. PICK i, k : i \in 1..Len(t) /\ k \in 1..Len(t[i]) /\ t[i][k] = w
      BY <2>3 DEF WritesIn
    <3>2. Len(s) + i \in 1..Len(u) /\ u[Len(s) + i] = t[i]
      BY <1>4, <3>1
    <3> QED BY <2>3, <3>1, <3>2 DEF WritesIn
  <2> QED BY <2>1, <2>2, <2>3
<1>7. Plain(u)
  <2>1. \A i \in 1..Len(u) : CallOK(u[i])
    BY <1>5 DEF Plain
  <2> QED BY <1>2, <1>6, <2>1 DEF Plain
<1> QED BY <1>6, <1>7 DEF u

\* Calls that do not load, and the one that does.
LEMMA ThenLoad ==
  ASSUME NEW s, Plain(s)
  PROVE  LET u == s \o <<LoadProfiles>> IN
           /\ CallsOK(u) /\ u # <<>> /\ u[Len(u)] = LoadProfiles
           /\ WritesIn(u) = WritesIn(s) \cup {Do("load", Default)}
<1> DEFINE t == <<LoadProfiles>>
           u == s \o t
<1>1. /\ Do("load", Default) \in Write /\ Do("load", Default).op = "load"
      /\ LoadProfiles \in Seq(Write) /\ Len(LoadProfiles) = 1 /\ LoadProfiles[1] = Do("load", Default)
  <2>1. Default \in File /\ "load" \in Ops
    BY FileAssumption DEF Ops
  <2>2. Do("load", Default) \in Write /\ Do("load", Default).op = "load"
    BY <2>1, AWrite
  <2> QED BY <2>2 DEF LoadProfiles
<1>2. t \in Seq(Seq(Write)) /\ Len(t) = 1 /\ t[1] = LoadProfiles
  BY <1>1
<1>3. s \in Seq(Seq(Write)) /\ Len(s) \in Nat
  BY DEF Plain
<1> HIDE DEF t, u
<1>4. /\ u \in Seq(Seq(Write)) /\ Len(u) = Len(s) + 1 /\ u[Len(u)] = LoadProfiles
      /\ \A i \in 1..Len(s) : i \in 1..Len(u) /\ u[i] = s[i]
  <2>1. \A x, y \in Seq(Seq(Write)) :
          /\ x \o y \in Seq(Seq(Write)) /\ Len(x \o y) = Len(x) + Len(y)
          /\ \A i \in 1 .. Len(x) + Len(y) :
               (x \o y)[i] = IF i <= Len(x) THEN x[i] ELSE y[i - Len(x)]
    BY ONLY ConcatProperties
  <2>2. /\ u \in Seq(Seq(Write)) /\ Len(u) = Len(s) + Len(t)
        /\ \A i \in 1 .. Len(s) + Len(t) : u[i] = IF i <= Len(s) THEN s[i] ELSE t[i - Len(s)]
    BY <1>2, <1>3, <2>1 DEF u
  <2>3. Len(s) + 1 \in 1..(Len(s) + Len(t)) /\ ~(Len(s) + 1 <= Len(s)) /\ Len(s) + 1 - Len(s) = 1
    BY <1>2, <1>3
  <2> QED BY <1>2, <1>3, <2>2, <2>3
<1>5. \A i \in 1..Len(u) : i \in 1..Len(s) \/ i = Len(u)
  BY <1>3, <1>4
<1>6. CallOK(LoadProfiles) /\ \A k \in 1..Len(LoadProfiles) : LoadProfiles[k] = Do("load", Default)
  <2>1. \A k \in 1..Len(LoadProfiles) : LoadProfiles[k] = Do("load", Default)
    BY <1>1
  <2>2. LoadProfiles # <<>>
    BY <1>1
  <2>3. \A k \in 1..Len(LoadProfiles) : LoadProfiles[k].op \notin Paired
    BY <1>1, <2>1 DEF Paired, Parser
  <2> QED BY <1>1, <2>1, <2>2, <2>3 DEF CallOK
<1>7. WritesIn(u) = WritesIn(s) \cup {Do("load", Default)}
  <2>1. ASSUME NEW w \in WritesIn(u) PROVE w \in WritesIn(s) \cup {Do("load", Default)}
    <3>1. PICK i, k : i \in 1..Len(u) /\ k \in 1..Len(u[i]) /\ u[i][k] = w
      BY <2>1 DEF WritesIn
    <3>2. CASE i \in 1..Len(s)
      BY <1>4, <2>1, <3>1, <3>2 DEF WritesIn
    <3>3. CASE i = Len(u)
      BY <1>4, <1>6, <3>1, <3>3
    <3> QED BY <1>5, <3>1, <3>2, <3>3
  <2>2. ASSUME NEW w \in WritesIn(s) PROVE w \in WritesIn(u)
    BY <1>4, <2>2 DEF WritesIn
  <2>3. Do("load", Default) \in WritesIn(u)
    <3>1. Len(u) \in 1..Len(u) /\ 1 \in 1..Len(u[Len(u)]) /\ u[Len(u)][1] = Do("load", Default)
      <4>1. Len(u) \in 1..Len(u)
        BY <1>3, <1>4
      <4>2. 1 \in 1..Len(LoadProfiles)
        BY <1>1
      <4> QED BY <1>1, <1>4, <4>1, <4>2
    <3> QED BY <1>1, <3>1 DEF WritesIn
  <2> QED BY <2>1, <2>2, <2>3
<1>8. CallsOK(u)
  <2>1. ASSUME NEW i \in 1..Len(u)
        PROVE  /\ CallOK(u[i])
               /\ \A k \in 1..Len(u[i]) : u[i][k].op = "load" => i = Len(u) /\ u[i] = LoadProfiles
    <3>1. CASE i \in 1..Len(s)
      <4>1. CallOK(s[i]) /\ u[i] = s[i] /\ s[i] \in Seq(Write)
        BY <1>4, <3>1 DEF Plain, CallOK
      <4>2. ASSUME NEW k \in 1..Len(s[i]) PROVE s[i][k].op # "load"
        BY <3>1, <4>1, <4>2 DEF Plain, WritesIn
      <4> QED BY <4>1, <4>2
    <3>2. CASE i = Len(u)
      BY <1>4, <1>6, <3>2
    <3> QED BY <1>5, <3>1, <3>2
  <2> QED BY <1>4, <2>1 DEF CallsOK
<1>9. u # <<>>
  BY <1>3, <1>4
<1> QED BY <1>4, <1>7, <1>8, <1>9 DEF u, t

\* Calls that do not load are calls as they are meant.
LEMMA PlainOK ==
  ASSUME NEW s, Plain(s)
  PROVE  CallsOK(s)
<1>1. ASSUME NEW i \in 1..Len(s), NEW k \in 1..Len(s[i]) PROVE s[i][k].op # "load"
  <2>1. s[i] \in Seq(Write) /\ s[i][k] \in Write
    BY DEF Plain, CallOK
  <2> QED BY <2>1 DEF Plain, WritesIn
<1> QED BY <1>1 DEF Plain, CallsOK

\* s makes the call c[f] for each f of S, and none of them loads.
OneEach(S, c, s) ==
  /\ c \in [S -> Seq(Write)]
  /\ \A f \in S : CallOK(c[f]) /\ \A k \in 1..Len(c[f]) : c[f][k].op # "load"
  /\ s \in [1..Cardinality(S) -> Seq(Write)]
  /\ \A i \in 1..Cardinality(S) : s[i] = c[SetToSeq(S)[i]]

\* The writes of one call for each of a set of profiles are theirs.
LEMMA PlainCalls ==
  ASSUME NEW S \in SUBSET File, NEW c, NEW s, OneEach(S, c, s)
  PROVE  /\ Plain(s)
         /\ \A w \in WritesIn(s) : \E f \in S : \E k \in 1..Len(c[f]) : c[f][k] = w
         /\ \A f \in S : \A k \in 1..Len(c[f]) : c[f][k] \in WritesIn(s)
<1> USE DEF OneEach
<1> DEFINE n == Cardinality(S)
           q == SetToSeq(S)
<1>1. n \in Nat /\ q \in [1..n -> S] /\ \A f \in S : \E i \in 1..n : q[i] = f
  BY SequenceOfFiles
<1> HIDE DEF n, q
<1>2. /\ s \in Seq(Seq(Write)) /\ Len(s) = n
      /\ \A i \in 1..n : s[i] = c[q[i]] /\ q[i] \in S
  <2>2. \A i \in 1..n : q[i] \in S
    BY <1>1
  <2>3. \A i \in 1..n : s[i] = c[q[i]]
    BY DEF n, q
  <2>4. s \in [1..n -> Seq(Write)]
    BY DEF n
  <2>5. s \in Seq(Seq(Write)) /\ Len(s) = n
    <3>1. ASSUME NEW X, NEW m \in Nat, NEW r \in [1..m -> X] PROVE r \in Seq(X) /\ Len(r) = m
      OBVIOUS
    <3> QED BY <1>1, <2>4, <3>1
  <2> QED BY <2>2, <2>3, <2>5
<1>3. \A w \in WritesIn(s) : \E f \in S : \E k \in 1..Len(c[f]) : c[f][k] = w
  <2>1. TAKE w \in WritesIn(s)
  <2>2. PICK i, k : i \in 1..Len(s) /\ k \in 1..Len(s[i]) /\ s[i][k] = w
    BY DEF WritesIn
  <2> QED BY <1>2, <2>2
<1>4. ASSUME NEW f \in S, NEW k \in 1..Len(c[f]) PROVE c[f][k] \in WritesIn(s)
  <2>1. c[f][k] \in Write
    BY <1>4
  <2>2. PICK i \in 1..n : q[i] = f
    BY <1>1
  <2>3. i \in 1..Len(s) /\ s[i] = c[f]
    BY <1>2, <2>2
  <2> QED BY <2>1, <2>3 DEF WritesIn
<1>5. \A i \in 1..Len(s) : CallOK(s[i])
  BY <1>2
<1>6. \A w \in WritesIn(s) : w.op # "load"
  BY <1>3
<1> QED BY <1>2, <1>3, <1>4, <1>5, <1>6 DEF Plain

\* What w takes out of the main config or moves is in out, and what it makes in made.
Within(w, out, made) ==
  /\ w.op \in {"unlink", "unlist"} => w.file \in out
  /\ w.op \in {"part", "list", "append"} => w.file \in made
  /\ w.op \in {"rename", "refile"} => w.file \in out /\ w.to \in made
Bounded(s, out, made) == \A w \in WritesIn(s) : Within(w, out, made)

\* s is the calls c[f] for the profiles f of S, each within out and made.
CallEach(S, c, s, out, made) ==
  /\ c = [f \in S |-> c[f]] /\ s = [i \in 1..Cardinality(S) |-> s[i]]
  /\ \A i \in 1..Cardinality(S) : SetToSeq(S)[i] \in S => s[i] = c[SetToSeq(S)[i]]
  /\ \A f \in S :
       /\ CallOK(c[f])
       /\ \A k \in 1..Len(c[f]) : c[f][k].op # "load" /\ Within(c[f][k], out, made)

\* The writes of a sequence with one call for each profile of a set.
LEMMA CallForEach ==
  ASSUME NEW S \in SUBSET File, NEW c, NEW s, NEW out, NEW made, CallEach(S, c, s, out, made)
  PROVE  /\ Plain(s) /\ Bounded(s, out, made)
         /\ \A w \in WritesIn(s) : \E f \in S : \E k \in 1..Len(c[f]) : c[f][k] = w
         /\ \A f \in S : \A k \in 1..Len(c[f]) : c[f][k] \in WritesIn(s)
<1>1. \A i \in 1..Cardinality(S) : SetToSeq(S)[i] \in S /\ s[i] = c[SetToSeq(S)[i]]
  BY SequenceOfFiles DEF CallEach
<1>2. c \in [S -> Seq(Write)]
  BY DEF CallEach, CallOK
<1>3. s \in [1..Cardinality(S) -> Seq(Write)]
  <2>1. \A i \in 1..Cardinality(S) : s[i] \in Seq(Write)
    BY <1>1, <1>2
  <2> QED BY <2>1 DEF CallEach
<1>4. OneEach(S, c, s)
  BY <1>1, <1>2, <1>3 DEF OneEach, CallEach
<1>5. /\ Plain(s)
      /\ \A w \in WritesIn(s) : \E f \in S : \E k \in 1..Len(c[f]) : c[f][k] = w
      /\ \A f \in S : \A k \in 1..Len(c[f]) : c[f][k] \in WritesIn(s)
  <2>1. S \in SUBSET File
    OBVIOUS
  <2> QED BY ONLY <1>4, <2>1, PlainCalls
<1>6. Bounded(s, out, made)
  <2>1. \A f \in S : \A k \in 1..Len(c[f]) : Within(c[f][k], out, made)
    BY DEF CallEach
  <2> HIDE DEF Within
  <2> QED BY <1>5, <2>1 DEF Bounded
<1> QED BY <1>5, <1>6

\* What deleting a set of profiles does.
LEMMA Deletions ==
  ASSUME NEW S \in SUBSET File, NEW s, NEW made, s = ForAll(S, DeleteProfile)
  PROVE  /\ Plain(s) /\ Bounded(s, S, made)
         /\ \A w \in WritesIn(s) : \E f \in S : w \in {Do("unlink", f), Do("unlist", f), Do("save", f)}
         /\ \A f \in S : Do("unlist", f) \in WritesIn(s)
<1> DEFINE c == [f \in S |-> DeleteProfile(f)]
<1>1. ASSUME NEW f \in S
      PROVE  /\ c[f] \in Seq(Write) /\ Len(c[f]) = 3
             /\ c[f][1] = Do("unlink", f) /\ c[f][2] = Do("unlist", f) /\ c[f][3] = Do("save", f)
             /\ c[f][1].op = "unlink" /\ c[f][2].op = "unlist" /\ c[f][3].op = "save"
             /\ c[f][1].file = f /\ c[f][2].file = f
  <2>1. /\ DeleteProfile(f) \in Seq(Write) /\ Len(DeleteProfile(f)) = 3
        /\ DeleteProfile(f)[1] = Do("unlink", f) /\ DeleteProfile(f)[2] = Do("unlist", f)
        /\ DeleteProfile(f)[3] = Do("save", f)
    BY TheCalls
  <2> QED BY <2>1 DEF Do
<1>2. c = [f \in S |-> c[f]] /\ s = [i \in 1..Cardinality(S) |-> s[i]]
  BY DEF ForAll
<1>3. \A i \in 1..Cardinality(S) : SetToSeq(S)[i] \in S => s[i] = c[SetToSeq(S)[i]]
  BY DEF ForAll
<1> HIDE DEF c
<1>4. ASSUME NEW f \in S
      PROVE  /\ CallOK(c[f])
             /\ \A k \in 1..Len(c[f]) : c[f][k].op # "load" /\ Within(c[f][k], S, made)
  <2>1. \A k \in 1..Len(c[f]) : k = 1 \/ k = 2 \/ k = 3
    <3>1. 1..Len(c[f]) = 1..3
      BY <1>1
    <3> QED BY <3>1
  <2>2. c[f] # <<>> /\ 2 + 1 \in 1..Len(c[f])
    BY <1>1
  <2> QED BY <1>1, <2>1, <2>2 DEF CallOK, Paired, Parser, Follows, Within
<1>5. /\ Plain(s) /\ Bounded(s, S, made)
      /\ \A w \in WritesIn(s) : \E f \in S : \E k \in 1..Len(c[f]) : c[f][k] = w
      /\ \A f \in S : \A k \in 1..Len(c[f]) : c[f][k] \in WritesIn(s)
  <2>1. CallEach(S, c, s, S, made)
    BY <1>2, <1>3, <1>4 DEF CallEach
  <2>2. S \in SUBSET File
    OBVIOUS
  <2> QED BY ONLY <2>1, <2>2, CallForEach
<1>6. ASSUME NEW w \in WritesIn(s)
      PROVE  \E f \in S : w \in {Do("unlink", f), Do("unlist", f), Do("save", f)}
  <2>1. PICK f, k : f \in S /\ k \in 1..Len(c[f]) /\ c[f][k] = w
    BY <1>5
  <2>2. k = 1 \/ k = 2 \/ k = 3
    <3>1. 1..Len(c[f]) = 1..3
      BY <1>1, <2>1
    <3> QED BY <2>1, <3>1
  <2> QED BY <1>1, <2>1, <2>2
<1>7. ASSUME NEW f \in S PROVE Do("unlist", f) \in WritesIn(s)
  <2>1. 2 \in 1..Len(c[f]) /\ c[f][2] = Do("unlist", f)
    BY <1>1
  <2> QED BY <1>5, <2>1
<1> QED BY <1>5, <1>6, <1>7

\* Adding a set of profiles makes them and takes nothing out, whether their settings
\* lack a key or not.
LEMMA Additions ==
  ASSUME NEW S \in SUBSET File, NEW s, NEW out,
         s = ForAll(S, AddProfile) \/ s = ForAll(S, AddLacking)
  PROVE  Plain(s) /\ Bounded(s, out, S)
<1>1. PICK c : /\ c = [f \in S |-> c[f]]
               /\ \A f \in S : c[f] = AddProfile(f) \/ c[f] = AddLacking(f)
               /\ \A i \in 1..Cardinality(S) : SetToSeq(S)[i] \in S => s[i] = c[SetToSeq(S)[i]]
  <2>1. CASE s = ForAll(S, AddProfile)
    <3> DEFINE c == [f \in S |-> AddProfile(f)]
    <3>1. /\ c = [f \in S |-> c[f]]
          /\ \A f \in S : c[f] = AddProfile(f)
          /\ \A i \in 1..Cardinality(S) : SetToSeq(S)[i] \in S => s[i] = c[SetToSeq(S)[i]]
      BY <2>1 DEF ForAll
    <3> HIDE DEF c
    <3> QED BY <3>1
  <2>2. CASE s = ForAll(S, AddLacking)
    <3> DEFINE c == [f \in S |-> AddLacking(f)]
    <3>1. /\ c = [f \in S |-> c[f]]
          /\ \A f \in S : c[f] = AddLacking(f)
          /\ \A i \in 1..Cardinality(S) : SetToSeq(S)[i] \in S => s[i] = c[SetToSeq(S)[i]]
      BY <2>2 DEF ForAll
    <3> HIDE DEF c
    <3> QED BY <3>1
  <2> QED BY <2>1, <2>2
<1>2. s = [i \in 1..Cardinality(S) |-> s[i]]
  BY DEF ForAll
<1>3. ASSUME NEW f \in S
      PROVE  /\ c[f] \in Seq(Write) /\ Len(c[f]) = 5
             /\ c[f][1].op = "trunc" /\ c[f][2].op \in {"fill", "part"} /\ c[f][3].op = "list"
             /\ c[f][4].op = "save" /\ c[f][5].op = "append"
             /\ \A k \in {1, 2, 3, 4, 5} : c[f][k].file = f
  <2>1. \A op : Do(op, f).op = op /\ Do(op, f).file = f
    BY DEF Do
  <2>2. /\ c[f] \in Seq(Write) /\ Len(c[f]) = 5
        /\ c[f][1] = Do("trunc", f) /\ c[f][2] \in {Do("fill", f), Do("part", f)}
        /\ c[f][3] = Do("list", f) /\ c[f][4] = Do("save", f) /\ c[f][5] = Do("append", f)
    BY <1>1, TheAdditions
  <2> QED BY <2>1, <2>2
<1>4. ASSUME NEW f \in S
      PROVE  /\ CallOK(c[f])
             /\ \A k \in 1..Len(c[f]) : c[f][k].op # "load" /\ Within(c[f][k], out, S)
  <2>1. \A k \in 1..Len(c[f]) : k = 1 \/ k = 2 \/ k = 3 \/ k = 4 \/ k = 5
    <3>1. 1..Len(c[f]) = 1..5
      BY <1>3
    <3> QED BY <3>1
  <2>2. c[f] # <<>> /\ 1 + 1 \in 1..Len(c[f]) /\ 3 + 1 \in 1..Len(c[f])
    BY <1>3
  <2> QED BY <1>3, <2>1, <2>2 DEF CallOK, Paired, Parser, Follows, Within
<1>5. CallEach(S, c, s, out, S)
  BY <1>1, <1>2, <1>4 DEF CallEach
<1> QED BY <1>5, CallForEach

\* Writing profiles again takes nothing out and makes nothing.
LEMMA Edits ==
  ASSUME NEW S \in SUBSET File, NEW s, NEW out, NEW made, s = ForAll(S, SaveProfile)
  PROVE  Plain(s) /\ Bounded(s, out, made)
<1> DEFINE c == [f \in S |-> SaveProfile(f)]
<1>1. ASSUME NEW f \in S
      PROVE  /\ c[f] \in Seq(Write) /\ Len(c[f]) = 2
             /\ c[f][1].op = "trunc" /\ c[f][2].op = "fill" /\ c[f][2].file = c[f][1].file
  <2>1. /\ SaveProfile(f) \in Seq(Write) /\ Len(SaveProfile(f)) = 2
        /\ SaveProfile(f)[1] = Do("trunc", f) /\ SaveProfile(f)[2] = Do("fill", f)
    BY TheCalls
  <2> QED BY <2>1 DEF Do
<1>2. c = [f \in S |-> c[f]] /\ s = [i \in 1..Cardinality(S) |-> s[i]]
  BY DEF ForAll
<1>3. \A i \in 1..Cardinality(S) : SetToSeq(S)[i] \in S => s[i] = c[SetToSeq(S)[i]]
  BY DEF ForAll
<1> HIDE DEF c
<1>4. ASSUME NEW f \in S
      PROVE  /\ CallOK(c[f])
             /\ \A k \in 1..Len(c[f]) : c[f][k].op # "load" /\ Within(c[f][k], out, made)
  <2>1. \A k \in 1..Len(c[f]) : k = 1 \/ k = 2
    <3>1. 1..Len(c[f]) = 1..2
      BY <1>1
    <3> QED BY <3>1
  <2>2. c[f] # <<>> /\ 1 + 1 \in 1..Len(c[f])
    BY <1>1
  <2> QED BY <1>1, <2>1, <2>2 DEF CallOK, Paired, Parser, Follows, Within
<1>5. CallEach(S, c, s, out, made)
  BY <1>2, <1>3, <1>4 DEF CallEach
<1> QED BY <1>5, CallForEach

\* An edit with a new name takes the old one out, and makes the new one.
LEMMA Renamings ==
  ASSUME NEW S \in SUBSET File, NEW name \in File, NEW s, NEW made, S # {} => name \in made,
         s = ForAll(S, LAMBDA f : RenameProfile(f, name))
  PROVE  Plain(s) /\ Bounded(s, S, made)
<1> DEFINE c == [f \in S |-> RenameProfile(f, name)]
<1>1. ASSUME NEW f \in S
      PROVE  /\ c[f] \in Seq(Write) /\ Len(c[f]) = 8
             /\ c[f][1].op = "rename" /\ c[f][1].file = f /\ c[f][1].to = name
             /\ c[f][2].op = "unlist" /\ c[f][2].file = f /\ c[f][3].op = "save"
             /\ c[f][4].op = "list" /\ c[f][4].file = name /\ c[f][5].op = "save"
             /\ c[f][6].op = "refile" /\ c[f][6].file = f /\ c[f][6].to = name
             /\ c[f][7].op = "trunc" /\ c[f][8].op = "fill" /\ c[f][8].file = c[f][7].file
  <2> DEFINE r == RenameProfile(f, name)
  <2>1. /\ r \in Seq(Write) /\ Len(r) = 8
        /\ r[1] = Move("rename", f, name)
        /\ r[2] = Do("unlist", f) /\ r[3] = Do("save", f)
        /\ r[4] = Do("list", name) /\ r[5] = Do("save", name)
        /\ r[6] = Move("refile", f, name)
        /\ r[7] = Do("trunc", name) /\ r[8] = Do("fill", name)
    BY TheRenaming
  <2>2. c[f] = r
    OBVIOUS
  <2> HIDE DEF r, c
  <2> QED BY <2>1, <2>2 DEF Do, Move
<1>2. c = [f \in S |-> c[f]] /\ s = [i \in 1..Cardinality(S) |-> s[i]]
  BY DEF ForAll
<1>3. \A i \in 1..Cardinality(S) : SetToSeq(S)[i] \in S => s[i] = c[SetToSeq(S)[i]]
  BY DEF ForAll
<1> HIDE DEF c
<1>4. ASSUME NEW f \in S
      PROVE  /\ CallOK(c[f])
             /\ \A k \in 1..Len(c[f]) : c[f][k].op # "load" /\ Within(c[f][k], S, made)
  <2>1. \A k \in 1..Len(c[f]) : k = 1 \/ k = 2 \/ k = 3 \/ k = 4 \/ k = 5 \/ k = 6 \/ k = 7 \/ k = 8
    <3>1. 1..Len(c[f]) = 1..8
      BY <1>1
    <3> QED BY <3>1
  <2>2. c[f] # <<>> /\ 2 + 1 \in 1..Len(c[f]) /\ 4 + 1 \in 1..Len(c[f]) /\ 7 + 1 \in 1..Len(c[f])
    BY <1>1
  <2>3. ASSUME NEW k \in 1..Len(c[f]) PROVE c[f][k].op # "load" /\ Within(c[f][k], S, made)
    <3>1. CASE k = 1 \/ k = 6
      BY <1>1, <3>1 DEF Within
    <3>2. CASE k = 2
      BY <1>1, <3>2 DEF Within
    <3>3. CASE k = 4
      <4>1. name \in made
        OBVIOUS
      <4>2. c[f][k].op = "list" /\ c[f][k].file = name
        BY <1>1, <3>3
      <4> QED BY <4>1, <4>2 DEF Within
    <3>4. CASE k = 3 \/ k = 5 \/ k = 7 \/ k = 8
      BY <1>1, <3>4 DEF Within
    <3> QED BY <2>1, <3>1, <3>2, <3>3, <3>4
  <2>4. ASSUME NEW k \in 1..Len(c[f]), c[f][k].op \in Paired
        PROVE  k + 1 \in 1..Len(c[f]) /\ Follows(c[f][k], c[f][k + 1])
    <3>1. k = 2 \/ k = 4 \/ k = 7
      BY <1>1, <2>1, <2>4 DEF Paired, Parser
    <3>2. CASE k = 2
      BY <1>1, <2>2, <3>2 DEF Follows, Parser
    <3>3. CASE k = 4
      BY <1>1, <2>2, <3>3 DEF Follows, Parser
    <3>4. CASE k = 7
      BY <1>1, <2>2, <3>4 DEF Follows, Parser
    <3> QED BY <3>1, <3>2, <3>3, <3>4
  <2> QED BY <1>1, <2>2, <2>3, <2>4 DEF CallOK
<1>5. CallEach(S, c, s, S, made)
  BY <1>2, <1>3, <1>4 DEF CallEach
<1> QED BY <1>5, CallForEach

\* What applying an answer does: it loads nothing, takes out only what the answer leaves
\* out or renames, and makes only what is new, to its end or to where it raises.
LEMMA Configuring ==
  ASSUME NEW gone \in SUBSET File, NEW added \in SUBSET File, NEW moved \in SUBSET File,
         NEW name \in File, NEW edited \in SUBSET File, NEW lacking \in SUBSET File,
         NEW new, added \subseteq new, lacking \subseteq new, moved # {} => name \in new
  PROVE  LET s == Configure(gone, added, moved, name, edited)
             t == s \o ForAll(lacking, AddLacking)
         IN  /\ Plain(s) /\ Bounded(s, gone \cup moved, new)
             /\ Plain(t) /\ Bounded(t, gone \cup moved, new)
<1> DEFINE a == ForAll(gone, DeleteProfile)
           b == ForAll(added, AddProfile)
           c == ForAll(moved, LAMBDA f : RenameProfile(f, name))
           d == ForAll(edited, SaveProfile)
           e == ForAll(lacking, AddLacking)
<1>1. Configure(gone, added, moved, name, edited) = a \o b \o c \o d
  BY DEF Configure
<1>2. Plain(a) /\ Bounded(a, gone, new)
  BY Deletions
<1>3. Plain(b) /\ Bounded(b, gone, added)
  BY Additions
<1>4. Plain(c) /\ Bounded(c, moved, new)
  BY Renamings
<1>5. Plain(d) /\ Bounded(d, gone, new)
  BY Edits
<1>6. Plain(e) /\ Bounded(e, gone, lacking)
  BY Additions
<1> HIDE DEF a, b, c, d, e
<1>7. Plain(a \o b) /\ WritesIn(a \o b) = WritesIn(a) \cup WritesIn(b)
  BY <1>2, <1>3, PlainBehind
<1>8. Plain(a \o b \o c) /\ WritesIn(a \o b \o c) = WritesIn(a \o b) \cup WritesIn(c)
  BY <1>4, <1>7, PlainBehind
<1>9. Plain(a \o b \o c \o d) /\ WritesIn(a \o b \o c \o d) = WritesIn(a \o b \o c) \cup WritesIn(d)
  BY <1>5, <1>8, PlainBehind
<1>10. /\ Plain(a \o b \o c \o d \o e)
       /\ WritesIn(a \o b \o c \o d \o e) = WritesIn(a \o b \o c \o d) \cup WritesIn(e)
  BY <1>6, <1>9, PlainBehind
<1>11. \A w \in WritesIn(a) \cup WritesIn(b) \cup WritesIn(c) \cup WritesIn(d) \cup WritesIn(e) :
         Within(w, gone \cup moved, new)
  BY <1>2, <1>3, <1>4, <1>5, <1>6 DEF Bounded, Within
<1>12. Bounded(a \o b \o c \o d, gone \cup moved, new)
  BY <1>7, <1>8, <1>9, <1>11 DEF Bounded
<1>13. Bounded(a \o b \o c \o d \o e, gone \cup moved, new)
  BY <1>7, <1>8, <1>9, <1>10, <1>11 DEF Bounded
<1> QED BY <1>1, <1>9, <1>10, <1>12, <1>13 DEF e

-----------------------------------------------------------------------------
(* The invariant *)

\* The calls that are left are well formed, and starting up ends by loading.
TodoInv ==
  /\ CallsOK(todo)
  /\ todo # <<>> => mode \in {"boot", "ready"}
  /\ mode = "boot" => Loading

\* The main config on disk is the one in memory, unless its writing is next.
SyncInv ==
  mode \in {"boot", "ready"} =>
    \/ disk = [whole |-> TRUE, config |-> conf]
    \/ todo # <<>> /\ Following.op = "save"

\* The main config lists names in lower case only.
LowerInv == \A f \in conf.listed \cup disk.config.listed : Lower[f] = f

\* What w changes is among the profiles touched, or, if it takes out a profile, not in the
\* list under any other name.
Recorded(w) ==
  /\ w.op \in {"unlink", "unlist"} =>
       \A f \in plist : Lower[f] = Lower[w.file] => Lower[f] \in touched
  /\ w.op \in {"part", "list", "append", "rename", "refile"} => Lower[w.file] \in touched
  /\ w.op \in {"rename", "refile"} => Lower[w.to] \in touched

\* The file of f is being written.
Writing(f) == todo # <<>> /\ Following.op = "fill" /\ OnDisk(Following.file) = OnDisk(f)

\* All that is left is to take profiles out.
Pruning == \A w \in WritesIn(todo) : w.op \in {"unlink", "unlist", "save"}

\* While the program is up, also between the writes of an answer: an untouched profile of
\* the list is listed in the main config and has its file, unless that is being written;
\* and what else the main config lists is touched or about to be taken out.
GhostInv ==
  mode = "ready" =>
    /\ \A f \in plist : Lower[f] \notin touched => f \in conf.listed /\ (Valid(f) \/ Writing(f))
    /\ \A f \in conf.listed \ plist :
         f \in touched \/ (Do("unlist", f) \in WritesIn(todo) /\ Pruning)
    /\ \A w \in WritesIn(todo) : Recorded(w)

\* Without a selection, one was cut short.
SelectedInv ==
  /\ disk.whole /\ disk.config.selected = {} => cut
  /\ mode \in {"boot", "ready"} /\ conf.selected = {} => cut

\* w takes the default profile out of the main config or of the list, or puts one in that
\* differs from it in case.
OnDefault(w) ==
  \/ w.op \in {"unlist", "append", "refile"} /\ Lower[w.file] = Default
  \/ w.op = "refile" /\ Lower[w.to] = Default

\* Starting up lists the default profile, and nothing takes it out unnoticed.
DefaultInv ==
  /\ mode = "boot" =>
       /\ Default \in conf.listed \/ Do("list", Default) \in WritesIn(todo)
       /\ \A w \in WritesIn(todo) : w.op # "unlist"
  /\ mode = "ready" /\ ~noDefault =>
       /\ Default \in conf.listed /\ Default \in plist
       /\ \A f \in plist : Lower[f] = Default => f = Default
       /\ \A w \in WritesIn(todo) : ~OnDefault(w)

ProfilesInv ==
  ProfilesTypeOK /\ TodoInv /\ SyncInv /\ LowerInv /\ GhostInv /\ SelectedInv /\ DefaultInv

\* No calls, no writes.
LEMMA NoCalls == CallsOK(<<>>) /\ WritesIn(<<>>) = {} /\ <<>> \in Seq(Seq(Write))
BY DEF CallsOK, WritesIn

\* The next write is one of those to come.
LEMMA NextWrite ==
  ASSUME NEW s, CallsOK(s), s # <<>>
  PROVE  Head(Head(s)) \in WritesIn(s)
<1>1. s \in Seq(Seq(Write)) /\ 1 \in 1..Len(s) /\ Head(s) = s[1]
  BY DEF CallsOK
<1>2. CallOK(s[1])
  BY <1>1 DEF CallsOK
<1>3. s[1] \in Seq(Write) /\ s[1] # <<>>
  BY <1>2 DEF CallOK
<1>4. 1 \in 1..Len(s[1]) /\ Head(s[1]) = s[1][1] /\ s[1][1] \in Write
  BY <1>3
<1> QED BY <1>1, <1>4 DEF WritesIn

\* One file on disk is one profile, as the main config names them.
LEMMA OneFile ==
  ASSUME NEW f \in File, NEW g \in File, OnDisk(f) = OnDisk(g)
  PROVE  Lower[f] = Lower[g]
BY DEF OnDisk

\* The invariant holds in the files as they are shipped.
LEMMA InitProfilesInv == ProfilesInit => ProfilesInv
<1> SUFFICES ASSUME ProfilesInit PROVE ProfilesInv
  OBVIOUS
<1>1. PICK f \in File \ {Default} :
        disk = [whole |-> TRUE, config |-> [listed |-> Earlier \cup {Default}, selected |-> {Lower[f]}]]
  BY DEF ProfilesInit
<1>2. /\ Lower[f] \in File /\ Default \in File /\ Earlier \cup {Default} \subseteq File
      /\ \A g \in Earlier \cup {Default} : Lower[g] = g
  BY FileAssumption
<1>3. /\ disk.config = [listed |-> Earlier \cup {Default}, selected |-> {Lower[f]}]
      /\ disk.whole = TRUE
  BY <1>1
<1>4. disk \in [whole : BOOLEAN, config : Config] /\ conf \in Config
  BY <1>1, <1>2 DEF Config, ProfilesInit
<1>5. todo = <<>> /\ mode = "down" /\ conf.listed = {}
  BY DEF ProfilesInit
<1>6. ProfilesTypeOK
  <2>1. files \in [File -> {"none", "bad", "good"}]
    BY DEF ProfilesInit
  <2>2. offers \in [Page -> SUBSET SUBSET File] /\ plist \subseteq File /\ touched \subseteq File
    BY DEF ProfilesInit
  <2>3. answers \in 0..MaxAnswers /\ kills \in 0..MaxKills
    BY BoundAssumption DEF ProfilesInit
  <2>4. cut \in BOOLEAN /\ noDefault \in BOOLEAN
    BY DEF ProfilesInit
  <2> QED BY <1>4, <1>5, <2>1, <2>2, <2>3, <2>4, NoCalls DEF ProfilesTypeOK
<1>7. TodoInv /\ SyncInv /\ GhostInv /\ DefaultInv
  BY <1>5, NoCalls DEF TodoInv, SyncInv, GhostInv, DefaultInv
<1>8. LowerInv
  BY <1>2, <1>3, <1>5 DEF LowerInv
<1>9. SelectedInv
  BY <1>3, <1>5 DEF SelectedInv
<1> QED BY <1>6, <1>7, <1>8, <1>9 DEF ProfilesInv

\* What every write that is done leaves.
LEMMA OneDone ==
  ASSUME ProfilesInv, todo # <<>>, todo' = Rest, mode' = mode, Following.op # "load"
  PROVE  /\ TodoInv' /\ todo' \in Seq(Seq(Write)) /\ mode \in {"boot", "ready"}
         /\ Following \in Write /\ Following \in WritesIn(todo) /\ Following.file \in File
         /\ Following.op \in {"rename", "refile"} => Following.to \in File
         /\ WritesIn(todo') \subseteq WritesIn(todo)
         /\ \A w \in WritesIn(todo) : w = Following \/ w \in WritesIn(todo')
         /\ Following.op \in Paired =>
              todo' # <<>> /\ Follows(Following, Following') /\ Following' \in WritesIn(todo')
<1>1. CallsOK(todo) /\ mode \in {"boot", "ready"}
  BY DEF ProfilesInv, TodoInv
<1>2. /\ Following \in WritesIn(todo) /\ CallsOK(Rest)
      /\ WritesIn(Rest) \subseteq WritesIn(todo)
      /\ \A w \in WritesIn(todo) : w = Following \/ w \in WritesIn(Rest)
      /\ Following.op # "load" /\ Loading => Rest # <<>> /\ Rest[Len(Rest)] = LoadProfiles
      /\ Following.op \in Paired => Rest # <<>> /\ Follows(Following, Head(Head(Rest)))
  BY <1>1, WriteDone
<1>3. Following \in Write
  BY <1>2 DEF WritesIn
<1>4. Following.file \in File /\ (Following.op \in {"rename", "refile"} => Following.to \in File)
  BY <1>3 DEF Write
<1>5. Loading => Loading'
  BY <1>2 DEF Loading
<1>6. TodoInv' /\ todo' \in Seq(Seq(Write))
  BY <1>1, <1>2, <1>5 DEF ProfilesInv, TodoInv, CallsOK
<1>7. Following' = Head(Head(todo'))
  BY DEF Following
<1>8. Following.op \in Paired => Following' \in WritesIn(todo')
  BY <1>2, <1>7, NextWrite
<1> QED BY <1>1, <1>2, <1>3, <1>4, <1>6, <1>7, <1>8

\* What is left of the invariant when a write changes neither the lists nor the profiles
\* touched.
LEMMA Remaining ==
  ASSUME ProfilesInv, todo # <<>>, todo' = Rest, Following.op \notin {"load", "list", "unlist"},
         UNCHANGED <<conf, plist, touched, mode, noDefault>>
  PROVE  /\ DefaultInv'
         /\ mode = "ready" =>
              /\ \A f \in conf.listed \ plist :
                   f \in touched \/ (Do("unlist", f) \in WritesIn(todo') /\ Pruning')
              /\ \A w \in WritesIn(todo') : Recorded(w)'
<1>1. /\ WritesIn(todo') \subseteq WritesIn(todo)
      /\ \A w \in WritesIn(todo) : w = Following \/ w \in WritesIn(todo')
  BY OneDone
<1>2. \A f : Do("list", f).op = "list" /\ Do("unlist", f).op = "unlist"
  BY DEF Do
<1>3. DefaultInv'
  <2>1. mode = "boot" =>
          /\ Default \in conf.listed \/ Do("list", Default) \in WritesIn(todo')
          /\ \A w \in WritesIn(todo') : w.op # "unlist"
    BY <1>1, <1>2 DEF ProfilesInv, DefaultInv
  <2>2. mode = "ready" /\ ~noDefault =>
          /\ Default \in conf.listed /\ Default \in plist
          /\ \A f \in plist : Lower[f] = Default => f = Default
          /\ \A w \in WritesIn(todo') : ~OnDefault(w)
    BY <1>1 DEF ProfilesInv, DefaultInv
  <2> QED BY <2>1, <2>2 DEF DefaultInv, OnDefault
<1>4. ASSUME mode = "ready", NEW f \in conf.listed \ plist
      PROVE  f \in touched \/ (Do("unlist", f) \in WritesIn(todo') /\ Pruning')
  BY <1>1, <1>2, <1>4 DEF ProfilesInv, GhostInv, Pruning
<1>5. ASSUME mode = "ready", NEW w \in WritesIn(todo') PROVE Recorded(w)'
  BY <1>1, <1>5 DEF ProfilesInv, GhostInv, Recorded
<1> QED BY <1>3, <1>4, <1>5

\* A write to a profile file.
LEMMA FileStepInv ==
  ASSUME ProfilesInv, FileStep
  PROVE  ProfilesInv'
<1>1. /\ todo # <<>> /\ todo' = Rest
      /\ UNCHANGED <<disk, conf, plist, touched, mode, offers, answers, kills, cut, noDefault>>
      /\ Following.op \in {"trunc", "fill", "part", "unlink", "rename"}
  BY DEF FileStep
<1>2. /\ TodoInv' /\ todo' \in Seq(Seq(Write)) /\ mode \in {"boot", "ready"}
      /\ Following \in WritesIn(todo) /\ Following.file \in File
      /\ Following.op = "rename" => Following.to \in File
      /\ WritesIn(todo') \subseteq WritesIn(todo)
      /\ Following.op = "trunc" =>
           todo' # <<>> /\ Follows(Following, Following') /\ Following' \in WritesIn(todo')
  BY <1>1, OneDone DEF Paired
<1>3. files \in [File -> {"none", "bad", "good"}]
  BY DEF ProfilesInv, ProfilesTypeOK
<1>4. \A f \in File : OnDisk(f) \in File
  BY FileAssumption DEF OnDisk
<1>5. disk = [whole |-> TRUE, config |-> conf]
  BY <1>1, <1>2 DEF ProfilesInv, SyncInv
<1>6. files' \in [File -> {"none", "bad", "good"}]
  <2>1. CASE Following.op = "rename"
    BY <1>2, <1>3, <1>4, <2>1 DEF FileStep
  <2>2. CASE Following.op # "rename"
    BY <1>2, <1>3, <1>4, <2>2 DEF FileStep
  <2> QED BY <2>1, <2>2
<1>7. ProfilesTypeOK'
  BY <1>1, <1>2, <1>6 DEF ProfilesInv, ProfilesTypeOK
<1>8. SyncInv' /\ LowerInv' /\ SelectedInv'
  BY <1>1, <1>5 DEF ProfilesInv, SyncInv, LowerInv, SelectedInv
<1>9. /\ DefaultInv'
      /\ mode = "ready" =>
           /\ \A f \in conf.listed \ plist :
                f \in touched \/ (Do("unlist", f) \in WritesIn(todo') /\ Pruning')
           /\ \A w \in WritesIn(todo') : Recorded(w)'
  BY <1>1, Remaining
<1>10. ASSUME mode = "ready", NEW f \in plist, Lower[f] \notin touched
       PROVE  f \in conf.listed /\ (Valid(f)' \/ Writing(f)')
  <2>1. /\ f \in conf.listed /\ (Valid(f) \/ Writing(f))
        /\ \A w \in WritesIn(todo) : Recorded(w)
    BY <1>10 DEF ProfilesInv, GhostInv
  <2>2. f \in File /\ OnDisk(f) \in File /\ Valid(f)' = (files'[OnDisk(f)] = "good")
    <3>1. f \in File
      BY <1>10 DEF ProfilesInv, ProfilesTypeOK
    <3> QED BY <1>4, <3>1 DEF Valid, OnDisk
  <2>3. CASE OnDisk(f) # OnDisk(Following.file)
    <3>1. Valid(f)
      BY <2>1, <2>3 DEF Writing
    <3>2. ASSUME Following.op = "rename" PROVE OnDisk(f) # OnDisk(Following.to)
      <4>1. Lower[Following.to] \in touched
        BY <1>2, <2>1, <3>2 DEF Recorded
      <4> QED BY <1>2, <1>10, <2>2, <3>2, <4>1, OneFile
    <3>3. files'[OnDisk(f)] = files[OnDisk(f)]
      <4>1. CASE Following.op = "rename"
        BY <1>2, <1>3, <1>4, <2>2, <2>3, <3>2, <4>1 DEF FileStep
      <4>2. CASE Following.op # "rename"
        BY <1>2, <1>3, <1>4, <2>2, <2>3, <4>2 DEF FileStep
      <4> QED BY <4>1, <4>2
    <3> QED BY <2>1, <2>2, <3>1, <3>3 DEF Valid
  <2>4. CASE OnDisk(f) = OnDisk(Following.file)
    <3>1. Lower[f] = Lower[Following.file]
      BY <1>2, <2>2, <2>4, OneFile
    <3>2. Following.op \notin {"unlink", "part", "rename"}
      BY <1>2, <1>10, <2>1, <3>1 DEF Recorded
    <3>3. CASE Following.op = "fill"
      <4>1. files' = [files EXCEPT ![OnDisk(Following.file)] = "good"]
        BY <3>3 DEF FileStep
      <4> QED BY <1>3, <2>1, <2>2, <2>4, <4>1
    <3>4. CASE Following.op = "trunc"
      <4>1. /\ todo' # <<>> /\ Following' \in WritesIn(todo)
            /\ Following'.op \in {"fill", "part"} /\ Following'.file = Following.file
        BY <1>2, <3>4 DEF Follows
      <4>2. Following'.op # "part"
        BY <1>10, <2>1, <3>1, <4>1 DEF Recorded
      <4>3. OnDisk(Following'.file) = OnDisk(f)
        BY <2>4, <4>1
      <4>4. Writing(f)'
        BY <4>1, <4>2, <4>3 DEF Writing, OnDisk
      <4> QED BY <2>1, <4>4
    <3> QED BY <1>1, <3>2, <3>3, <3>4
  <2> QED BY <2>3, <2>4
<1>11. GhostInv'
  BY <1>1, <1>9, <1>10 DEF GhostInv
<1> QED BY <1>2, <1>7, <1>8, <1>9, <1>11 DEF ProfilesInv

\* A change of the parser in memory.
LEMMA ConfigStepInv ==
  ASSUME ProfilesInv, ConfigStep
  PROVE  ProfilesInv'
<1>1. /\ todo # <<>> /\ todo' = Rest /\ disk' = [disk EXCEPT !.whole = FALSE]
      /\ UNCHANGED <<files, plist, touched, mode, offers, answers, kills, noDefault>>
      /\ Following.op \in Parser
  BY DEF ConfigStep, Parser
<1>2. /\ TodoInv' /\ todo' \in Seq(Seq(Write)) /\ mode \in {"boot", "ready"}
      /\ Following \in WritesIn(todo) /\ Following.file \in File
      /\ WritesIn(todo') \subseteq WritesIn(todo)
      /\ \A w \in WritesIn(todo) : w = Following \/ w \in WritesIn(todo')
      /\ todo' # <<>> /\ Follows(Following, Following')
  BY <1>1, OneDone DEF Paired, Parser
<1>3. conf \in Config /\ cut \in BOOLEAN /\ disk \in [whole : BOOLEAN, config : Config]
  BY DEF ProfilesInv, ProfilesTypeOK
<1>4. Lower[Following.file] \in File /\ Lower[Lower[Following.file]] = Lower[Following.file]
  BY <1>2, FileAssumption
<1>5. disk' \in [whole : BOOLEAN, config : Config] /\ disk'.config = disk.config /\ disk'.whole = FALSE
  BY <1>1, <1>3
<1>6. /\ conf' \in Config
      /\ \/ conf'.listed = conf.listed
         \/ Following.op = "list" /\ conf'.listed = conf.listed \cup {Lower[Following.file]}
         \/ Following.op = "unlist" /\ conf'.listed = conf.listed \ {Lower[Following.file]}
      /\ Following.op = "list" => conf'.listed = conf.listed \cup {Lower[Following.file]}
      /\ Following.op = "unlist" => conf'.listed = conf.listed \ {Lower[Following.file]}
      /\ \/ Following.op \in {"list", "unlist"} /\ conf'.selected = conf.selected
         \/ Following.op = "unselect"
         \/ Following.op = "select" /\ conf'.selected = {Lower[Following.file]}
  <2>1. CASE Following.op = "list"
    <3>1. conf' = [conf EXCEPT !.listed = @ \cup {Lower[Following.file]}]
      BY <2>1 DEF ConfigStep
    <3> QED BY <1>3, <1>4, <2>1, <3>1 DEF Config
  <2>2. CASE Following.op = "unlist"
    <3>1. conf' = [conf EXCEPT !.listed = @ \ {Lower[Following.file]}]
      BY <2>2 DEF ConfigStep
    <3> QED BY <1>3, <1>4, <2>2, <3>1 DEF Config
  <2>3. CASE Following.op = "unselect"
    <3>1. conf' = [conf EXCEPT !.selected = {}]
      BY <2>3 DEF ConfigStep
    <3> QED BY <1>3, <2>3, <3>1 DEF Config
  <2>4. CASE Following.op = "select"
    <3>1. conf' = [conf EXCEPT !.selected = {Lower[Following.file]}]
      BY <2>4 DEF ConfigStep
    <3> QED BY <1>3, <1>4, <2>4, <3>1 DEF Config
  <2> QED BY <1>1, <2>1, <2>2, <2>3, <2>4 DEF Parser
<1>7. /\ cut' \in BOOLEAN
      /\ Following.op = "unselect" => cut' = TRUE
      /\ Following.op \in {"list", "unlist"} => cut' = cut
  <2>1. CASE Following.op = "unselect"
    BY <2>1 DEF ConfigStep
  <2>2. CASE Following.op = "select"
    BY <2>2 DEF ConfigStep
  <2>3. CASE Following.op \in {"list", "unlist"}
    BY <1>3, <2>3 DEF ConfigStep
  <2> QED BY <1>1, <2>1, <2>2, <2>3 DEF Parser
<1>8. ProfilesTypeOK'
  BY <1>1, <1>2, <1>5, <1>6, <1>7 DEF ProfilesInv, ProfilesTypeOK
<1>9. SyncInv'
  BY <1>1, <1>2 DEF SyncInv, Follows
<1>10. LowerInv'
  BY <1>4, <1>5, <1>6 DEF ProfilesInv, LowerInv
<1>11. SelectedInv'
  <2>1. SUFFICES ASSUME conf'.selected = {} PROVE cut'
    BY <1>5 DEF SelectedInv
  <2>2. CASE Following.op \in {"list", "unlist"}
    <3>1. conf.selected = {}
      BY <1>6, <2>1, <2>2
    <3>2. cut = TRUE
      BY <1>2, <1>3, <3>1 DEF ProfilesInv, SelectedInv
    <3> QED BY <1>7, <2>2, <3>2
  <2>3. CASE Following.op = "unselect"
    BY <1>7, <2>3
  <2>4. CASE Following.op = "select"
    BY <1>6, <2>1, <2>4
  <2> QED BY <1>1, <2>2, <2>3, <2>4 DEF Parser
<1>12. DefaultInv'
  <2>1. Lower[Default] = Default /\ Do("list", Default).file = Default /\ Do("list", Default).op = "list"
    BY FileAssumption DEF Do
  <2>2. ASSUME mode = "boot"
        PROVE  /\ Default \in conf'.listed \/ Do("list", Default) \in WritesIn(todo')
               /\ \A w \in WritesIn(todo') : w.op # "unlist"
    <3>1. Following.op # "unlist"
      BY <1>2, <2>2 DEF ProfilesInv, DefaultInv
    <3>2. Default \in conf.listed \/ Do("list", Default) \in WritesIn(todo)
      BY <2>2 DEF ProfilesInv, DefaultInv
    <3>3. Default \in conf.listed => Default \in conf'.listed
      BY <1>6, <3>1
    <3>4. Do("list", Default) = Following => Default \in conf'.listed
      BY <1>6, <2>1
    <3> QED BY <1>2, <2>2, <3>2, <3>3, <3>4 DEF ProfilesInv, DefaultInv
  <2>3. ASSUME mode = "ready", ~noDefault
        PROVE  /\ Default \in conf'.listed /\ Default \in plist
               /\ \A f \in plist : Lower[f] = Default => f = Default
               /\ \A w \in WritesIn(todo') : ~OnDefault(w)
    <3>1. /\ Default \in conf.listed /\ Default \in plist
          /\ \A f \in plist : Lower[f] = Default => f = Default
          /\ \A w \in WritesIn(todo) : ~OnDefault(w)
      BY <2>3 DEF ProfilesInv, DefaultInv
    <3>2. Following.op = "unlist" => Lower[Following.file] # Default
      BY <1>2, <3>1 DEF OnDefault
    <3> QED BY <1>2, <1>6, <3>1, <3>2
  <2> QED BY <1>1, <2>2, <2>3 DEF DefaultInv, OnDefault
<1>13. ASSUME mode = "ready" PROVE \A w \in WritesIn(todo') : Recorded(w)'
  BY <1>1, <1>2, <1>13 DEF ProfilesInv, GhostInv, Recorded
<1>14. ASSUME mode = "ready", NEW f \in plist, Lower[f] \notin touched
       PROVE  f \in conf'.listed /\ Valid(f)'
  <2>1. /\ f \in conf.listed /\ (Valid(f) \/ Writing(f))
        /\ Recorded(Following)
    BY <1>2, <1>14 DEF ProfilesInv, GhostInv
  <2>2. Valid(f)'
    BY <1>1, <2>1 DEF Writing, Valid, OnDisk, Parser
  <2>3. Lower[f] = f
    BY <2>1 DEF ProfilesInv, LowerInv
  <2>4. Following.op = "unlist" => Lower[Following.file] # f
    BY <1>14, <2>1, <2>3 DEF Recorded
  <2> QED BY <1>6, <2>1, <2>2, <2>4
<1>15. ASSUME mode = "ready", NEW f \in conf'.listed \ plist
       PROVE  f \in touched \/ (Do("unlist", f) \in WritesIn(todo') /\ Pruning')
  <2>1. Recorded(Following)
    BY <1>2, <1>15 DEF ProfilesInv, GhostInv
  <2>2. CASE f \notin conf.listed
    <3>1. Following.op = "list" /\ f = Lower[Following.file]
      BY <1>6, <1>15, <2>2
    <3> QED BY <2>1, <3>1 DEF Recorded
  <2>3. CASE f \in conf.listed
    <3>1. f \in touched \/ (Do("unlist", f) \in WritesIn(todo) /\ Pruning)
      BY <1>15, <2>3 DEF ProfilesInv, GhostInv
    <3>2. Lower[f] = f
      BY <2>3 DEF ProfilesInv, LowerInv
    <3>3. Do("unlist", f) # Following
      <4>1. SUFFICES ASSUME Following = Do("unlist", f) PROVE FALSE
        OBVIOUS
      <4>2. Following.op = "unlist" /\ Following.file = f
        BY <4>1 DEF Do
      <4> QED BY <1>6, <1>15, <3>2, <4>2
    <3>4. Pruning => Pruning'
      BY <1>2 DEF Pruning
    <3> QED BY <1>2, <3>1, <3>3, <3>4
  <2> QED BY <2>2, <2>3
<1>16. GhostInv'
  BY <1>1, <1>13, <1>14, <1>15 DEF GhostInv
<1> QED BY <1>2, <1>8, <1>9, <1>10, <1>11, <1>12, <1>16 DEF ProfilesInv

\* The main config is written.
LEMMA SaveConfigInv ==
  ASSUME ProfilesInv, SaveConfig
  PROVE  ProfilesInv'
<1>1. /\ todo # <<>> /\ todo' = Rest /\ disk' = [whole |-> TRUE, config |-> conf]
      /\ UNCHANGED <<files, conf, plist, touched, mode, offers, answers, kills, cut, noDefault>>
      /\ Following.op = "save"
  BY DEF SaveConfig
<1>2. TodoInv' /\ todo' \in Seq(Seq(Write)) /\ mode \in {"boot", "ready"}
  BY <1>1, OneDone
<1>3. conf \in Config
  BY DEF ProfilesInv, ProfilesTypeOK
<1>4. disk' \in [whole : BOOLEAN, config : Config] /\ disk'.config = conf
  BY <1>1, <1>3
<1>5. ProfilesTypeOK'
  BY <1>1, <1>2, <1>4 DEF ProfilesInv, ProfilesTypeOK
<1>6. SyncInv'
  BY <1>1 DEF SyncInv
<1>7. LowerInv' /\ SelectedInv'
  BY <1>1, <1>2, <1>4 DEF ProfilesInv, LowerInv, SelectedInv
<1>8. /\ DefaultInv'
      /\ mode = "ready" =>
           /\ \A f \in conf.listed \ plist :
                f \in touched \/ (Do("unlist", f) \in WritesIn(todo') /\ Pruning')
           /\ \A w \in WritesIn(todo') : Recorded(w)'
  BY <1>1, Remaining
<1>9. ASSUME mode = "ready", NEW f \in plist, Lower[f] \notin touched
      PROVE  f \in conf.listed /\ Valid(f)'
  BY <1>1, <1>9 DEF ProfilesInv, GhostInv, Writing, Valid, OnDisk
<1>10. GhostInv'
  BY <1>1, <1>8, <1>9 DEF GhostInv
<1> QED BY <1>2, <1>5, <1>6, <1>7, <1>8, <1>10 DEF ProfilesInv

\* PROFILE_LIST gets a new profile, or a new name.
LEMMA ListStepInv ==
  ASSUME ProfilesInv, ListStep
  PROVE  ProfilesInv'
<1>1. /\ todo # <<>> /\ todo' = Rest
      /\ UNCHANGED <<files, disk, conf, touched, mode, offers, answers, kills, cut, noDefault>>
      /\ \/ Following.op = "append" /\ plist' = plist \cup {Following.file}
         \/ Following.op = "refile" /\ plist' = (plist \ {Following.file}) \cup {Following.to}
  BY DEF ListStep
<1>2. /\ TodoInv' /\ todo' \in Seq(Seq(Write)) /\ mode \in {"boot", "ready"}
      /\ Following \in WritesIn(todo) /\ Following.file \in File
      /\ Following.op = "refile" => Following.to \in File
      /\ WritesIn(todo') \subseteq WritesIn(todo)
      /\ \A w \in WritesIn(todo) : w = Following \/ w \in WritesIn(todo')
  BY <1>1, OneDone
<1>3. ProfilesTypeOK'
  BY <1>1, <1>2 DEF ProfilesInv, ProfilesTypeOK
<1>4. SyncInv' /\ LowerInv' /\ SelectedInv'
  BY <1>1 DEF ProfilesInv, SyncInv, LowerInv, SelectedInv
<1>5. DefaultInv'
  <2>1. Do("list", Default).op = "list"
    BY DEF Do
  <2>2. mode = "boot" =>
          /\ Default \in conf.listed \/ Do("list", Default) \in WritesIn(todo')
          /\ \A w \in WritesIn(todo') : w.op # "unlist"
    BY <1>1, <1>2, <2>1 DEF ProfilesInv, DefaultInv
  <2>3. ASSUME mode = "ready", ~noDefault
        PROVE  /\ Default \in conf.listed /\ Default \in plist'
               /\ \A f \in plist' : Lower[f] = Default => f = Default
               /\ \A w \in WritesIn(todo') : ~OnDefault(w)
    <3>1. /\ Default \in conf.listed /\ Default \in plist
          /\ \A f \in plist : Lower[f] = Default => f = Default
          /\ \A w \in WritesIn(todo) : ~OnDefault(w)
      BY <2>3 DEF ProfilesInv, DefaultInv
    <3>2. /\ Lower[Following.file] # Default
          /\ Following.op = "refile" => Lower[Following.to] # Default
      BY <1>1, <1>2, <3>1 DEF OnDefault
    <3>3. Following.file # Default
      BY <3>2, FileAssumption
    <3> QED BY <1>1, <1>2, <3>1, <3>2, <3>3
  <2> QED BY <1>1, <2>2, <2>3 DEF DefaultInv, OnDefault
<1>6. GhostInv'
  <2>1. SUFFICES ASSUME mode = "ready" PROVE GhostInv'
    BY <1>1 DEF GhostInv
  <2>2. /\ \A f \in plist : Lower[f] \notin touched => f \in conf.listed /\ (Valid(f) \/ Writing(f))
        /\ \A f \in conf.listed \ plist :
             f \in touched \/ (Do("unlist", f) \in WritesIn(todo) /\ Pruning)
        /\ \A w \in WritesIn(todo) : Recorded(w)
    BY <2>1 DEF ProfilesInv, GhostInv
  <2>3. /\ Lower[Following.file] \in touched
        /\ Following.op = "refile" => Lower[Following.to] \in touched
        /\ ~Pruning
    BY <1>1, <1>2, <2>2 DEF Recorded, Pruning
  <2>4. \A f \in plist' : f \in plist \/ Lower[f] \in touched
    BY <1>1, <2>3
  <2>5. ASSUME NEW f \in plist', Lower[f] \notin touched PROVE f \in conf.listed /\ Valid(f)'
    BY <1>1, <2>2, <2>4, <2>5 DEF Writing, Valid, OnDisk
  <2>6. ASSUME NEW f \in conf.listed \ plist' PROVE f \in touched
    <3>1. f \notin plist \/ f = Following.file
      BY <1>1, <2>6
    <3>2. Lower[f] = f
      BY <2>6 DEF ProfilesInv, LowerInv
    <3> QED BY <2>2, <2>3, <2>6, <3>1, <3>2
  <2>7. ASSUME NEW w \in WritesIn(todo') PROVE Recorded(w)'
    <3>1. Recorded(w)
      BY <1>2, <2>2
    <3> QED BY <1>1, <2>4, <3>1 DEF Recorded
  <2> QED BY <1>1, <2>5, <2>6, <2>7 DEF GhostInv
<1> QED BY <1>2, <1>3, <1>4, <1>5, <1>6 DEF ProfilesInv

\* An answer raises: what it has still to do is dropped.
LEMMA RaiseInv ==
  ASSUME ProfilesInv, Raise
  PROVE  ProfilesInv'
<1>1. /\ mode = "ready" /\ todo # <<>> /\ todo' = <<>>
      /\ touched' = touched \cup {Lower[Following.file]}
      /\ UNCHANGED <<files, disk, conf, plist, mode, offers, answers, kills, cut, noDefault>>
      /\ Following.op \in {"trunc", "fill", "rename", "append"}
  BY DEF Raise
<1>2. CallsOK(todo)
  BY DEF ProfilesInv, TodoInv
<1>3. Following \in WritesIn(todo) /\ Following.file \in File
  <2>1. Following \in WritesIn(todo)
    BY <1>1, <1>2, NextWrite DEF Following
  <2>2. Following \in Write
    BY <2>1 DEF WritesIn
  <2> QED BY <2>1, <2>2 DEF Write
<1>4. ProfilesTypeOK'
  BY <1>1, <1>3, NoCalls, FileAssumption DEF ProfilesInv, ProfilesTypeOK
<1>5. TodoInv' /\ LowerInv' /\ SelectedInv'
  BY <1>1, NoCalls DEF ProfilesInv, TodoInv, LowerInv, SelectedInv
<1>6. SyncInv'
  BY <1>1 DEF ProfilesInv, SyncInv
<1>7. DefaultInv'
  BY <1>1, NoCalls DEF ProfilesInv, DefaultInv
<1>8. GhostInv'
  <2>1. /\ \A f \in plist : Lower[f] \notin touched => f \in conf.listed /\ (Valid(f) \/ Writing(f))
        /\ \A f \in conf.listed \ plist :
             f \in touched \/ (Do("unlist", f) \in WritesIn(todo) /\ Pruning)
    BY <1>1 DEF ProfilesInv, GhostInv
  <2>2. ~Pruning
    BY <1>1, <1>3 DEF Pruning
  <2>3. ASSUME NEW f \in plist, Lower[f] \notin touched' PROVE f \in conf.listed /\ Valid(f)'
    <3>1. f \in File
      BY DEF ProfilesInv, ProfilesTypeOK
    <3>2. ~Writing(f)
      BY <1>1, <1>3, <2>3, <3>1, OneFile DEF Writing
    <3> QED BY <1>1, <2>1, <2>3, <3>2 DEF Valid, OnDisk
  <2> QED BY <1>1, <2>1, <2>2, <2>3, NoCalls DEF GhostInv
<1> QED BY <1>4, <1>5, <1>6, <1>7, <1>8 DEF ProfilesInv

\* The program starts.
LEMMA BootInv ==
  ASSUME ProfilesInv, Boot
  PROVE  ProfilesInv'
<1>1. /\ mode = "down" /\ UNCHANGED <<files, disk, plist, touched, offers, answers, kills, cut, noDefault>>
      /\ conf \in Config /\ disk \in [whole : BOOLEAN, config : Config]
  BY DEF Boot, ProfilesInv, ProfilesTypeOK
<1>2. CASE ~disk.whole
  <2>1. mode' = "failed" /\ UNCHANGED <<conf, todo>>
    BY <1>2 DEF Boot
  <2>2. todo = <<>>
    BY <1>1 DEF ProfilesInv, TodoInv
  <2>3. todo' = <<>>
    BY <2>1, <2>2
  <2>4. ProfilesTypeOK'
    BY <1>1, <2>1 DEF ProfilesInv, ProfilesTypeOK
  <2>5. TodoInv' /\ SyncInv' /\ GhostInv' /\ DefaultInv'
    BY <2>1, <2>3, NoCalls DEF TodoInv, SyncInv, GhostInv, DefaultInv
  <2>6. LowerInv' /\ SelectedInv'
    BY <1>1, <2>1 DEF ProfilesInv, LowerInv, SelectedInv
  <2> QED BY <2>4, <2>5, <2>6 DEF ProfilesInv
<1>3. CASE disk.whole
  <2> DEFINE a == IF files[Default] = "none" THEN <<WriteDefaultProfile>> ELSE <<>>
             b == <<Enlist(Default)>>
  <2>1. mode' = "boot" /\ conf' = disk.config /\ todo' = a \o <<Enlist(Default), LoadProfiles>>
    BY <1>3 DEF Boot
  <2>2. Default \in File /\ "list" \in Ops
    BY FileAssumption DEF Ops
  <2>3. /\ Enlist(Default) \in Seq(Write) /\ Len(Enlist(Default)) = 2
        /\ Enlist(Default)[1] = Do("list", Default) /\ Enlist(Default)[2] = Do("save", Default)
    BY <2>2, TheCalls
  <2>4. /\ Do("list", Default) \in Write /\ Do("list", Default).op = "list" /\ Do("save", Default).op = "save"
    BY <2>2, AWrite DEF Do
  <2>5. \A k \in 1..Len(Enlist(Default)) : k = 1 \/ k = 2
    <3>1. 1..Len(Enlist(Default)) = 1..2
      BY <2>3
    <3> QED BY <3>1
  <2>6. Plain(b) /\ Do("list", Default) \in WritesIn(b) /\ \A w \in WritesIn(b) : w.op # "unlist"
    <3>1. b \in Seq(Seq(Write)) /\ Len(b) = 1 /\ b[1] = Enlist(Default)
      BY <2>3
    <3> HIDE DEF b
    <3>2. 1 + 1 \in 1..Len(Enlist(Default)) /\ Enlist(Default) # <<>>
      <4>1. 1..Len(Enlist(Default)) = 1..2 /\ 1 + 1 \in 1..2
        BY <2>3
      <4>2. Enlist(Default) # <<>>
        BY DEF Enlist
      <4> QED BY <4>1, <4>2
    <3>3. CallOK(Enlist(Default))
      BY <2>3, <2>4, <2>5, <3>2 DEF CallOK, Paired, Parser, Follows
    <3>4. \A i \in 1..Len(b) : i = 1
      BY <3>1
    <3>5. ASSUME NEW w \in WritesIn(b) PROVE w.op # "load" /\ w.op # "unlist"
      <4>1. PICK i, k : i \in 1..Len(b) /\ k \in 1..Len(b[i]) /\ b[i][k] = w
        BY <3>5 DEF WritesIn
      <4>2. k \in 1..Len(Enlist(Default)) /\ Enlist(Default)[k] = w
        BY <3>1, <3>4, <4>1
      <4> QED BY <2>3, <2>4, <2>5, <4>2
    <3>6. Do("list", Default) \in WritesIn(b)
      <4>1. 1 \in 1..Len(b) /\ 1 \in 1..Len(b[1]) /\ b[1][1] = Do("list", Default)
        BY <2>3, <3>1
      <4> QED BY <2>4, <4>1 DEF WritesIn
    <3> QED BY <3>1, <3>3, <3>4, <3>5, <3>6 DEF Plain
  <2>7. Plain(a) /\ \A w \in WritesIn(a) : w.op # "unlist"
    <3>1. CASE files[Default] # "none"
      <4>1. a = <<>>
        BY <3>1
      <4> QED BY <4>1, NoCalls DEF Plain
    <3>2. CASE files[Default] = "none"
      <4> DEFINE c == SaveProfile(Default) \o Enlist(Default)
      <4>1. a = <<c>>
        BY <3>2 DEF WriteDefaultProfile
      <4>2. /\ c \in Seq(Write) /\ Len(c) = 4
            /\ c[1] = Do("trunc", Default) /\ c[2] = Do("fill", Default)
            /\ c[3] = Do("list", Default) /\ c[4] = Do("save", Default)
        BY <2>2, TheCalls
      <4> HIDE DEF a, c
      <4>3. a \in Seq(Seq(Write)) /\ Len(a) = 1 /\ a[1] = c
        BY <4>1, <4>2
      <4>4. \A k \in 1..Len(c) : k = 1 \/ k = 2 \/ k = 3 \/ k = 4
        <5>1. 1..Len(c) = 1..4
          BY <4>2
        <5> QED BY <5>1
      <4>5. /\ c[1].op = "trunc" /\ c[2].op = "fill" /\ c[3].op = "list" /\ c[4].op = "save"
            /\ c[2].file = c[1].file
        BY <4>2 DEF Do
      <4>6. 1 + 1 \in 1..Len(c) /\ 3 + 1 \in 1..Len(c) /\ c # <<>>
        BY <4>2
      <4>7. CallOK(c)
        BY <4>2, <4>4, <4>5, <4>6 DEF CallOK, Paired, Parser, Follows
      <4>8. \A i \in 1..Len(a) : i = 1
        BY <4>3
      <4>9. ASSUME NEW w \in WritesIn(a) PROVE w.op # "load" /\ w.op # "unlist"
        <5>1. PICK i, k : i \in 1..Len(a) /\ k \in 1..Len(a[i]) /\ a[i][k] = w
          BY <4>9 DEF WritesIn
        <5>2. k \in 1..Len(c) /\ c[k] = w
          BY <4>3, <4>8, <5>1
        <5> QED BY <4>4, <4>5, <5>2
      <4> QED BY <4>3, <4>7, <4>8, <4>9 DEF Plain
    <3> QED BY <3>1, <3>2
  <2>8. todo' = a \o b \o <<LoadProfiles>>
    <3>1. LoadProfiles \in Seq(Write)
      BY <2>2 DEF LoadProfiles, Do, Write
    <3>2. a \in Seq(Seq(Write))
      BY <2>7 DEF Plain
    <3>3. b \in Seq(Seq(Write)) /\ <<LoadProfiles>> \in Seq(Seq(Write))
      BY <2>3, <3>1
    <3>4. b \o <<LoadProfiles>> = <<Enlist(Default), LoadProfiles>>
      <4>1. ASSUME NEW X, NEW x \in X, NEW y \in X PROVE <<x>> \o <<y>> = <<x, y>>
        <5> DEFINE u == <<x>> \o <<y>>
        <5>1. <<x>> \in Seq(X) /\ <<y>> \in Seq(X) /\ <<x, y>> \in Seq(X)
          OBVIOUS
        <5>2. u \in Seq(X) /\ Len(u) = 2 /\ u[1] = x /\ u[2] = y
          BY <5>1
        <5>3. u = [i \in 1..2 |-> u[i]] /\ <<x, y>> = [i \in 1..2 |-> <<x, y>>[i]]
          BY <5>2
        <5>4. \A i \in 1..2 : u[i] = <<x, y>>[i]
          BY <5>2
        <5> QED BY <5>3, <5>4
      <4> QED BY <2>3, <3>1, <4>1
    <3> HIDE DEF a, b
    <3>5. (a \o b) \o <<LoadProfiles>> = a \o (b \o <<LoadProfiles>>)
      BY <3>2, <3>3, ConcatAssociative
    <3> QED BY <2>1, <3>4, <3>5
  <2> HIDE DEF a, b
  <2>9. Plain(a \o b) /\ WritesIn(a \o b) = WritesIn(a) \cup WritesIn(b)
    BY <2>6, <2>7, PlainBehind
  <2>10. /\ CallsOK(todo') /\ todo' # <<>> /\ todo'[Len(todo')] = LoadProfiles
         /\ WritesIn(todo') = WritesIn(a \o b) \cup {Do("load", Default)}
    BY <2>8, <2>9, ThenLoad
  <2>11. ProfilesTypeOK'
    <3>1. conf' \in Config /\ mode' \in {"down", "boot", "ready", "failed"} /\ todo' \in Seq(Seq(Write))
      BY <1>1, <2>1, <2>10 DEF CallsOK
    <3> QED BY <1>1, <3>1 DEF ProfilesInv, ProfilesTypeOK
  <2>12. TodoInv'
    BY <2>1, <2>10 DEF TodoInv, Loading
  <2>13. disk.whole = TRUE
    BY <1>1, <1>3
  <2>14. SyncInv'
    <3>1. disk = [whole |-> TRUE, config |-> disk.config]
      BY <1>1, <2>13
    <3> QED BY <1>1, <2>1, <3>1 DEF SyncInv
  <2>15. LowerInv' /\ SelectedInv'
    BY <1>1, <1>3, <2>1 DEF ProfilesInv, LowerInv, SelectedInv
  <2>16. DefaultInv'
    <3>1. Do("load", Default).op = "load"
      BY DEF Do
    <3> QED BY <2>1, <2>6, <2>7, <2>9, <2>10, <3>1 DEF DefaultInv
  <2>17. GhostInv'
    BY <2>1 DEF GhostInv
  <2> QED BY <2>11, <2>12, <2>14, <2>15, <2>16, <2>17 DEF ProfilesInv
<1> QED BY <1>2, <1>3

\* The profiles are loaded: what is listed and not there is to be deleted.
LEMMA LoadInv ==
  ASSUME ProfilesInv, Load
  PROVE  ProfilesInv'
<1> DEFINE bad == {f \in disk.config.listed : ~Valid(f)}
           s == ForAll(bad, DeleteProfile)
<1>1. /\ todo # <<>> /\ Following.op = "load" /\ conf' = disk.config
      /\ noDefault' = (noDefault \/ Default \in bad)
      /\ plist' = disk.config.listed \ bad /\ todo' = s /\ mode' = "ready" /\ touched' = {}
      /\ UNCHANGED <<files, disk, offers, answers, kills, cut>>
  BY DEF Load
<1>2. CallsOK(todo) /\ mode \in {"boot", "ready"} /\ conf \in Config /\ noDefault \in BOOLEAN
      /\ disk \in [whole : BOOLEAN, config : Config]
  BY <1>1 DEF ProfilesInv, TodoInv, ProfilesTypeOK
<1>3. todo = <<LoadProfiles>>
  BY <1>1, <1>2, WriteDone
<1>4. disk = [whole |-> TRUE, config |-> conf]
  BY <1>1, <1>2 DEF ProfilesInv, SyncInv
<1>5. disk.config = conf /\ disk.whole = TRUE /\ conf.listed \in SUBSET File /\ bad \in SUBSET File
  BY <1>2, <1>4 DEF Config
<1>6. /\ Plain(s)
      /\ \A w \in WritesIn(s) : \E f \in bad : w \in {Do("unlink", f), Do("unlist", f), Do("save", f)}
      /\ \A f \in bad : Do("unlist", f) \in WritesIn(s)
  <2> HIDE DEF bad
  <2> QED BY <1>5, Deletions
<1>7. \A f : /\ Do("unlink", f).op = "unlink" /\ Do("unlist", f).op = "unlist" /\ Do("save", f).op = "save"
             /\ Do("unlink", f).file = f /\ Do("unlist", f).file = f
  BY DEF Do
<1> HIDE DEF s
<1>8. ProfilesTypeOK'
  <2>1. /\ conf' \in Config /\ plist' \subseteq File /\ touched' \subseteq File /\ noDefault' \in BOOLEAN
        /\ todo' \in Seq(Seq(Write))
    BY <1>1, <1>2, <1>5, <1>6 DEF Plain
  <2> QED BY <1>1, <2>1 DEF ProfilesInv, ProfilesTypeOK
<1>9. TodoInv'
  BY <1>1, <1>6, PlainOK DEF TodoInv
<1>10. SyncInv' /\ LowerInv' /\ SelectedInv'
  BY <1>1, <1>2, <1>4, <1>5 DEF ProfilesInv, SyncInv, LowerInv, SelectedInv
<1>11. \A f \in conf.listed : Lower[f] = f
  BY DEF ProfilesInv, LowerInv
<1>12. GhostInv'
  <2>1. \A f \in plist' : f \in conf'.listed /\ Valid(f)'
    BY <1>1, <1>5 DEF Valid, OnDisk
  <2>2. ASSUME NEW w \in WritesIn(s)
        PROVE  Recorded(w)' /\ w.op \in {"unlink", "unlist", "save"}
    <3>1. PICK f \in bad : w \in {Do("unlink", f), Do("unlist", f), Do("save", f)}
      BY <1>6
    <3>2. w.op \in {"unlink", "unlist", "save"} /\ (w.op # "save" => w.file = f)
      BY <1>7, <3>1
    <3>3. \A g \in plist' : Lower[g] # Lower[f]
      BY <1>1, <1>5, <1>11
    <3> QED BY <3>2, <3>3 DEF Recorded
  <2>3. Pruning'
    BY <1>1, <2>2 DEF Pruning
  <2>4. \A f \in conf'.listed \ plist' : Do("unlist", f) \in WritesIn(s)
    BY <1>1, <1>6
  <2> QED BY <1>1, <2>1, <2>2, <2>3, <2>4 DEF GhostInv
<1>13. DefaultInv'
  <2>1. SUFFICES ASSUME ~noDefault'
                 PROVE  /\ Default \in conf'.listed /\ Default \in plist'
                        /\ \A f \in plist' : Lower[f] = Default => f = Default
                        /\ \A w \in WritesIn(s) : ~OnDefault(w)
    BY <1>1 DEF DefaultInv, OnDefault
  <2>2. ~noDefault /\ Default \notin bad
    BY <1>1, <2>1
  <2>3. Default \in conf.listed
    <3>1. CASE mode = "ready"
      BY <2>2, <3>1 DEF ProfilesInv, DefaultInv
    <3>2. CASE mode = "boot"
      <4>1. Do("list", Default) \notin WritesIn(todo)
        <5>1. ASSUME NEW w \in WritesIn(todo) PROVE w.op = "load"
          <6>1. PICK i, k : i \in 1..Len(todo) /\ k \in 1..Len(todo[i]) /\ todo[i][k] = w
            BY <5>1 DEF WritesIn
          <6>2. Len(todo) = 1 /\ todo[1] = LoadProfiles
            BY <1>3
          <6>3. i = 1
            BY <6>1, <6>2
          <6>4. Len(LoadProfiles) = 1 /\ LoadProfiles[1] = Do("load", Default)
            BY DEF LoadProfiles
          <6>5. k = 1
            BY <6>1, <6>2, <6>3, <6>4
          <6> QED BY <6>1, <6>2, <6>3, <6>4, <6>5 DEF Do
        <5>2. Do("list", Default).op = "list"
          BY DEF Do
        <5> QED BY <5>1, <5>2
      <4> QED BY <3>2, <4>1 DEF ProfilesInv, DefaultInv
    <3> QED BY <1>2, <3>1, <3>2
  <2>4. ASSUME NEW w \in WritesIn(s) PROVE ~OnDefault(w)
    <3>1. PICK f \in bad : w \in {Do("unlink", f), Do("unlist", f), Do("save", f)}
      BY <1>6
    <3>2. w.op \in {"unlink", "unlist", "save"} /\ (w.op # "save" => w.file = f)
      BY <1>7, <3>1
    <3>3. Lower[f] = f
      BY <1>5, <1>11
    <3> QED BY <2>2, <3>2, <3>3 DEF OnDefault
  <2> QED BY <1>1, <1>5, <1>11, <2>2, <2>3, <2>4
<1> QED BY <1>8, <1>9, <1>10, <1>12, <1>13 DEF ProfilesInv

\* The program is killed.
LEMMA KillInv ==
  ASSUME ProfilesInv, Kill
  PROVE  ProfilesInv'
<1>1. /\ mode' = "down" /\ conf' = [listed |-> {}, selected |-> {}] /\ plist' = {} /\ touched' = {} /\ todo' = <<>>
      /\ noDefault' = FALSE /\ UNCHANGED <<files, disk, answers, cut>>
      /\ offers' = [p \in Page |-> {}] /\ kills' = kills + 1 /\ kills < MaxKills
  BY DEF Kill
<1>2. kills' \in 0..MaxKills
  BY <1>1, BoundAssumption DEF ProfilesInv, ProfilesTypeOK
<1>3. conf' \in Config /\ conf'.listed = {} /\ offers' \in [Page -> SUBSET SUBSET File]
  BY <1>1 DEF Config
<1>4. ProfilesTypeOK'
  BY <1>1, <1>2, <1>3, NoCalls DEF ProfilesInv, ProfilesTypeOK
<1>5. TodoInv' /\ SyncInv' /\ GhostInv' /\ DefaultInv'
  BY <1>1, NoCalls DEF TodoInv, SyncInv, GhostInv, DefaultInv
<1>6. LowerInv' /\ SelectedInv'
  BY <1>1, <1>3 DEF ProfilesInv, LowerInv, SelectedInv
<1> QED BY <1>4, <1>5, <1>6 DEF ProfilesInv

\* A page is offered the profiles, or an answer to an offer raises.
LEMMA PageStepInv ==
  ASSUME ProfilesInv, NEW p \in Page, OfferProfiles(p) \/ AnswerRaises(p)
  PROVE  ProfilesInv'
<1>1. /\ UNCHANGED <<files, disk, conf, plist, touched, mode, todo, answers, kills, cut, noDefault>>
      /\ offers' = [offers EXCEPT ![p] = {plist}] \/ offers' = [offers EXCEPT ![p] = {}]
  BY DEF OfferProfiles, AnswerRaises
<1>2. offers' \in [Page -> SUBSET SUBSET File]
  <2>1. {plist} \in SUBSET SUBSET File /\ {} \in SUBSET SUBSET File
    BY DEF ProfilesInv, ProfilesTypeOK
  <2> QED BY <1>1, <2>1 DEF ProfilesInv, ProfilesTypeOK
<1>3. ProfilesTypeOK'
  BY <1>1, <1>2 DEF ProfilesInv, ProfilesTypeOK
<1>4. TodoInv' /\ SyncInv' /\ LowerInv' /\ SelectedInv' /\ DefaultInv'
  BY <1>1 DEF ProfilesInv, TodoInv, SyncInv, LowerInv, SelectedInv, DefaultInv, OnDefault, Loading, Following
<1>5. GhostInv'
  BY <1>1 DEF ProfilesInv, GhostInv, Recorded, Pruning, Writing, Following, Valid, OnDisk
<1> QED BY <1>3, <1>4, <1>5 DEF ProfilesInv

\* An answer is applied.
LEMMA AnswerInv ==
  ASSUME ProfilesInv, NEW p \in Page, Answer(p)
  PROVE  ProfilesInv'
<1>1. /\ mode = "ready" /\ todo = <<>> /\ answers < MaxAnswers /\ answers' = answers + 1
      /\ offers' = [offers EXCEPT ![p] = {}]
      /\ UNCHANGED <<files, disk, conf, plist, mode, kills, cut>>
  BY DEF Answer, Quiet
<1>2. /\ plist \in SUBSET File /\ offers \in [Page -> SUBSET SUBSET File] /\ noDefault \in BOOLEAN
      /\ touched \in SUBSET File
  BY DEF ProfilesInv, ProfilesTypeOK
<1> DEFINE Applied(kept, new, moved, lacking, edited, name) ==
             LET gone == plist \ kept
                 added == new \ (lacking \cup {name})
                 calls == Configure(gone, added, moved, name, edited)
             IN
             /\ Cardinality(moved) <= 1 /\ Cardinality(lacking) <= 1
             /\ Cardinality(added) <= Cardinality(kept \ plist) + 1
             /\ \/ /\ lacking = {} /\ edited = (kept \cap plist) \ moved
                   /\ Cardinality(added) >= Cardinality(kept \ plist)
                   /\ todo' = calls \o <<LoadProfiles>>
                \/ todo' = calls \o ForAll(lacking, AddLacking)
             /\ touched' = touched \cup {Lower[f] : f \in gone \cup moved \cup new}
             /\ noDefault' = (noDefault \/ Default \in gone \cup moved)
<1>3. PICK kept, new, moved, lacking, edited, name :
        /\ kept \in SUBSET File /\ new \in SUBSET Fresh /\ moved \in SUBSET (kept \cap plist)
        /\ lacking \in SUBSET new /\ edited \in SUBSET ((kept \cap plist) \ moved)
        /\ name \in IF moved = {} THEN {Default} ELSE new \ lacking
        /\ Applied(kept, new, moved, lacking, edited, name)
  <2>1. PICK offer \in offers[p] : \E kept \in SUBSET offer, new \in SUBSET Fresh :
          \E moved \in SUBSET (kept \cap plist), lacking \in SUBSET new :
          \E edited \in SUBSET ((kept \cap plist) \ moved) :
          \E name \in IF moved = {} THEN {Default} ELSE new \ lacking :
            Applied(kept, new, moved, lacking, edited, name)
    BY DEF Answer
  <2>2. SUBSET offer \subseteq SUBSET File
    BY <1>2
  <2> HIDE DEF Applied
  <2> QED BY <2>1, <2>2
<1> DEFINE gone == plist \ kept
           added == new \ (lacking \cup {name})
           s == Configure(gone, added, moved, name, edited)
           t == s \o ForAll(lacking, AddLacking)
<1>4. /\ todo' = s \o <<LoadProfiles>> \/ todo' = t
      /\ touched' = touched \cup {Lower[f] : f \in gone \cup moved \cup new}
      /\ noDefault' = (noDefault \/ Default \in gone \cup moved)
  BY <1>3
<1>5. /\ gone \in SUBSET File /\ added \in SUBSET File /\ moved \in SUBSET File /\ name \in File
      /\ edited \in SUBSET File /\ lacking \in SUBSET File /\ new \in SUBSET File
      /\ added \subseteq new /\ lacking \subseteq new /\ (moved # {} => name \in new)
      /\ gone \cup moved \subseteq plist
  <2>1. new \in SUBSET File
    BY <1>3 DEF Fresh
  <2>2. name \in File /\ (moved # {} => name \in new)
    BY <1>3, <2>1, FileAssumption
  <2> QED BY <1>2, <1>3, <2>1, <2>2
<1>6. /\ Plain(s) /\ Bounded(s, gone \cup moved, new)
      /\ Plain(t) /\ Bounded(t, gone \cup moved, new)
  <2> HIDE DEF gone, added
  <2> QED BY <1>5, Configuring
<1> HIDE DEF s, t, added
<1>7. /\ CallsOK(todo')
      /\ \A w \in WritesIn(todo') : w.op = "load" \/ Within(w, gone \cup moved, new)
  <2>1. CASE todo' = s \o <<LoadProfiles>>
    <3>1. CallsOK(todo') /\ WritesIn(todo') = WritesIn(s) \cup {Do("load", Default)}
      BY <1>6, <2>1, ThenLoad
    <3>2. Do("load", Default).op = "load"
      BY DEF Do
    <3> QED BY <1>6, <3>1, <3>2 DEF Bounded
  <2>2. CASE todo' = t
    BY <1>6, <2>2, PlainOK DEF Bounded
  <2> QED BY <1>4, <2>1, <2>2
<1>8. /\ \A f \in gone \cup moved \cup new : Lower[f] \in touched'
      /\ touched \subseteq touched' /\ touched' \subseteq File
  <2>1. \A f \in gone \cup moved \cup new : Lower[f] \in File
    BY <1>5, FileAssumption
  <2> QED BY <1>2, <1>4, <2>1
<1>9. ProfilesTypeOK'
  <2>1. answers' \in 0..MaxAnswers
    BY <1>1, BoundAssumption DEF ProfilesInv, ProfilesTypeOK
  <2>2. offers' \in [Page -> SUBSET SUBSET File] /\ noDefault' \in BOOLEAN
    BY <1>1, <1>2, <1>4
  <2>3. todo' \in Seq(Seq(Write))
    BY <1>7 DEF CallsOK
  <2> QED BY <1>1, <1>8, <2>1, <2>2, <2>3 DEF ProfilesInv, ProfilesTypeOK
<1>10. TodoInv'
  BY <1>1, <1>7 DEF TodoInv
<1>11. SyncInv' /\ LowerInv' /\ SelectedInv'
  BY <1>1 DEF ProfilesInv, SyncInv, LowerInv, SelectedInv
<1>12. GhostInv'
  <2>1. /\ \A f \in plist : Lower[f] \notin touched => f \in conf.listed /\ Valid(f)
        /\ conf.listed \ plist \subseteq touched
    BY <1>1, NoCalls DEF ProfilesInv, GhostInv, Writing
  <2>2. ASSUME NEW f \in plist, Lower[f] \notin touched' PROVE f \in conf.listed /\ Valid(f)'
    BY <1>1, <1>8, <2>1, <2>2 DEF Valid, OnDisk
  <2>3. conf.listed \ plist \subseteq touched'
    BY <1>8, <2>1
  <2>4. ASSUME NEW w \in WritesIn(todo') PROVE Recorded(w)'
    <3>1. w.op = "load" \/ Within(w, gone \cup moved, new)
      BY <1>7
    <3>2. w.op \in {"unlink", "unlist", "part", "list", "append", "rename", "refile"} =>
            w.file \in gone \cup moved \cup new
      BY <3>1 DEF Within
    <3>3. w.op \in {"rename", "refile"} => w.to \in new
      BY <3>1 DEF Within
    <3> QED BY <1>8, <3>2, <3>3 DEF Recorded
  <2> QED BY <1>1, <2>2, <2>3, <2>4 DEF GhostInv
<1>13. DefaultInv'
  <2>1. SUFFICES ASSUME ~noDefault'
                 PROVE  /\ Default \in conf.listed /\ Default \in plist
                        /\ \A f \in plist : Lower[f] = Default => f = Default
                        /\ \A w \in WritesIn(todo') : ~OnDefault(w)
    BY <1>1 DEF DefaultInv, OnDefault
  <2>2. ~noDefault /\ Default \notin gone \cup moved
    BY <1>2, <1>4, <2>1
  <2>3. /\ Default \in conf.listed /\ Default \in plist
        /\ \A f \in plist : Lower[f] = Default => f = Default
    BY <1>1, <2>2 DEF ProfilesInv, DefaultInv
  <2>4. \A f \in gone \cup moved : Lower[f] # Default
    BY <1>5, <2>2, <2>3
  <2>5. \A f \in new : Lower[f] # Default
    BY <1>3, <2>3, FileAssumption DEF Fresh
  <2>6. ASSUME NEW w \in WritesIn(todo') PROVE ~OnDefault(w)
    <3>1. w.op = "load" \/ Within(w, gone \cup moved, new)
      BY <1>7
    <3>2. w.op \in {"unlist", "append", "refile"} => w.file \in gone \cup moved \cup new
      BY <3>1 DEF Within
    <3>3. w.op = "refile" => w.to \in new
      BY <3>1 DEF Within
    <3> HIDE DEF gone
    <3> QED BY <2>4, <2>5, <3>2, <3>3 DEF OnDefault
  <2> QED BY <2>3, <2>6
<1> QED BY <1>9, <1>10, <1>11, <1>12, <1>13 DEF ProfilesInv

\* A profile is selected.
LEMMA SetSelectedInv ==
  ASSUME ProfilesInv, SetSelected
  PROVE  ProfilesInv'
<1>1. /\ mode = "ready" /\ todo = <<>> /\ answers < MaxAnswers /\ answers' = answers + 1
      /\ UNCHANGED <<files, disk, conf, plist, touched, mode, offers, kills, cut, noDefault>>
  BY DEF SetSelected, Quiet
<1>2. plist \in SUBSET File /\ Default \in File
  BY FileAssumption DEF ProfilesInv, ProfilesTypeOK
<1>3. \E c : /\ todo' = <<c>> /\ c \in Seq(Write) /\ Len(c) \in {2, 4}
             /\ c[1].op = "unselect" /\ c[2].op = "save"
             /\ Len(c) = 4 => c[3].op = "select" /\ c[4].op = "save"
  <2>1. CASE \E f \in plist : todo' = <<SelectProfile(f)>>
    <3>1. PICK f \in plist : todo' = <<SelectProfile(f)>>
      BY <2>1
    <3> DEFINE c == SelectProfile(f)
    <3>2. f \in File
      BY <1>2
    <3>3. /\ c \in Seq(Write) /\ Len(c) = 4
          /\ c[1] = Do("unselect", f) /\ c[2] = Do("save", f)
          /\ c[3] = Do("select", f) /\ c[4] = Do("save", f)
      BY <3>2, TheCalls
    <3> HIDE DEF c
    <3>4. c[1].op = "unselect" /\ c[2].op = "save" /\ c[3].op = "select" /\ c[4].op = "save"
      BY <3>3 DEF Do
    <3> QED BY <3>1, <3>3, <3>4 DEF c
  <2>2. CASE todo' = << <<Do("unselect", Default), Do("save", Default)>> >>
    <3> DEFINE c == <<Do("unselect", Default), Do("save", Default)>>
    <3>1. Do("unselect", Default) \in Write /\ Do("save", Default) \in Write
      BY <1>2 DEF Do, Write
    <3>2. c \in Seq(Write) /\ Len(c) = 2 /\ c[1].op = "unselect" /\ c[2].op = "save"
      BY <3>1 DEF Do
    <3>3. todo' = <<c>>
      BY <2>2
    <3> HIDE DEF c
    <3> QED BY <3>2, <3>3
  <2> QED BY <2>1, <2>2 DEF SetSelected
<1>4. PICK c : /\ todo' = <<c>> /\ c \in Seq(Write) /\ Len(c) \in {2, 4}
               /\ c[1].op = "unselect" /\ c[2].op = "save"
               /\ Len(c) = 4 => c[3].op = "select" /\ c[4].op = "save"
  BY <1>3
<1>5. \A k \in 1..Len(c) : k = 1 \/ k = 2 \/ (Len(c) = 4 /\ (k = 3 \/ k = 4))
  <2>1. CASE Len(c) = 2
    <3>1. 1..Len(c) = 1..2
      BY <2>1
    <3> QED BY <3>1
  <2>2. CASE Len(c) = 4
    <3>1. 1..Len(c) = 1..4
      BY <2>2
    <3> QED BY <2>2, <3>1
  <2> QED BY <1>4, <2>1, <2>2
<1>6. CallOK(c)
  <2>1. 1 + 1 \in 1..Len(c) /\ (Len(c) = 4 => 3 + 1 \in 1..Len(c)) /\ c # <<>>
    BY <1>4
  <2>2. ASSUME NEW k \in 1..Len(c), c[k].op \in Paired
        PROVE  k + 1 \in 1..Len(c) /\ Follows(c[k], c[k + 1])
    <3>1. k = 1 \/ (Len(c) = 4 /\ k = 3)
      BY <1>4, <1>5, <2>2 DEF Paired, Parser
    <3>2. CASE k = 1
      BY <1>4, <2>1, <3>2 DEF Follows, Parser
    <3>3. CASE Len(c) = 4 /\ k = 3
      BY <1>4, <2>1, <3>3 DEF Follows, Parser
    <3> QED BY <3>1, <3>2, <3>3
  <2> QED BY <1>4, <2>1, <2>2 DEF CallOK
<1>7. todo' \in Seq(Seq(Write)) /\ Len(todo') = 1 /\ todo'[1] = c /\ \A i \in 1..Len(todo') : i = 1
  BY <1>4
<1>8. \A w \in WritesIn(todo') : w.op \in {"unselect", "save", "select"}
  <2>1. TAKE w \in WritesIn(todo')
  <2>2. PICK i, k : i \in 1..Len(todo') /\ k \in 1..Len(todo'[i]) /\ todo'[i][k] = w
    BY DEF WritesIn
  <2>3. k \in 1..Len(c) /\ c[k] = w
    BY <1>7, <2>2
  <2> QED BY <1>4, <1>5, <2>3
<1>9. CallsOK(todo')
  <2>1. \A k \in 1..Len(c) : c[k].op # "load"
    BY <1>4, <1>5
  <2> QED BY <1>6, <1>7, <2>1 DEF CallsOK
<1>10. ProfilesTypeOK'
  <2>1. answers' \in 0..MaxAnswers
    BY <1>1, BoundAssumption DEF ProfilesInv, ProfilesTypeOK
  <2> QED BY <1>1, <1>7, <2>1 DEF ProfilesInv, ProfilesTypeOK
<1>11. TodoInv'
  BY <1>1, <1>9 DEF TodoInv
<1>12. SyncInv' /\ LowerInv' /\ SelectedInv'
  BY <1>1 DEF ProfilesInv, SyncInv, LowerInv, SelectedInv
<1>13. DefaultInv'
  BY <1>1, <1>8 DEF ProfilesInv, DefaultInv, OnDefault
<1>14. GhostInv'
  <2>1. /\ \A f \in plist : Lower[f] \notin touched => f \in conf.listed /\ Valid(f)
        /\ conf.listed \ plist \subseteq touched
    BY <1>1, NoCalls DEF ProfilesInv, GhostInv, Writing
  <2>2. \A f \in plist : Valid(f)' <=> Valid(f)
    BY <1>1 DEF Valid, OnDisk
  <2>3. \A w \in WritesIn(todo') : Recorded(w)'
    BY <1>8 DEF Recorded
  <2> QED BY <1>1, <2>1, <2>2, <2>3 DEF GhostInv
<1> QED BY <1>10, <1>11, <1>12, <1>13, <1>14 DEF ProfilesInv

\* Nothing happens.
LEMMA ProfilesStutter ==
  ASSUME ProfilesInv, UNCHANGED profilesVars
  PROVE  ProfilesInv'
<1>1. UNCHANGED <<files, disk, conf, plist, touched, mode, todo, offers, answers, kills, cut, noDefault>>
  BY DEF profilesVars
<1>2. ProfilesTypeOK' /\ TodoInv' /\ SyncInv' /\ LowerInv' /\ SelectedInv' /\ DefaultInv'
  BY <1>1 DEF ProfilesInv, ProfilesTypeOK, TodoInv, SyncInv, LowerInv, SelectedInv, DefaultInv,
              OnDefault, Loading, Following
<1>3. GhostInv'
  BY <1>1 DEF ProfilesInv, GhostInv, Recorded, Pruning, Writing, Following, Valid, OnDisk
<1> QED BY <1>2, <1>3 DEF ProfilesInv

\* The invariant of the profiles holds in every reachable state.
THEOREM ProfilesInvariance == ProfilesSpec => []ProfilesInv
<1>1. ProfilesInv /\ [ProfilesNext]_profilesVars => ProfilesInv'
  <2>1. SUFFICES ASSUME ProfilesInv, ProfilesNext PROVE ProfilesInv'
    BY ProfilesStutter
  <2>2. CASE \E p \in Page : OfferProfiles(p) \/ Answer(p) \/ AnswerRaises(p)
    BY <2>1, <2>2, PageStepInv, AnswerInv
  <2> QED BY <2>1, <2>2, BootInv, LoadInv, FileStepInv, ConfigStepInv, SaveConfigInv, ListStepInv,
             RaiseInv, KillInv, SetSelectedInv DEF ProfilesNext
<1> QED BY InitProfilesInv, <1>1, PTL DEF ProfilesSpec

\* The files, the main config, the list, the writes to come and the offers keep their types.
THEOREM ProfilesTyped == ProfilesSpec => []ProfilesTypeOK
<1>1. ProfilesInv => ProfilesTypeOK
  BY DEF ProfilesInv
<1> QED BY <1>1, ProfilesInvariance, PTL

\* NoGhosts: between two handlers the main config in memory and on disk agree, and
\* ProfileManager.PROFILE_LIST is what they list, each profile with its file, wherever
\* the program was killed before, for any names, pages and answers; an answer that raised
\* leaves more only of the profiles it has itself touched.
THEOREM GhostsGone == ProfilesSpec => []NoGhosts
<1>1. ProfilesInv => NoGhosts
  <2>1. SUFFICES ASSUME ProfilesInv, Quiet
                 PROVE  /\ disk = [whole |-> TRUE, config |-> conf]
                        /\ \A f \in plist \cup conf.listed :
                             Lower[f] \notin touched => f \in plist \cap conf.listed /\ Valid(f)
    BY DEF NoGhosts
  <2>2. mode = "ready" /\ todo = <<>>
    BY <2>1 DEF Quiet
  <2>3. /\ \A f \in plist : Lower[f] \notin touched => f \in conf.listed /\ Valid(f)
        /\ conf.listed \ plist \subseteq touched
    BY <2>1, <2>2, NoCalls DEF ProfilesInv, GhostInv, Writing
  <2>4. disk = [whole |-> TRUE, config |-> conf]
    BY <2>1, <2>2 DEF ProfilesInv, SyncInv
  <2>5. \A f \in conf.listed : Lower[f] = f
    BY <2>1 DEF ProfilesInv, LowerInv
  <2>6. ASSUME NEW f \in plist \cup conf.listed, Lower[f] \notin touched
        PROVE  f \in plist \cap conf.listed /\ Valid(f)
    <3>1. f \in plist
      BY <2>3, <2>5, <2>6
    <3> QED BY <2>3, <2>6, <3>1
  <2> QED BY <2>4, <2>6
<1> QED BY <1>1, ProfilesInvariance, PTL

\* Offered: all_profiles raises only when a selection was cut short, or when the default
\* profile has gone since the program started.
THEOREM ListingWorks == ProfilesSpec => []Offered
<1>1. ProfilesInv => Offered
  <2>1. SUFFICES ASSUME ProfilesInv, Quiet, AllProfilesRaises PROVE cut \/ noDefault
    BY DEF Offered
  <2>2. mode = "ready" /\ todo = <<>>
    BY <2>1 DEF Quiet
  <2>3. CASE conf.selected = {}
    BY <2>1, <2>2, <2>3 DEF ProfilesInv, SelectedInv
  <2>4. CASE Default \notin plist
    BY <2>1, <2>2, <2>4 DEF ProfilesInv, DefaultInv
  <2> QED BY <2>1, <2>3, <2>4 DEF AllProfilesRaises
<1> QED BY <1>1, ProfilesInvariance, PTL
=============================================================================
