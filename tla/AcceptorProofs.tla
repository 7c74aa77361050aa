--------------------------- MODULE AcceptorProofs ---------------------------
(***************************************************************************)
(* Proofs about module Acceptor, for any set of connections and either     *)
(* kind of event loop: the types, and that no connection handler outlives  *)
(* the dispatcher that owns it.                                            *)
(***************************************************************************)
EXTENDS Acceptor, SequenceTheorems, TLAPS

\* Before the accept loop runs there is no connection, and nothing to cancel.
QuietInv ==
  comms \in {None, "created", "resolving"} =>
    ~listening /\ cancelled = {} /\ \A c \in Conns : conn[c].task = None

OnStack(x) == \E i \in 1..Len(stack) : stack[i] = x

\* The comms task exists from the state that creates it, and while main has not
\* begun to unwind, what that task entered is on the exit stack.
StackInv ==
  /\ main \in {"boot", "wait"} => comms = None
  /\ main \in {"boot", "wait", "serving"} => popped = None
  /\ main = "serving" /\ comms \notin {None, "created"} => OnStack("connections")

IInv == TypeOK /\ QuietInv /\ StackInv /\ HandlersOutlived

-----------------------------------------------------------------------------
(* The types, one group of variables at a time *)

StartTypes ==
  /\ main \in {"boot", "wait", "serving", "unwinding", "ended"}
  /\ page \in {None, "created", "serve", "up", "failed"}
  /\ reqs \in {None, "created", "binding", "done"}
  /\ finalizing \in BOOLEAN
ExitTypes == stack \in Seq(Contexts) /\ popped \in Contexts \cup {None} /\ exc \in BOOLEAN
SocketTypes ==
  /\ bound \in BOOLEAN /\ listening \in BOOLEAN
  /\ comms \in {None, "created", "resolving", "accepting", "yielding", "draining", "done"}
Connection == [task : {None, "backlog", "shake", "created", "handling", "over"},
               kind : Kinds \cup {None}, open : BOOLEAN]
ConnTypes == conn \in [Conns -> Connection] /\ held \subseteq Conns
GroupTypes ==
  /\ cancelled \subseteq Conns /\ commsCancel \in BOOLEAN
  /\ errors \subseteq {"accept", "handshakes", "connections", "data"}
  /\ aborting \subseteq {"handshakes", "connections", "data"}

\* TypeOK is the conjunction of its groups.
LEMMA TypeParts ==
  /\ TypeOK <=> StartTypes /\ ExitTypes /\ SocketTypes /\ ConnTypes /\ GroupTypes
  /\ TypeOK' <=> StartTypes' /\ ExitTypes' /\ SocketTypes' /\ ConnTypes' /\ GroupTypes'
<1>1. TypeOK <=> StartTypes /\ ExitTypes /\ SocketTypes /\ ConnTypes /\ GroupTypes
  BY DEF TypeOK, StartTypes, ExitTypes, SocketTypes, ConnTypes, GroupTypes, Connection
<1>2. TypeOK' <=> StartTypes' /\ ExitTypes' /\ SocketTypes' /\ ConnTypes' /\ GroupTypes'
  BY DEF TypeOK, StartTypes, ExitTypes, SocketTypes, ConnTypes, GroupTypes, Connection
<1> QED  BY <1>1, <1>2

\* A group of variables that a step leaves alone keeps its types.
LEMMA TypesKept ==
  ASSUME TypeOK
  PROVE  /\ UNCHANGED startVars => StartTypes'
         /\ UNCHANGED exitVars => ExitTypes'
         /\ UNCHANGED <<bound, listening, comms>> => SocketTypes'
         /\ UNCHANGED <<conn, held>> => ConnTypes'
         /\ UNCHANGED groupVars => GroupTypes'
<1>1. StartTypes /\ ExitTypes /\ SocketTypes /\ ConnTypes /\ GroupTypes
  BY TypeParts
<1>2. (UNCHANGED startVars => StartTypes') /\ (UNCHANGED exitVars => ExitTypes')
  BY <1>1 DEF startVars, StartTypes, exitVars, ExitTypes
<1>3. (UNCHANGED <<bound, listening, comms>> => SocketTypes') /\ (UNCHANGED <<conn, held>> => ConnTypes')
  BY <1>1 DEF SocketTypes, ConnTypes
<1>4. UNCHANGED groupVars => GroupTypes'
  BY <1>1 DEF groupVars, GroupTypes
<1> QED  BY <1>2, <1>3, <1>4

\* Contexts put on the exit stack.
LEMMA Pushed ==
  ASSUME NEW s \in Seq(Contexts), NEW t \in Seq(Contexts)
  PROVE  /\ s \o t \in Seq(Contexts)
         /\ \A x : (\E i \in 1..Len(s) : s[i] = x) => \E i \in 1..Len(s \o t) : (s \o t)[i] = x
         /\ \A i \in 1..Len(t) : \E j \in 1..Len(s \o t) : (s \o t)[j] = t[i]
<1>1. /\ s \o t \in Seq(Contexts) /\ Len(s \o t) = Len(s) + Len(t)
      /\ Len(s) \in Nat /\ Len(t) \in Nat
      /\ \A i \in 1..Len(s) : (s \o t)[i] = s[i]
      /\ \A i \in 1..Len(t) : (s \o t)[Len(s) + i] = t[i]
  OBVIOUS
<1>2. \A x : (\E i \in 1..Len(s) : s[i] = x) => \E i \in 1..Len(s \o t) : (s \o t)[i] = x
  <2>1. \A i \in 1..Len(s) : i \in 1..Len(s \o t)
    BY <1>1
  <2> QED  BY <1>1, <2>1
<1>3. \A i \in 1..Len(t) : \E j \in 1..Len(s \o t) : (s \o t)[j] = t[i]
  <2>1. \A i \in 1..Len(t) : Len(s) + i \in 1..Len(s \o t)
    BY <1>1
  <2> QED  BY <1>1, <2>1
<1> QED  BY <1>1, <1>2, <1>3

\* A context that is entered is on the stack, and those that were still are.
LEMMA PushedOne ==
  ASSUME NEW s \in Seq(Contexts), NEW x \in Contexts
  PROVE  /\ Append(s, x) \in Seq(Contexts)
         /\ \A y : (\E i \in 1..Len(s) : s[i] = y) => \E i \in 1..Len(Append(s, x)) : Append(s, x)[i] = y
<1>1. PICK t : t = <<x>>
  OBVIOUS
<1>2. t \in Seq(Contexts) /\ Append(s, x) = s \o t
  BY <1>1
<1> QED  BY <1>2, Pushed

-----------------------------------------------------------------------------
(* The initial state *)

\* The invariant holds when the program starts.
LEMMA InitIInv == Init => IInv
<1> SUFFICES ASSUME Init PROVE IInv
  OBVIOUS
<1>1. TypeOK
  <2>1. ConnTypes
    BY DEF Init, ConnTypes, Connection
  <2>2. StartTypes /\ SocketTypes
    BY DEF Init, StartTypes, SocketTypes
  <2>3. ExitTypes
    <3>1. stack = <<>> /\ popped = None /\ exc = FALSE
      BY DEF Init
    <3>2. stack \in Seq(Contexts)
      BY <3>1
    <3> QED  BY <3>1, <3>2 DEF ExitTypes
  <2>4. GroupTypes
    BY DEF Init, GroupTypes
  <2> QED  BY <2>1, <2>2, <2>3, <2>4, TypeParts
<1>2. QuietInv /\ StackInv
  BY DEF Init, QuietInv, StackInv
<1>3. HandlersOutlived
  BY DEF Init, HandlersOutlived, Exited
<1> QED  BY <1>1, <1>2, <1>3 DEF IInv

-----------------------------------------------------------------------------
(* When handlers stay within their dispatcher's life *)

\* No handler is created and the dispatcher is not left.
LEMMA OutlivedKept ==
  ASSUME HandlersOutlived, Exited("connections")' => Exited("connections"),
         Handlers' \subseteq Handlers
  PROVE  HandlersOutlived'
BY DEF HandlersOutlived

\* Without connections there is no handler.
LEMMA QuietHandlers ==
  ASSUME QuietInv, comms \in {None, "created", "resolving"}
  PROVE  Handlers = {} /\ Handshakes = {}
BY DEF QuietInv, Handlers, Handshakes, Tasks, None

-----------------------------------------------------------------------------
(* Start-up *)

\* The first start-up states.
LEMMA BootStep ==
  ASSUME IInv, Boot
  PROVE  IInv'
<1>1. /\ main = "boot" /\ main' \in {"wait", "unwinding"}
      /\ UNCHANGED <<reqs, finalizing, popped, comms, bound, listening, conn, held, groupVars>>
      /\ page' \in {page, "created"} /\ stack' \in {<<>>, <<"log">>} /\ exc' \in {exc, TRUE}
  BY DEF Boot
<1>2. comms = None /\ popped = None
  BY <1>1 DEF IInv, StackInv
<1>3. TypeOK'
  <2>1. StartTypes /\ ExitTypes
    BY TypeParts DEF IInv
  <2>2. StartTypes'
    BY <1>1, <2>1 DEF StartTypes
  <2>3. ExitTypes'
    <3>1. <<>> \in Seq(Contexts) /\ <<"log">> \in Seq(Contexts)
      BY DEF Contexts
    <3> QED  BY <1>1, <2>1, <3>1 DEF ExitTypes
  <2> QED  BY <1>1, <2>2, <2>3, TypesKept, TypeParts DEF IInv
<1>4. QuietInv'
  BY <1>1 DEF IInv, QuietInv, groupVars
<1>5. StackInv'
  BY <1>1, <1>2 DEF StackInv
<1>6. HandlersOutlived'
  <2>1. Handlers' = {}
    BY <1>1, <1>2, QuietHandlers DEF IInv, Handlers, Tasks
  <2> QED  BY <2>1 DEF HandlersOutlived
<1> QED  BY <1>3, <1>4, <1>5, <1>6 DEF IInv

\* Tasks that enter contexts: the page's, the requests' and the comms task.
LEMMA PushStep ==
  ASSUME IInv, PageHandle \/ Requests \/ CommsEnter
  PROVE  IInv'
<1>1. /\ UNCHANGED <<main, finalizing, popped, exc, bound, listening, conn, held, groupVars>>
      /\ page' \in {page, "serve", "up", "failed"} /\ reqs' \in {reqs, "binding", "done"}
      /\ \/ comms' = comms
         \/ comms = "created" /\ comms' = "resolving"
            /\ stack' = stack \o <<"data", "connections", "acceptor">>
  BY DEF PageHandle, Requests, CommsEnter, startVars
<1>2. stack \in Seq(Contexts) /\ StartTypes /\ ExitTypes /\ SocketTypes
  BY TypeParts DEF IInv, ExitTypes
<1>3. PICK t : /\ t \in Seq(Contexts) /\ stack' = stack \o t
               /\ comms' # comms => t = <<"data", "connections", "acceptor">>
  <2>1. CASE stack' = stack /\ comms' = comms
    <3>1. <<>> \in Seq(Contexts) /\ stack = stack \o <<>>
      BY <1>2
    <3> QED  BY <2>1, <3>1
  <2>2. ASSUME NEW x \in Contexts, stack' = Append(stack, x), comms' = comms
        PROVE  \E t \in Seq(Contexts) : stack' = stack \o t
    <3>1. <<x>> \in Seq(Contexts) /\ Append(stack, x) = stack \o <<x>>
      BY <1>2
    <3> QED  BY <2>2, <3>1
  <2>3. /\ <<"data", "connections", "acceptor">> \in Seq(Contexts)
        /\ <<"gossip", "kademlia">> \in Seq(Contexts)
    BY DEF Contexts
  <2>4. {"page", "server", "requests"} \subseteq Contexts
    BY DEF Contexts
  <2>5. \/ stack' = stack /\ comms' = comms
        \/ \E x \in {"page", "server", "requests"} : stack' = Append(stack, x) /\ comms' = comms
        \/ stack' = stack \o <<"gossip", "kademlia">> /\ comms' = comms
        \/ stack' = stack \o <<"data", "connections", "acceptor">>
    BY DEF PageHandle, Requests, CommsEnter
  <2> QED  BY <2>1, <2>2, <2>3, <2>4, <2>5
<1>4. TypeOK'
  <2>1. StartTypes'
    BY <1>1, <1>2 DEF StartTypes
  <2>2. ExitTypes'
    BY <1>1, <1>2, <1>3, Pushed DEF ExitTypes
  <2>3. SocketTypes'
    BY <1>1, <1>2 DEF SocketTypes
  <2> QED  BY <1>1, <2>1, <2>2, <2>3, TypesKept, TypeParts DEF IInv
<1>5. QuietInv'
  BY <1>1 DEF IInv, QuietInv, groupVars
<1>6. StackInv'
  <2>1. OnStack("connections") => OnStack("connections")'
    BY <1>2, <1>3, Pushed DEF OnStack
  <2>2. comms' # comms => comms = "created" /\ OnStack("connections")'
    <3>1. ASSUME t = <<"data", "connections", "acceptor">>
          PROVE  2 \in 1..Len(t) /\ t[2] = "connections"
      BY <3>1
    <3>2. \A i \in 1..Len(t) : \E j \in 1..Len(stack') : stack'[j] = t[i]
      BY <1>2, <1>3, Pushed
    <3>3. comms' # comms => \E j \in 1..Len(stack') : stack'[j] = "connections"
      BY <1>3, <3>1, <3>2
    <3> QED  BY <1>1, <3>3 DEF OnStack
  <2> QED  BY <1>1, <2>1, <2>2 DEF IInv, StackInv, None
<1>7. HandlersOutlived'
  <2>1. Exited("connections")' => Exited("connections")
    <3>1. OnStack("connections") => OnStack("connections")'
      BY <1>2, <1>3, Pushed DEF OnStack
    <3> QED  BY <1>1, <3>1 DEF Exited, OnStack
  <2>2. Handlers' \subseteq Handlers
    BY <1>1 DEF Handlers, Tasks
  <2> QED  BY <2>1, <2>2, OutlivedKept DEF IInv
<1> QED  BY <1>4, <1>5, <1>6, <1>7 DEF IInv

\* The states after the page is up: the comms task is created.
LEMMA ConfigureStep ==
  ASSUME IInv, Configure
  PROVE  IInv'
<1>1. /\ main = "wait" /\ main' \in {"serving", "unwinding"}
      /\ UNCHANGED <<page, finalizing, popped, bound, listening, conn, held, groupVars>>
      /\ comms' \in {comms, "created"} /\ reqs' \in {reqs, "created"} /\ exc' \in {exc, TRUE}
      /\ stack' = stack \/ stack' = Append(stack, "connectivity")
  BY DEF Configure
<1>2. comms = None /\ popped = None
  BY <1>1 DEF IInv, StackInv
<1>3. TypeOK'
  <2>1. StartTypes /\ ExitTypes /\ SocketTypes
    BY TypeParts DEF IInv
  <2>2. StartTypes'
    BY <1>1, <2>1 DEF StartTypes
  <2>3. ExitTypes'
    <3>1. "connectivity" \in Contexts /\ stack \in Seq(Contexts)
      BY <2>1 DEF Contexts, ExitTypes
    <3>2. stack' \in Seq(Contexts)
      BY <1>1, <3>1, PushedOne
    <3> QED  BY <1>1, <2>1, <3>2 DEF ExitTypes
  <2>4. SocketTypes'
    BY <1>1, <2>1 DEF SocketTypes
  <2> QED  BY <1>1, <2>2, <2>3, <2>4, TypesKept, TypeParts DEF IInv
<1>4. QuietInv'
  BY <1>1, <1>2 DEF IInv, QuietInv, groupVars, None
<1>5. StackInv'
  BY <1>1, <1>2 DEF StackInv
<1>6. HandlersOutlived'
  <2>1. Handlers' = {}
    BY <1>1, <1>2, QuietHandlers DEF IInv, Handlers, Tasks
  <2> QED  BY <2>1 DEF HandlersOutlived
<1> QED  BY <1>3, <1>4, <1>5, <1>6 DEF IInv

\* A SIGINT before the comms task has entered the dispatcher finds no handler, and
\* one after it finds the dispatcher on the exit stack.
LEMMA InterruptStep ==
  ASSUME IInv, Interrupt
  PROVE  IInv'
<1>1. /\ main \in {"wait", "serving"} /\ main' = "unwinding" /\ finalizing' = TRUE
      /\ UNCHANGED <<page, reqs, exitVars, comms, bound, listening, conn, held, groupVars>>
  BY DEF Interrupt
<1>2. TypeOK'
  <2>1. StartTypes
    BY TypeParts DEF IInv
  <2>2. StartTypes'
    BY <1>1, <2>1 DEF StartTypes
  <2> QED  BY <1>1, <2>2, TypesKept, TypeParts DEF IInv
<1>3. QuietInv'
  BY <1>1 DEF IInv, QuietInv, groupVars
<1>4. StackInv'
  BY <1>1 DEF StackInv
<1>5. HandlersOutlived'
  <2>1. CASE comms \in {None, "created"}
    <3>1. Handlers' = {}
      BY <1>1, <2>1, QuietHandlers DEF IInv, Handlers, Tasks
    <3> QED  BY <3>1 DEF HandlersOutlived
  <2>2. CASE comms \notin {None, "created"}
    <3>1. OnStack("connections")
      BY <1>1, <2>2 DEF IInv, StackInv
    <3>2. UNCHANGED stack
      BY <1>1 DEF exitVars
    <3> QED  BY <3>1, <3>2 DEF HandlersOutlived, Exited, OnStack
  <2> QED  BY <2>1, <2>2
<1> QED  BY <1>2, <1>3, <1>4, <1>5 DEF IInv

-----------------------------------------------------------------------------
(* The accept loop, the handshakes and the handlers *)

\* A step that enters and leaves no context.
LEMMA SameStack ==
  ASSUME IInv, TypeOK', UNCHANGED <<startVars, exitVars>>, QuietInv',
         comms' \in {None, "created"} <=> comms \in {None, "created"},
         main \in {"boot", "wait"} => comms' = comms,
         Exited("connections") => Handlers' = {}
  PROVE  IInv'
<1>1. UNCHANGED <<main, popped, stack>>
  BY DEF startVars, exitVars
<1>2. StackInv'
  BY <1>1 DEF IInv, StackInv, OnStack
<1>3. HandlersOutlived'
  BY <1>1 DEF HandlersOutlived, Exited
<1> QED  BY <1>2, <1>3 DEF IInv

\* Main has not begun to wait for the comms task's state when that task runs.
LEMMA CommsRuns ==
  ASSUME IInv, comms # None
  PROVE  main \notin {"boot", "wait"}
BY DEF IInv, StackInv

\* Closing sockets ends what the kernel had queued and creates no task.
LEMMA CloseAllTypes ==
  ASSUME TypeOK, NEW S, CloseAll(S)
  PROVE  /\ conn' \in [Conns -> Connection] /\ Handlers' = Handlers
         /\ \A c \in Conns : conn[c].task = None => conn'[c].task = None
<1>0. conn \in [Conns -> Connection]
  BY TypeParts DEF ConnTypes
<1>1. ASSUME NEW c \in Conns
      PROVE  /\ conn'[c] \in Connection
             /\ conn'[c].task = IF conn[c].task = "backlog" THEN "over" ELSE conn[c].task
  <2>1. conn[c] \in Connection
    BY <1>0
  <2>2. CASE conn[c].task = "backlog"
    <3>1. conn'[c] = [conn[c] EXCEPT !.task = "over", !.open = FALSE]
      BY <2>2 DEF CloseAll
    <3> QED  BY <2>1, <2>2, <3>1 DEF Connection
  <2>3. CASE conn[c].task # "backlog"
    <3>1. conn'[c] = [conn[c] EXCEPT !.open = @ /\ c \notin S]
      BY <2>3 DEF CloseAll
    <3> QED  BY <2>1, <2>3, <3>1 DEF Connection
  <2> QED  BY <2>2, <2>3
<1>2. conn' \in [Conns -> Connection]
  BY <1>1 DEF CloseAll
<1>3. Handlers' = Handlers
  BY <1>1 DEF Handlers, Tasks
<1> QED  BY <1>1, <1>2, <1>3 DEF None

\* The socket begins to listen, the loop goes on, fails, is cancelled, or ends.
LEMMA CommsStep ==
  ASSUME IInv, StartSocket \/ Yielded \/ AcceptFails \/ CommsCancelled \/ Drained
  PROVE  IInv'
<1>1. StartTypes /\ SocketTypes /\ ConnTypes /\ GroupTypes /\ TypeOK
  BY TypeParts DEF IInv
<1>2. /\ UNCHANGED <<startVars, exitVars, held>>
      /\ comms \in {"resolving", "accepting", "yielding", "draining"}
      /\ comms' \in {"accepting", "draining", "done"}
  BY DEF StartSocket, Yielded, AcceptFails, CommsCancelled, Drained, LoopHead
<1>3. conn' \in [Conns -> Connection] /\ Handlers' = Handlers
  <2>1. UNCHANGED conn \/ CloseAll({})
    BY DEF StartSocket, Yielded, AcceptFails, CommsCancelled, Drained
  <2>2. ASSUME UNCHANGED conn PROVE conn' \in [Conns -> Connection] /\ Handlers' = Handlers
    BY <1>1, <2>2 DEF ConnTypes, Handlers, Tasks
  <2> QED  BY <1>1, <2>1, <2>2, CloseAllTypes
<1>4. GroupTypes'
  <2>1. Handshakes \subseteq Conns
    BY DEF Handshakes, Tasks
  <2>2. CASE UNCHANGED groupVars
    BY <1>1, <2>2 DEF GroupTypes, groupVars
  <2>3. CASE StartSocket
    BY <1>1, <2>3 DEF GroupTypes, StartSocket, groupVars
  <2>4. CASE AcceptFails
    BY <1>1, <2>1, <2>4 DEF GroupTypes, AcceptFails, groupVars
  <2>5. CASE CommsCancelled
    BY <1>1, <2>1, <2>5 DEF GroupTypes, CommsCancelled
  <2> QED  BY <2>2, <2>3, <2>4, <2>5 DEF Yielded, Drained
<1>5. SocketTypes'
  <2>1. bound' \in BOOLEAN /\ listening' \in BOOLEAN
    BY <1>1 DEF SocketTypes, StartSocket, Yielded, AcceptFails, CommsCancelled, Drained
  <2> QED  BY <1>2, <2>1 DEF SocketTypes
<1>6. TypeOK'
  BY <1>1, <1>2, <1>3, <1>4, <1>5, TypesKept, TypeParts DEF ConnTypes
<1>7. QuietInv'
  BY <1>2 DEF QuietInv, None
<1>8. main \notin {"boot", "wait"}
  BY <1>2, CommsRuns DEF None
<1>9. Exited("connections") => Handlers' = {}
  BY <1>3 DEF IInv, HandlersOutlived
<1> QED  BY <1>2, <1>6, <1>7, <1>8, <1>9, SameStack DEF None

\* What one connection becomes: no task, of a kind, open or closed.
LEMMA OneConnection ==
  ASSUME TypeOK, NEW c \in Conns, NEW b \in Connection, conn' = [conn EXCEPT ![c] = b]
  PROVE  /\ conn' \in [Conns -> Connection] /\ conn'[c] = b
         /\ \A d \in Conns : d # c => conn'[d] = conn[d]
BY TypeParts DEF ConnTypes

\* A connection is queued, or accepted.
LEMMA ArrivalStep ==
  ASSUME IInv, NEW c \in Conns, Dial(c) \/ Accept(c)
  PROVE  IInv'
<1>1. SocketTypes /\ ConnTypes /\ TypeOK /\ conn[c] \in Connection
  BY TypeParts DEF IInv, ConnTypes
<1>2. /\ UNCHANGED <<startVars, exitVars, bound, listening, held, groupVars>>
      /\ listening /\ comms' \in {comms, "yielding"}
      /\ comms' = comms \/ comms = "accepting"
  BY DEF Dial, Accept
<1>3. PICK b \in Connection : b.task \in {"backlog", "shake"} /\ conn' = [conn EXCEPT ![c] = b]
  <2>1. CASE Dial(c)
    <3>1. [task |-> "backlog", kind |-> None, open |-> TRUE] \in Connection
      BY DEF Connection
    <3> QED  BY <2>1, <3>1 DEF Dial
  <2>2. CASE Accept(c)
    <3>1. PICK b : b = [conn[c] EXCEPT !.task = "shake"]
      OBVIOUS
    <3>2. b \in Connection /\ b.task = "shake"
      BY <1>1, <3>1 DEF Connection
    <3>3. conn' = [conn EXCEPT ![c] = b]
      BY <1>1, <2>2, <3>1 DEF Accept
    <3> QED  BY <3>2, <3>3
  <2> QED  BY <2>1, <2>2
<1>4. /\ conn' \in [Conns -> Connection] /\ conn'[c] = b
      /\ \A d \in Conns : d # c => conn'[d] = conn[d]
  BY <1>1, <1>3, OneConnection
<1>5. TypeOK'
  <2>1. SocketTypes'
    BY <1>1, <1>2 DEF SocketTypes
  <2> QED  BY <1>1, <1>2, <1>4, <2>1, TypesKept, TypeParts DEF ConnTypes
<1>6. comms' \notin {None, "created", "resolving"} /\ comms \notin {None, "created", "resolving"}
  BY <1>2 DEF IInv, QuietInv, None
<1>7. QuietInv'
  BY <1>6 DEF QuietInv
<1>8. Handlers' \subseteq Handlers
  BY <1>3, <1>4 DEF Handlers, Tasks
<1>9. main \notin {"boot", "wait"}
  BY <1>6, CommsRuns
<1> QED  BY <1>2, <1>5, <1>6, <1>7, <1>8, <1>9, SameStack DEF IInv, HandlersOutlived

\* A child of a task group failed.
LEMMA ChildFailsTypes ==
  ASSUME TypeOK, NEW g \in {"handshakes", "connections"}, NEW c, NEW S \in SUBSET Conns,
         ChildFails(g, c, S)
  PROVE  GroupTypes'
BY TypeParts DEF ChildFails, GroupTypes

\* A task of a connection moves on or ends; one that is dispatched becomes a handler
\* only while the dispatcher takes it.
LEMMA TaskStep ==
  ASSUME IInv, NEW c \in Conns, NEW b \in Connection, conn' = [conn EXCEPT ![c] = b],
         conn[c].task \in {"shake", "created", "handling"} \/ c \in cancelled,
         UNCHANGED <<startVars, exitVars, comms, bound, listening>>,
         held' \subseteq Conns, GroupTypes',
         \/ b.task = "over"
         \/ b.task \in {"created", "handling"} /\ c \in Handlers
         \/ b.task \in {"created", "handling"} /\ ~Exited("connections")
  PROVE  IInv'
<1>1. /\ conn' \in [Conns -> Connection] /\ conn'[c] = b
      /\ \A d \in Conns : d # c => conn'[d] = conn[d]
  BY OneConnection DEF IInv
<1>2. TypeOK'
  BY <1>1, TypesKept, TypeParts DEF ConnTypes, IInv
<1>3. comms \notin {None, "created", "resolving"}
  BY DEF IInv, QuietInv, None
<1>4. QuietInv'
  BY <1>3 DEF QuietInv
<1>5. Exited("connections") => Handlers' \subseteq Handlers
  BY <1>1 DEF Handlers, Tasks
<1>6. Exited("connections") => Handlers' = {}
  BY <1>5 DEF IInv, HandlersOutlived
<1> QED  BY <1>2, <1>4, <1>6, SameStack

\* A handshake ends in one of its three ways.
LEMMA HandshakeStep ==
  ASSUME IInv, NEW c \in Conns, Dispatch(c) \/ HandshakeFails(c) \/ HandshakeRaises(c)
  PROVE  IInv'
<1>1. TypeOK /\ ConnTypes /\ GroupTypes /\ conn[c] \in Connection /\ conn \in [Conns -> Connection]
  BY TypeParts DEF IInv, ConnTypes
<1>2. /\ conn[c].task = "shake" /\ held' \subseteq Conns
      /\ UNCHANGED <<startVars, exitVars, comms, bound, listening>>
  BY <1>1 DEF Dispatch, HandshakeFails, HandshakeRaises, ConnTypes
<1>3. GroupTypes'
  <2>1. Handshakes \in SUBSET Conns
    BY DEF Handshakes, Tasks
  <2>2. UNCHANGED groupVars \/ ChildFails("handshakes", c, Handshakes)
    BY DEF Dispatch, HandshakeFails, HandshakeRaises
  <2> QED  BY <1>1, <2>1, <2>2, ChildFailsTypes, TypesKept
<1>4. PICK b \in Connection :
        /\ conn' = [conn EXCEPT ![c] = b]
        /\ b.task = "over" \/ (b.task = "created" /\ ~Exited("connections"))
  <2>1. CASE Dispatch(c)
    <3>1. PICK k \in Kinds :
            IF Refuses THEN conn' = [conn EXCEPT ![c].task = "over"]
            ELSE conn' = [conn EXCEPT ![c].task = "created", ![c].kind = k]
      BY <2>1 DEF Dispatch
    <3>2. CASE Refuses
      <4>1. PICK b : b = [conn[c] EXCEPT !.task = "over"]
        OBVIOUS
      <4>2. b \in Connection /\ b.task = "over"
        BY <1>1, <4>1 DEF Connection
      <4>3. conn' = [conn EXCEPT ![c] = b]
        BY <1>1, <3>1, <3>2, <4>1
      <4> QED  BY <4>2, <4>3
    <3>3. CASE ~Refuses
      <4>1. PICK b : b = [conn[c] EXCEPT !.task = "created", !.kind = k]
        OBVIOUS
      <4>2. b \in Connection /\ b.task = "created"
        BY <1>1, <4>1 DEF Connection
      <4>3. conn' = [conn EXCEPT ![c] = b]
        BY <1>1, <3>1, <3>3, <4>1
      <4>4. ~Exited("connections")
        BY <3>3 DEF Refuses, IInv, HandlersOutlived
      <4> QED  BY <4>2, <4>3, <4>4
    <3> QED  BY <3>2, <3>3
  <2>2. CASE HandshakeFails(c) \/ HandshakeRaises(c)
    <3>1. PICK x \in BOOLEAN : conn' = [conn EXCEPT ![c] = [conn[c] EXCEPT !.task = "over", !.open = x]]
      <4>1. conn[c].open \in BOOLEAN
        BY <1>1 DEF Connection
      <4>2. [conn[c] EXCEPT !.task = "over"] = [conn[c] EXCEPT !.task = "over", !.open = conn[c].open]
        BY <1>1 DEF Connection
      <4>3. CASE HandshakeFails(c)
        BY <1>1, <4>3 DEF HandshakeFails
      <4>4. CASE HandshakeRaises(c)
        BY <1>1, <4>1, <4>2, <4>4 DEF HandshakeRaises
      <4> QED  BY <2>2, <4>3, <4>4
    <3>2. PICK b : b = [conn[c] EXCEPT !.task = "over", !.open = x]
      OBVIOUS
    <3>3. b \in Connection /\ b.task = "over"
      BY <1>1, <3>2 DEF Connection
    <3> QED  BY <3>1, <3>2, <3>3
  <2> QED  BY <2>1, <2>2
<1> QED  BY <1>2, <1>3, <1>4, TaskStep

\* A handler's task that is over.
LEMMA HandlerOverTypes ==
  ASSUME TypeOK, NEW c \in Conns, NEW closes \in BOOLEAN, HandlerOver(c, closes)
  PROVE  \E b \in Connection : b.task = "over" /\ conn' = [conn EXCEPT ![c] = b]
<1>1. conn \in [Conns -> Connection] /\ conn[c] \in Connection
  BY TypeParts DEF ConnTypes
<1>2. PICK b : b = [task |-> "over", kind |-> None, open |-> conn[c].open /\ ~closes]
  OBVIOUS
<1>3. b \in Connection /\ b.task = "over"
  BY <1>1, <1>2 DEF Connection
<1>4. conn' = [conn EXCEPT ![c] = b]
  BY <1>1, <1>2 DEF HandlerOver
<1> QED  BY <1>3, <1>4

\* A handler starts, ends, fails or is cancelled.
LEMMA HandlerStep ==
  ASSUME IInv, NEW c \in Conns, HandlerStarts(c) \/ HandlerEnds(c) \/ DataFails(c)
  PROVE  IInv'
<1>1. TypeOK /\ ConnTypes /\ GroupTypes /\ conn[c] \in Connection /\ conn \in [Conns -> Connection]
  BY TypeParts DEF IInv, ConnTypes
<1>2. /\ conn[c].task \in {"created", "handling"} /\ held' \subseteq Conns
      /\ UNCHANGED <<startVars, exitVars, comms, bound, listening>>
  BY <1>1 DEF HandlerStarts, HandlerEnds, DataFails, ConnTypes
<1>3. c \in Handlers /\ Handlers \in SUBSET Conns
  BY <1>2 DEF Handlers, Tasks
<1>4. GroupTypes'
  <2>1. CASE UNCHANGED groupVars \/ ChildFails("connections", c, Handlers)
    BY <1>1, <1>3, <2>1, ChildFailsTypes, TypesKept
  <2>2. CASE DataFails(c)
    <3>1. errors' = errors \cup {"data", "connections"}
          /\ aborting' \subseteq aborting \cup {"data", "connections"}
          /\ cancelled' \subseteq cancelled \cup Handlers
      BY <2>2 DEF DataFails
    <3>2. commsCancel' \in BOOLEAN
      BY <2>2 DEF DataFails
    <3> QED  BY <1>1, <1>3, <3>1, <3>2 DEF GroupTypes
  <2> QED  BY <2>1, <2>2 DEF HandlerStarts, HandlerEnds
<1>5. \E b \in Connection : /\ b.task \in {"over", "handling"}
                            /\ conn' = [conn EXCEPT ![c] = b]
  <2>1. CASE \E closes \in BOOLEAN : HandlerOver(c, closes)
    BY <1>1, <2>1, HandlerOverTypes
  <2>2. CASE conn' = [conn EXCEPT ![c].task = "handling"]
    <3>1. PICK b : b = [conn[c] EXCEPT !.task = "handling"]
      OBVIOUS
    <3>2. b \in Connection /\ b.task = "handling"
      BY <1>1, <3>1 DEF Connection
    <3>3. conn' = [conn EXCEPT ![c] = b]
      BY <1>1, <2>2, <3>1
    <3> QED  BY <3>2, <3>3
  <2>3. Closes(c) \in BOOLEAN
    BY DEF Closes
  <2> QED  BY <2>1, <2>2, <2>3 DEF HandlerStarts, HandlerEnds, DataFails
<1> QED  BY <1>2, <1>3, <1>4, <1>5, TaskStep

\* A task of a connection is cancelled by its group.
LEMMA TaskCancelledStep ==
  ASSUME IInv, NEW c \in Conns, TaskCancelled(c)
  PROVE  IInv'
<1>1. TypeOK /\ ConnTypes /\ GroupTypes
  BY TypeParts DEF IInv
<1>2. /\ c \in cancelled /\ cancelled' \subseteq cancelled
      /\ UNCHANGED <<startVars, exitVars, comms, bound, listening, held, errors, aborting, commsCancel>>
  BY DEF TaskCancelled
<1>3. GroupTypes' /\ held' \subseteq Conns
  BY <1>1, <1>2 DEF GroupTypes, ConnTypes
<1>4. \E b \in Connection : b.task = "over" /\ conn' = [conn EXCEPT ![c] = b]
  <2>1. (conn[c].task = "handling" /\ Closes(c)) \in BOOLEAN
    BY DEF Closes
  <2> QED  BY <1>1, <2>1, HandlerOverTypes DEF TaskCancelled
<1> QED  BY <1>2, <1>3, <1>4, TaskStep

-----------------------------------------------------------------------------
(* Leaving the exit stack *)

\* A sequence without its last element is a sequence of the same elements.
LEMMA FrontOfSeq ==
  ASSUME NEW S, NEW s \in Seq(S), s # <<>>
  PROVE  /\ SubSeq(s, 1, Len(s) - 1) \in Seq(S)
         /\ Len(SubSeq(s, 1, Len(s) - 1)) = Len(s) - 1
         /\ \A i \in 1..(Len(s) - 1) : SubSeq(s, 1, Len(s) - 1)[i] = s[i]
<1>1. PICK n \in Nat : Len(s) = n + 1
  <2>1. Len(s) \in Nat /\ Len(s) > 0
    OBVIOUS
  <2> QED  BY <2>1
<1>2. Len(s) - 1 = n
  BY <1>1
<1>3. \A i \in 1..n : s[i] \in S
  BY <1>1
<1>4. /\ SubSeq(s, 1, n) \in Seq(S)
      /\ Len(SubSeq(s, 1, n)) = IF 1 <= n THEN n - 1 + 1 ELSE 0
      /\ \A i \in 1..(n - 1 + 1) : SubSeq(s, 1, n)[i] = s[1 + i - 1]
  <2>1. n \in Int /\ 1 \in Int
    OBVIOUS
  <2> QED  BY <1>3, <2>1, SubSeqProperties
<1>5. Len(SubSeq(s, 1, n)) = n
  BY <1>4
<1>6. ASSUME NEW i \in 1..n  PROVE  SubSeq(s, 1, n)[i] = s[i]
  <2>1. i \in 1..(n - 1 + 1) /\ 1 + i - 1 = i
    OBVIOUS
  <2> QED  BY <1>4, <2>1
<1> QED  BY <1>2, <1>4, <1>5, <1>6

\* The context that is popped is the one being exited: what was on the stack is on
\* it still, or is that one.
LEMMA PopStep ==
  ASSUME IInv, Pop
  PROVE  IInv'
<1>1. TypeOK /\ ExitTypes /\ GroupTypes
  BY TypeParts DEF IInv
<1>2. /\ main = "unwinding" /\ popped = None /\ stack # <<>> /\ stack \in Seq(Contexts)
      /\ popped' = stack[Len(stack)] /\ stack' = SubSeq(stack, 1, Len(stack) - 1)
      /\ UNCHANGED <<startVars, exc, comms, bound, listening, conn, held, errors, commsCancel>>
  BY <1>1 DEF Pop, ExitTypes
<1>3. /\ Len(stack) \in Nat /\ Len(stack) > 0 /\ stack[Len(stack)] \in Contexts
      /\ stack' \in Seq(Contexts) /\ Len(stack') = Len(stack) - 1
      /\ \A i \in 1..(Len(stack) - 1) : stack'[i] = stack[i]
  <2>1. Len(stack) \in Nat /\ Len(stack) > 0
    BY <1>2
  <2>2. stack[Len(stack)] \in Contexts
    BY <1>2, <2>1
  <2>3. Len(stack) - 1 \in 0..Len(stack)
    BY <2>1
  <2>4. /\ stack' \in Seq(Contexts) /\ Len(stack') = Len(stack) - 1
        /\ \A i \in 1..(Len(stack) - 1) : stack'[i] = stack[i]
    BY <1>2, FrontOfSeq
  <2> QED  BY <2>1, <2>2, <2>4
<1>4. Handlers \subseteq Conns /\ Handlers' = Handlers
  BY <1>2 DEF Handlers, Tasks
<1>5. /\ aborting' \subseteq aborting \cup {"connections"}
      /\ cancelled' \subseteq cancelled \cup Handlers
  BY DEF Pop
<1>6. TypeOK'
  <2>1. ExitTypes'
    BY <1>1, <1>2, <1>3 DEF ExitTypes
  <2>2. GroupTypes'
    BY <1>1, <1>2, <1>4, <1>5 DEF GroupTypes
  <2> QED  BY <1>1, <1>2, <2>1, <2>2, TypesKept, TypeParts
<1>7. QuietInv'
  <2> SUFFICES ASSUME comms \in {None, "created", "resolving"}
               PROVE  ~listening /\ cancelled' = {} /\ \A c \in Conns : conn[c].task = None
    BY <1>2 DEF QuietInv
  <2>1. Handlers = {}
    BY QuietHandlers DEF IInv
  <2> QED  BY <1>5, <2>1 DEF IInv, QuietInv
<1>8. StackInv'
  BY <1>2 DEF StackInv, startVars
<1>9. HandlersOutlived'
  <2>1. Exited("connections")' => Exited("connections")
    <3> SUFFICES ASSUME Exited("connections")', NEW i \in 1..Len(stack), stack[i] = "connections"
                 PROVE  FALSE
      BY <1>2 DEF Exited, None
    <3>1. popped' # "connections" /\ \A j \in 1..Len(stack') : stack'[j] # "connections"
      BY DEF Exited
    <3>2. CASE i = Len(stack)
      BY <1>2, <3>1, <3>2
    <3>3. CASE i # Len(stack)
      <4>1. i \in 1..(Len(stack) - 1)
        BY <1>3, <3>3
      <4> QED  BY <1>3, <3>1, <4>1
    <3> QED  BY <3>2, <3>3
  <2> QED  BY <1>4, <2>1, OutlivedKept DEF IInv
<1> QED  BY <1>6, <1>7, <1>8, <1>9 DEF IInv

\* The exits: the dispatcher's waits until no handler is left.
LEMMA ExitStep ==
  ASSUME IInv, ExitAcceptor \/ ExitConnections \/ ExitData \/ ExitOther
  PROVE  IInv'
<1>1. TypeOK /\ ExitTypes /\ SocketTypes /\ ConnTypes
  BY TypeParts DEF IInv
<1>2. /\ popped # None /\ popped' = None
      /\ UNCHANGED <<startVars, stack, comms, bound, groupVars>>
      /\ listening' \in {listening, FALSE} /\ held' \subseteq held
      /\ UNCHANGED conn \/ CloseAll(held)
      /\ popped = "connections" => Handlers = {}
  BY DEF ExitAcceptor, ExitConnections, ExitData, ExitOther, None, Contexts
<1>3. exc' \in BOOLEAN
  <2>1. exc \in BOOLEAN /\ bound \in BOOLEAN
    BY <1>1 DEF ExitTypes, SocketTypes
  <2> QED  BY <2>1 DEF ExitAcceptor, ExitConnections, ExitData, ExitOther
<1>4. /\ conn' \in [Conns -> Connection] /\ Handlers' = Handlers
      /\ \A c \in Conns : conn[c].task = None => conn'[c].task = None
  <2>1. ASSUME UNCHANGED conn
        PROVE  /\ conn' \in [Conns -> Connection] /\ Handlers' = Handlers
               /\ \A c \in Conns : conn[c].task = None => conn'[c].task = None
    BY <1>1, <2>1 DEF ConnTypes, Handlers, Tasks
  <2> QED  BY <1>1, <1>2, <2>1, CloseAllTypes
<1>5. TypeOK'
  <2>1. ExitTypes'
    BY <1>1, <1>2, <1>3 DEF ExitTypes
  <2>2. SocketTypes'
    BY <1>1, <1>2 DEF SocketTypes
  <2>3. ConnTypes'
    BY <1>1, <1>2, <1>4 DEF ConnTypes
  <2> QED  BY <1>1, <1>2, <2>1, <2>2, <2>3, TypesKept, TypeParts
<1>6. QuietInv'
  BY <1>2, <1>4 DEF IInv, QuietInv, groupVars
<1>7. StackInv'
  BY <1>2 DEF IInv, StackInv, OnStack, startVars
<1>8. HandlersOutlived'
  <2>1. CASE popped = "connections"
    BY <1>2, <1>4, <2>1 DEF HandlersOutlived
  <2>2. CASE popped # "connections"
    <3>1. Exited("connections")' => Exited("connections")
      BY <1>2, <2>2 DEF Exited, startVars
    <3> QED  BY <1>4, <3>1, OutlivedKept DEF IInv
  <2> QED  BY <2>1, <2>2
<1> QED  BY <1>5, <1>6, <1>7, <1>8 DEF IInv

\* Runner.close cancels the handshakes that are left.
LEMMA EndStep ==
  ASSUME IInv, End
  PROVE  IInv'
<1>1. TypeOK /\ StartTypes /\ ExitTypes /\ SocketTypes /\ ConnTypes /\ GroupTypes
  BY TypeParts DEF IInv
<1>2. /\ main = "unwinding" /\ main' = "ended" /\ listening' = FALSE
      /\ cancelled' = cancelled \cup Handshakes /\ CloseAll({})
      /\ comms' = IF comms = None THEN None ELSE "done"
      /\ UNCHANGED <<page, reqs, finalizing, exitVars, bound, held, errors, aborting, commsCancel>>
  BY DEF End
<1>3. /\ conn' \in [Conns -> Connection] /\ Handlers' = Handlers
      /\ \A c \in Conns : conn[c].task = None => conn'[c].task = None
  BY <1>1, <1>2, CloseAllTypes
<1>4. TypeOK'
  <2>1. StartTypes'
    BY <1>1, <1>2 DEF StartTypes
  <2>2. SocketTypes' /\ ConnTypes'
    BY <1>1, <1>2, <1>3 DEF SocketTypes, ConnTypes
  <2>3. Handshakes \subseteq Conns
    BY DEF Handshakes, Tasks
  <2>4. GroupTypes'
    BY <1>1, <1>2, <2>3 DEF GroupTypes
  <2> QED  BY <1>1, <1>2, <2>1, <2>2, <2>4, TypesKept, TypeParts
<1>5. QuietInv'
  <2>1. ASSUME comms = None PROVE cancelled' = {} /\ \A c \in Conns : conn'[c].task = None
    BY <1>2, <1>3, <2>1, QuietHandlers DEF IInv, QuietInv
  <2> QED  BY <1>2, <2>1 DEF QuietInv, None
<1>6. StackInv'
  BY <1>2 DEF StackInv
<1>7. Exited("connections")' => Exited("connections")
  BY <1>2 DEF Exited, exitVars
<1> QED  BY <1>3, <1>4, <1>5, <1>6, <1>7, OutlivedKept DEF IInv

-----------------------------------------------------------------------------
(* The theorems *)

\* Nothing changes.
LEMMA StutterStep ==
  ASSUME IInv, UNCHANGED vars
  PROVE  IInv'
<1>1. UNCHANGED <<startVars, exitVars, comms, bound, listening, conn, held, groupVars>>
  BY DEF vars, startVars, exitVars, groupVars
<1>2. TypeOK'
  BY <1>1, TypesKept, TypeParts DEF IInv
<1>3. QuietInv'
  BY <1>1 DEF IInv, QuietInv, groupVars
<1>4. Exited("connections") => Handlers' = {}
  BY <1>1 DEF IInv, HandlersOutlived, Handlers, Tasks
<1> QED  BY <1>1, <1>2, <1>3, <1>4, SameStack

\* Every action keeps the invariant.
LEMMA NextIInv == IInv /\ [Next]_vars => IInv'
<1> SUFFICES ASSUME IInv, [Next]_vars PROVE IInv'
  OBVIOUS
<1>1. CASE Main
  BY <1>1, BootStep, ConfigureStep, PopStep, ExitStep, EndStep DEF Main
<1>2. CASE PageHandle \/ Requests \/ Interrupt \/ Comms
  BY <1>2, PushStep, InterruptStep, CommsStep DEF Comms
<1>3. ASSUME NEW c \in Conns, Accept(c) \/ Resolves(c) \/ Dial(c) \/ Dispatch(c)
             \/ HandshakeRaises(c) \/ PeerActs(c) \/ DataFails(c)
      PROVE  IInv'
  BY <1>3, ArrivalStep, HandshakeStep, HandlerStep, TaskCancelledStep DEF Resolves, PeerActs, Woken
<1>4. CASE AcceptFails
  BY <1>4, CommsStep
<1>5. CASE Ended \/ UNCHANGED vars
  BY <1>5, StutterStep DEF Ended
<1> QED  BY <1>1, <1>2, <1>3, <1>4, <1>5 DEF Next, Network

\* The inductive invariant holds in every reachable state: what acceptor.py and
\* statemanager.py have entered is on the exit stack before connections arrive.
THEOREM Invariance == Spec => []IInv
  BY InitIInv, NextIInv, PTL DEF Spec

\* The state of start-up, acceptor, dispatcher and shutdown keeps its types.
THEOREM TypesCorrect == Spec => []TypeOK
<1>1. IInv => TypeOK
  BY DEF IInv
<1> QED  BY <1>1, Invariance, PTL

\* Once main has left the ConnectionDispatcher's context no connection handler
\* runs, although handshakes go on and dispatch while it waits there: the task
\* group takes a child only while it has one or has not begun to exit
\* (mixins.py, acceptor.py).
THEOREM NoHandlerOutlives == Spec => []HandlersOutlived
<1>1. IInv => HandlersOutlived
  BY DEF IInv
<1> QED  BY <1>1, Invariance, PTL
=============================================================================
