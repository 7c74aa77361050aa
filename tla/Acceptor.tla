------------------------------ MODULE Acceptor ------------------------------
(***************************************************************************)
(* Start-up, the acceptor and shutdown: main.py, managers/statemanager.py, *)
(* core/async_runner.py, core/acceptor.py and the task groups of           *)
(* avails/mixins.py.                                                       *)
(*                                                                         *)
(* Everything runs on one event loop; a step is what a task does between   *)
(* two awaits.  The contexts entered at start-up stand on Dock.exit_stack  *)
(* and are left in reverse order at the end.  The handshakes are children  *)
(* of the accept loop's TaskGroup, the connection handlers children of the *)
(* ConnectionDispatcher's; the parent task of both is the comms task.      *)
(***************************************************************************)
EXTENDS Integers, Sequences

CONSTANTS
  Conns,        \* incoming connections
  Kinds,        \* what a good handshake asks for
  CloseWakes    \* closing a socket fails the calls that wait on it (proactor loop)

ASSUME KindsAssumption == Kinds \subseteq {"basic", "stream", "otm", "unknown"}
ASSUME LoopAssumption == CloseWakes \in BOOLEAN

Contexts == {"log", "page", "server", "connectivity", "data", "connections", "acceptor",
             "requests", "gossip", "kademlia"}
None == "none"

VARIABLES
  main,         \* the main task, in StateManager.process_states or past it
  page, reqs,   \* the tasks of the states "launching webpage", "initiating requests"
  finalizing,   \* Dock.finalizing
  stack,        \* Dock.exit_stack, last entered last
  popped,       \* the context being exited
  exc,          \* an exception travels down the exit stack
  comms,        \* the task of the state "initiating comms"
  bound,        \* Acceptor.main_socket is set
  listening,    \* and open
  conn,         \* each connection: its task, the handshake's kind, our end is open
  held,         \* sockets on Acceptor._exit_stack
  errors,       \* where an exception was recorded
  aborting,     \* task groups that are shutting down
  cancelled,    \* connections whose task has a cancellation to be delivered
  commsCancel   \* the same for the comms task

startVars == <<main, page, reqs, finalizing>>
exitVars == <<stack, popped, exc>>
groupVars == <<errors, aborting, cancelled, commsCancel>>
vars == <<main, page, reqs, finalizing, stack, popped, exc, comms, bound,
          listening, conn, held, errors, aborting, cancelled, commsCancel>>

Tasks(S) == {c \in Conns : conn[c].task \in S}
Handshakes == Tasks({"shake"})
Handlers == Tasks({"created", "handling"})

Init ==
  /\ main = "boot" /\ page = None /\ reqs = None /\ finalizing = FALSE
  /\ stack = <<>> /\ popped = None /\ exc = FALSE
  /\ comms = None /\ bound = FALSE /\ listening = FALSE
  /\ conn = [c \in Conns |-> [task |-> None, kind |-> None, open |-> FALSE]]
  /\ held = {} /\ errors = {} /\ aborting = {} /\ cancelled = {} /\ commsCancel = FALSE

-----------------------------------------------------------------------------
(* The states main works through *)

\* The first five states: all run in the main task but the page's, which becomes
\* a task.  An exception of a state goes to the exit stack.
Boot ==
  /\ main = "boot"
  /\ \/ main' = "wait" /\ page' = "created" /\ stack' = <<"log">> /\ UNCHANGED exc
     \/ main' = "unwinding" /\ exc' = TRUE /\ UNCHANGED page
        /\ \E s \in {<<>>, <<"log">>} : stack' = s
  /\ UNCHANGED <<reqs, finalizing, popped, comms, bound, listening, conn, held, groupVars>>

\* initiate_page_handle: the two dispatchers, then websockets.serve is awaited;
\* wrap_with_tryexcept swallows its failure.
PageHandle ==
  /\ main # "ended"
  /\ \/ page = "created" /\ page' = "serve" /\ stack' = Append(stack, "page")
     \/ page = "serve" /\ page' = "up" /\ stack' = Append(stack, "server")
     \/ page = "serve" /\ page' = "failed" /\ UNCHANGED stack
  /\ UNCHANGED <<main, reqs, finalizing, popped, exc, comms, bound, listening,
                 conn, held, groupVars>>

\* The page calls align_profiles, which sets PROFILE_WAIT, and main goes on:
\* configure_this_remote_peer raises when no profile was selected; then the
\* comms and requests states become tasks and the connectivity context is entered,
\* all without an await that waits.
Configure ==
  /\ main = "wait" /\ page = "up"
  /\ \/ main' = "serving" /\ comms' = "created" /\ reqs' = "created"
        /\ stack' = Append(stack, "connectivity") /\ UNCHANGED exc
     \/ main' = "unwinding" /\ exc' = TRUE /\ UNCHANGED <<comms, reqs, stack>>
  /\ UNCHANGED <<page, finalizing, popped, bound, listening, conn, held, groupVars>>

\* requests.initiate: the dispatcher, then the endpoint is awaited, then gossip and
\* kademlia.
Requests ==
  /\ main # "ended"
  /\ \/ reqs = "created" /\ reqs' = "binding" /\ stack' = Append(stack, "requests")
     \/ reqs = "binding" /\ reqs' = "done" /\ stack' = stack \o <<"gossip", "kademlia">>
     \/ reqs = "binding" /\ reqs' = "done" /\ UNCHANGED stack               \* OSError
  /\ UNCHANGED <<main, page, finalizing, popped, exc, comms, bound, listening,
                 conn, held, groupVars>>

\* The first SIGINT: finalizing is set and main cancelled; _initiate keeps the
\* CancelledError from the exit stack.
Interrupt ==
  /\ main \in {"wait", "serving"} /\ ~finalizing
  /\ finalizing' = TRUE /\ main' = "unwinding"
  /\ UNCHANGED <<page, reqs, exitVars, comms, bound, listening, conn, held, groupVars>>

-----------------------------------------------------------------------------
(* The comms task: initiate_acceptor and Acceptor.initiate *)

CommsEnter ==
  /\ comms = "created" /\ main # "ended"
  /\ comms' = "resolving" /\ stack' = stack \o <<"data", "connections", "acceptor">>
  /\ UNCHANGED <<startVars, popped, exc, bound, listening, conn, held, groupVars>>

\* What the accept loop does where it checks the finalizer.
LoopHead == comms' = IF finalizing THEN "draining" ELSE "accepting"

\* _start_socket is back: the socket listens, or the address cannot be had.
StartSocket ==
  /\ comms = "resolving" /\ main # "ended"
  /\ \/ LoopHead /\ bound' = TRUE /\ listening' = TRUE /\ UNCHANGED errors
     \/ comms' = "done" /\ errors' = errors \cup {"accept"} /\ UNCHANGED <<bound, listening>>
  /\ UNCHANGED <<startVars, exitVars, conn, held, aborting, cancelled, commsCancel>>

\* A peer dials: the kernel queues the connection.
Dial(c) ==
  /\ conn[c].task = None /\ listening
  /\ conn' = [conn EXCEPT ![c] = [task |-> "backlog", kind |-> None, open |-> TRUE]]
  /\ UNCHANGED <<startVars, exitVars, comms, bound, listening, held, groupVars>>

\* aaccept returns: a task for the handshake, then sleep(0).
Accept(c) ==
  /\ comms = "accepting" /\ ~commsCancel /\ listening /\ conn[c].task = "backlog"
  /\ conn' = [conn EXCEPT ![c].task = "shake"]
  /\ comms' = "yielding"
  /\ UNCHANGED <<startVars, exitVars, bound, listening, held, groupVars>>

Yielded ==
  /\ comms = "yielding" /\ ~commsCancel
  /\ LoopHead
  /\ UNCHANGED <<startVars, exitVars, bound, listening, conn, held, groupVars>>

\* aaccept raises OSError: the loop returns when finalizing, and otherwise raises,
\* which aborts the handshakes.
AcceptFails ==
  /\ comms = "accepting" /\ ~commsCancel
  /\ listening \/ CloseWakes
  /\ comms' = "draining"
  /\ IF finalizing THEN UNCHANGED groupVars
     ELSE /\ errors' = errors \cup {"accept"} /\ aborting' = aborting \cup {"handshakes"}
          /\ cancelled' = cancelled \cup Handshakes /\ UNCHANGED commsCancel
  /\ UNCHANGED <<startVars, exitVars, bound, listening, conn, held>>

\* CancelledError in the accept loop, or in the wait for the handshakes: they are
\* cancelled and waited for.
CommsCancelled ==
  /\ commsCancel /\ comms \in {"accepting", "yielding", "draining"}
  /\ commsCancel' = FALSE /\ comms' = "draining"
  /\ aborting' = aborting \cup {"handshakes"} /\ cancelled' = cancelled \cup Handshakes
  /\ UNCHANGED <<startVars, exitVars, bound, listening, conn, held, errors>>

\* Closing the listening socket resets what the kernel had queued; the sockets in S
\* are closed too.
CloseAll(S) ==
  conn' = [c \in Conns |->
             IF conn[c].task = "backlog" THEN [conn[c] EXCEPT !.task = "over", !.open = FALSE]
             ELSE [conn[c] EXCEPT !.open = @ /\ c \notin S]]

\* The handshakes are over: the with statement closes the socket, the task ends.
Drained ==
  /\ comms = "draining" /\ ~commsCancel /\ Handshakes = {}
  /\ comms' = "done" /\ listening' = FALSE /\ CloseAll({})
  /\ UNCHANGED <<startVars, exitVars, bound, held, groupVars>>

-----------------------------------------------------------------------------
(* A handshake: __accept_connection *)

\* Mutant: the group aborts and the parent goes on.
ChildFailsMutant(g, c, children) ==
  /\ errors' = errors \cup {g}
  /\ IF comms # "done" /\ g \notin aborting
       THEN /\ aborting' = aborting \cup {g} /\ UNCHANGED commsCancel
            /\ cancelled' = (cancelled \cup children) \ {c}
       ELSE UNCHANGED <<aborting, commsCancel, cancelled>>

\* A child of the group g failed.  While the parent task lives the other children
\* and the parent are cancelled; after that the error is only recorded.
ChildFails(g, c, children) ==
  /\ errors' = errors \cup {g}
  /\ IF comms # "done" /\ g \notin aborting
       THEN /\ aborting' = aborting \cup {g} /\ commsCancel' = TRUE
            /\ cancelled' = (cancelled \cup children) \ {c}
       ELSE UNCHANGED <<aborting, commsCancel, cancelled>>

Exited(x) ==
  /\ main \in {"unwinding", "ended"} /\ popped # x
  /\ \A i \in 1..Len(stack) : stack[i] # x

\* TaskGroup.create_task of the connection dispatcher raises RuntimeError.
Refuses ==
  \/ "connections" \in aborting
  \/ (popped = "connections" \/ Exited("connections")) /\ Handlers = {}

\* The handshake arrived: the socket is put on the acceptor's exit stack for good
\* and the handler's task is created.
Dispatch(c) ==
  /\ conn[c].task = "shake" /\ c \notin cancelled
  /\ held' = held \cup {c}
  /\ \E k \in Kinds :
       IF Refuses
         THEN /\ conn' = [conn EXCEPT ![c].task = "over"]
              /\ ChildFails("handshakes", c, Handshakes)
         ELSE /\ conn' = [conn EXCEPT ![c].task = "created", ![c].kind = k]
              /\ UNCHANGED groupVars
  /\ UNCHANGED <<startVars, exitVars, comms, bound, listening>>

\* Mutant: without the timeout only a closed socket ends the wait.
HandshakeFailsMutant(c) ==
  /\ conn[c].task = "shake" /\ c \notin cancelled /\ ~conn[c].open
  /\ conn' = [conn EXCEPT ![c].task = "over"]
  /\ UNCHANGED <<startVars, exitVars, comms, bound, listening, held, groupVars>>

\* SERVER_TIMEOUT, a socket error or an invalid packet: the socket is closed.  After
\* a handshake of no bytes (a connectivity check) it is dropped, which closes it.
HandshakeFails(c) ==
  /\ conn[c].task = "shake" /\ c \notin cancelled
  /\ conn' = [conn EXCEPT ![c].task = "over", ![c].open = FALSE]
  /\ UNCHANGED <<startVars, exitVars, comms, bound, listening, held, groupVars>>

\* A length cut short on a live connection: struct.error is raised again.
HandshakeRaises(c) ==
  /\ conn[c].task = "shake" /\ c \notin cancelled
  /\ conn' = [conn EXCEPT ![c].task = "over"]
  /\ ChildFails("handshakes", c, Handshakes)
  /\ UNCHANGED <<startVars, exitVars, comms, bound, listening, held>>

-----------------------------------------------------------------------------
(* A connection handler: ConnectionDispatcher.submit *)

\* The handlers of messages, files and directories run inside `with connection'.
Closes(c) == conn[c].kind \in {"basic", "stream"}

\* The handler's task ends, by return or because it was cancelled.
HandlerOver(c, closes) ==
  conn' = [conn EXCEPT ![c] = [task |-> "over", kind |-> None, open |-> @.open /\ ~closes]]

\* No handler for the header is a KeyError.  ProcessDataHandler loops while
\* finalizer() is true, so until the program is finalizing it closes at once.
HandlerStarts(c) ==
  /\ conn[c].task = "created" /\ c \notin cancelled
  /\ \/ conn[c].kind = "unknown" /\ HandlerOver(c, FALSE)
        /\ ChildFails("connections", c, Handlers)
     \/ conn[c].kind = "basic" /\ ~finalizing /\ HandlerOver(c, TRUE)
        /\ UNCHANGED groupVars
     \/ (conn[c].kind \in {"stream", "otm"} \/ (conn[c].kind = "basic" /\ finalizing))
        /\ conn' = [conn EXCEPT ![c].task = "handling"] /\ UNCHANGED groupVars
  /\ UNCHANGED <<startVars, exitVars, comms, bound, listening, held>>

\* The handler returns (the message loop never does), or raises.
HandlerEnds(c) ==
  /\ conn[c].task = "handling" /\ c \notin cancelled
  /\ HandlerOver(c, Closes(c))
  /\ \/ conn[c].kind # "basic" /\ UNCHANGED groupVars
     \/ ChildFails("connections", c, Handlers)
  /\ UNCHANGED <<startVars, exitVars, comms, bound, listening, held>>

\* The peer sends, closes or resets the connection.
PeerActs(c) == conn[c].open /\ HandlerEnds(c)

\* Our end was closed under the call that waits on it.
Woken(c) == ~conn[c].open /\ CloseWakes /\ HandlerEnds(c)

\* In the message loop, a message with no handler fails in the data dispatcher and
\* in the handler that waits for it.
DataFails(c) ==
  /\ conn[c].task = "handling" /\ c \notin cancelled /\ conn[c].kind = "basic" /\ conn[c].open
  /\ HandlerOver(c, TRUE)
  /\ errors' = errors \cup {"data", "connections"}
  /\ aborting' = aborting \cup (IF comms = "done" THEN {} ELSE {"data", "connections"})
  /\ commsCancel' = (commsCancel \/ comms # "done")
  /\ cancelled' = IF comms = "done" \/ "connections" \in aborting THEN cancelled
                  ELSE (cancelled \cup Handlers) \ {c}
  /\ UNCHANGED <<startVars, exitVars, comms, bound, listening, held>>

\* CancelledError is delivered to the task of a connection.
TaskCancelled(c) ==
  /\ c \in cancelled /\ cancelled' = cancelled \ {c}
  /\ HandlerOver(c, conn[c].task = "handling" /\ Closes(c))
  /\ UNCHANGED <<startVars, exitVars, comms, bound, listening, held, errors, aborting, commsCancel>>

-----------------------------------------------------------------------------
(* Leaving Dock.exit_stack *)

\* The next context is popped; an exception makes a task group abort.
Pop ==
  /\ main = "unwinding" /\ popped = None /\ stack # <<>>
  /\ popped' = stack[Len(stack)] /\ stack' = SubSeq(stack, 1, Len(stack) - 1)
  /\ IF exc /\ stack[Len(stack)] = "connections"
       THEN aborting' = aborting \cup {"connections"} /\ cancelled' = cancelled \cup Handlers
       ELSE UNCHANGED <<aborting, cancelled>>
  /\ UNCHANGED <<startVars, exc, comms, bound, listening, conn, held, errors, commsCancel>>

\* Mutant: the sockets on the acceptor's stack stay open.
ExitAcceptorMutant ==
  /\ popped = "acceptor" /\ popped' = None
  /\ CloseAll({}) /\ held' = {} /\ listening' = FALSE
  /\ exc' = (exc \/ ~bound)
  /\ UNCHANGED <<startVars, stack, comms, bound, groupVars>>

\* Acceptor.__aexit__ closes the sockets it holds, then its own, and raises when
\* there is none yet.
ExitAcceptor ==
  /\ popped = "acceptor" /\ popped' = None
  /\ CloseAll(held) /\ held' = {} /\ listening' = FALSE
  /\ exc' = (exc \/ ~bound)
  /\ UNCHANGED <<startVars, stack, comms, bound, groupVars>>

\* Mutant: the group is left without waiting for its children.
ExitConnectionsMutant ==
  /\ popped = "connections" /\ popped' = None
  /\ exc' = (exc \/ "connections" \in errors)
  /\ UNCHANGED <<startVars, stack, comms, bound, listening, conn, held, groupVars>>

\* TaskGroup.__aexit__ waits for the children and raises what they raised.
ExitConnections ==
  /\ popped = "connections" /\ Handlers = {} /\ popped' = None
  /\ exc' = (exc \/ "connections" \in errors)
  /\ UNCHANGED <<startVars, stack, comms, bound, listening, conn, held, groupVars>>

ExitData ==
  /\ popped = "data" /\ popped' = None /\ exc' = (exc \/ "data" \in errors)
  /\ UNCHANGED <<startVars, stack, comms, bound, listening, conn, held, groupVars>>

\* The contexts of the other components.
ExitOther ==
  /\ popped \in Contexts \ {"acceptor", "connections", "data"} /\ popped' = None
  /\ \E raised \in BOOLEAN : exc' = (exc \/ raised)
  /\ UNCHANGED <<startVars, stack, comms, bound, listening, conn, held, groupVars>>

\* main returns or raises; Runner.close cancels the tasks that are left.
End ==
  /\ main = "unwinding" /\ popped = None /\ stack = <<>>
  /\ main' = "ended" /\ listening' = FALSE /\ cancelled' = cancelled \cup Handshakes
  /\ comms' = IF comms = None THEN None ELSE "done"
  /\ CloseAll({})
  /\ UNCHANGED <<page, reqs, finalizing, exitVars, bound, held, errors, aborting, commsCancel>>

Ended == main = "ended" /\ Handshakes = {} /\ UNCHANGED vars

Main == Boot \/ Configure \/ Pop \/ ExitAcceptor \/ ExitConnections \/ ExitData \/ ExitOther \/ End
Comms == CommsEnter \/ StartSocket \/ Yielded \/ (AcceptFails /\ ~listening) \/ CommsCancelled \/ Drained
Resolves(c) == HandshakeFails(c) \/ HandlerStarts(c) \/ Woken(c) \/ TaskCancelled(c)
Network == \/ \E c \in Conns : Dial(c) \/ Dispatch(c) \/ HandshakeRaises(c) \/ PeerActs(c) \/ DataFails(c)
           \/ AcceptFails /\ listening

Next == Main \/ PageHandle \/ Requests \/ Interrupt \/ Comms
        \/ (\E c \in Conns : Accept(c) \/ Resolves(c)) \/ Network \/ Ended

Spec == Init /\ [][Next]_vars

\* The event loop runs every ready task and the handshake has a timeout; nothing
\* makes a peer send, so a handler that waits for one may wait for ever.
FairSpec ==
  /\ Spec /\ WF_vars(Main) /\ WF_vars(Comms) /\ WF_vars(PageHandle) /\ WF_vars(Requests)
  /\ \A c \in Conns : WF_vars(Accept(c)) /\ WF_vars(Resolves(c))

-----------------------------------------------------------------------------
(* Properties *)

TypeOK ==
  /\ main \in {"boot", "wait", "serving", "unwinding", "ended"}
  /\ page \in {None, "created", "serve", "up", "failed"}
  /\ reqs \in {None, "created", "binding", "done"}
  /\ finalizing \in BOOLEAN /\ stack \in Seq(Contexts) /\ popped \in Contexts \cup {None}
  /\ exc \in BOOLEAN /\ bound \in BOOLEAN /\ listening \in BOOLEAN
  /\ comms \in {None, "created", "resolving", "accepting", "yielding", "draining", "done"}
  /\ conn \in [Conns -> [task : {None, "backlog", "shake", "created", "handling", "over"},
                         kind : Kinds \cup {None}, open : BOOLEAN]]
  /\ held \subseteq Conns /\ cancelled \subseteq Conns /\ commsCancel \in BOOLEAN
  /\ errors \subseteq {"accept", "handshakes", "connections", "data"}
  /\ aborting \subseteq {"handshakes", "connections", "data"}

\* A connection handler never outlives the dispatcher that owns it: once main has
\* left the ConnectionDispatcher's context no handler runs, although handshakes go
\* on and may still dispatch while main waits in that context (mixins.py:77).
HandlersOutlived == Exited("connections") => Handlers = {}

\* A dispatcher that refuses connections is not left behind a listening socket: when
\* a failing handler aborts its task group the acceptor stops listening as well.
NoDeafListener == "connections" \in aborting ~> ~listening

\* Whatever the peer does, the handshake of an accepted connection comes to an end.
HandshakeResolved == \A c \in Conns : conn[c].task = "shake" ~> conn[c].task # "shake"

\* A connection whose handshake finished after the acceptor closed its sockets.
Late(c) == Exited("acceptor") /\ c \in held /\ conn[c].task = "handling"

\* Finalizing comes to an end: the handlers that wait for silent peers end because
\* the acceptor closes their sockets first, whatever contexts are entered meanwhile.
\* The one thing that can hold up the exit is a late connection, whose socket
\* nobody closes.
ExitEnds == CloseWakes => (finalizing ~> main = "ended" \/ \E c \in Conns : Late(c))
=============================================================================
