# PeerConnect in TLA+

A verification project for PeerConnect, a peer-to-peer file sharing program:
TLA+ modules that model its components, TLC configurations that check them on
small instances, and TLAPS proofs of what holds for every instance.  Paths are
relative to the repository's root, so the Python package is `src/`.

## The system

PeerConnect is one process per user.  Everything runs on a single asyncio event
loop, so two tasks interleave exactly at their `await`s; threads only read and
write files.  `main.py` queues the start-up steps, `src/core` finds and talks to
other peers, `src/transfers` moves files, `src/managers` owns the transfers and
`src/webpage_handlers` talks to the web page that is the user interface.

| component | state it keeps | operations | interacts with |
|---|---|---|---|
| file transfer (`transfers/files`, `transfers/abc.py`) | a handle's state, `file_list`, current index, `seeked` of each file, `to_stop`; at the receiver the current file | `send_files`, `recv_files`, `pause`, `resume`, `cancel`, `attach_files`, `continue_transfer` | a TCP stream; the managers; the page |
| file manager (`managers/filemanager.py`) | the `TransfersBookKeeper` | `send_files_to_peer`, the file connection handler | acceptor, transfers, page |
| page messages (`webpage_handlers/pagehandle.py`) | websocket, connected flag, bounded deque; one task per message | `submit`, flush, `update_transport`, exit | every component that reports to the user |
| connectivity (`core/connectivity.py`) | the latest check of each peer | `submit`, `check_for_recent`, `_new_check` | requests endpoint, peers |
| acceptor (`core/acceptor.py`) | listening socket, task groups | accept, handshake, dispatch | every handler of a connection |
| connector (`core/connector.py`), `SocketCache` | sockets by peer | get, add, verify | acceptor of the other peer |
| one-to-many (`transfers/otm`) | per relay: active and passive links, parent, upgrade requests, session | tree check, reject, upgrade, add link, gather, relay a chunk | the relays of the other peers over UDP and TCP |
| gossip and search (`core/gossip.py`, `transfers/rumor.py`, `core/peers.py`) | messages seen, their ages, answers of a search | push, forward, search, reply | requests endpoint |
| discovery, requests (`core/discover.py`, `core/requests.py`) | pending replies, bootstrapped flag | request, reply, passive mode | kademlia |
| kademlia (`core/_kademlia.py`) | routing table, peer lists | bootstrap, store and fetch lists | peers |
| directory transfer | current file, `to_stop` | send, receive, pause | a TCP stream |
| profiles (`managers/profilemanager.py`) | profile files, the main configuration | add, edit, delete, load | page |
| state manager (`managers/statemanager.py`) | queue of start-up states | process, signal stopping | main |

What is hard: two users act on one transfer at any `await`; a connection breaks
in the middle of a chunk; a timeout races the answer; several tasks flush one
buffer; a failing handler takes down the task group it runs in; datagrams are
lost and reordered while a tree is being built or a search runs; nodes start, go
down and hand each other lists at the same time; the program is killed between
two writes of its configuration.  `PROJECT.json` lists these
hazards at the lines where they bite, with the properties that cover them.

What makes each component correct:

* file transfer: bytes land in the file and at the place they belong to, the
  recorded seek never claims more than the peer may have, the end flag and the
  books mean what they say, both tasks end;
* page messages: no message is lost or sent twice, only the oldest one of a full
  buffer is given up, every task ends;
* connectivity: a peer is marked offline only on fresh evidence, removals share
  checks instead of multiplying them, removals and the exit end;
* acceptor: no handler outlives its dispatcher, no listening socket is left with
  nobody to serve it, handshakes and the exit end;
* one-to-many: the links form a tree (one parent, no cycle) that reaches every
  relay;
* discovery and peer lists: whoever is up finds another peer, acquaintance is
  mutual, and every peer ends up in the list where others would look for it;
* gossip: a search yields its own results only, and stops;
* profiles: what is offered is what is listed and on disk, but for what an answer
  that raised had touched, and the program comes up again after a crash;
* directory transfer: every directory receives its own files and no other, nothing
  is overwritten, what counts as sent is stored, both tasks end.

## The modules

### FileTransfer

One transfer between two peers.  `s...` variables are the sending handle and
task, `r...` the receiving ones, `sPc`/`rPc` name the `await` each is in.

* The stream is `log`, a sequence of tokens (flag, file item, unit of data, end
  flag) of which the receiver has consumed `rd`.  A file is `Size[f]` units, a
  chunk `ChunkLen` units, and `sock_sendall` moves a chunk unit by unit, so a
  pause, timeout or reset can happen with half a chunk delivered.
* The limiter `Event` of `connect.Sender`/`connect.Receiver` is `sOpen`/`rOpen`;
  `sPast`/`rPast` records that the call now awaited passed it already, as the
  code checks it once per call.
* `SenderExit`/`ReceiverExit` are the way out of the managers' context managers:
  the socket is closed and the `finally` clause files the handle in a book.
* `handle_exception` turns an `OSError` (a timeout is one) into a pause; a
  `ValueError` from mapping an empty file passes through with the state as it is.
* `Asserts` chooses whether Python runs its assertions; they fail on every
  connection (see Findings), so the runs model `python -O`.
* `calm` is chosen at the start and never changes: in a calm execution nothing
  fails and the user lets the transfer run.  `AllDelivered` is about those, the
  safety properties about all.
* `Break` is the network; it and the close of the other end are the only things
  modelled without source (marked external), with the socket buffers.

Abstracted: names, sizes in bytes, progress bars, messages to the page (module
FrontEnd), duplicate file names (`validatename`).

### FrontEnd

Messages to the page.  `FrontEndDispatcher()(m)` creates a task (`Submit`), the
event loop starts tasks in creation order (`Start`), a task then awaits a send
on the websocket that was current when it called `send` (`via`).  `buffer` is
the `deque(maxlen)`; `acked` and `discarded` are history variables.  `Exit` is
the unwinding of the exit stack.  A websocket's send returns while it is open
and raises once it is closed.

### PalmTree and Forest

The formation of the tree of a one-to-many transfer.  Relays are numbered, the
center is 0; `CreateHypercube` gives the dimensions in which each has a neighbour,
`AdjacencyList` the neighbours that answered, by dimension.  `FilesSender.start`
is the three actions `InformPeers`, `UpdateStates`, `TriggerSpanningFormation`;
every handler of a relay is an action, split where its task awaits something that
another task can interleave with: the parent link (`waiting`), the answer to a
dial (`stream`), the send of an answer (`adding`).  `fut` is `_parent_link_fut`,
which `wait_for` cancels when it times out.  Datagrams are a set: they are lost
and reordered; duplication by the network is not modelled.  Three switches:
`Faulty` (losses, timeouts, failed dials, peers that do not answer), `InOrder`
(a relay knows its links before a check reaches it) and `SendSuspends` (an
awaited send gives way to other tasks, as it does on the proactor loop of
Windows; on the selector loop a few bytes are sent at once).  The branches of
`gossip_add_stream_link` for a link that is online already, or that was not
asked for, are not in the model, because they are not reached: a relay dials only
a peer that asked it to, and once.

`Forest` is what the tree protocol promises without its messages: a relay
settles once, as a member below a settled relay or as an orphan.  `PalmTree`
implements it by reading `fut` as the relay's status.

### Connectivity

What happens when a call to a contact fails.  kademlia drops the contact and
`remove_peer` asks `new_check` for a connectivity check: a ping, and after
`PING_TIMEOUT` a TCP connection.  `last_checked` remembers the latest check of
each peer; a removal within `PING_TIME_CHECK_WINDOW` of it shares it.

* `ready` is the event loop's FIFO queue of callbacks, because the order in which
  created tasks start matters here: `check_and_remove_if_needed` finds the check
  that `remove_peer` asked for only because its `submit` was created first.
  (`core/eventloop.py` sets an eager task factory, on a loop the program does not
  run; tasks start from the queue.)
* `now` is `time.monotonic()`.  It moves only when no callback is ready and no
  timer is due (`Tick`), a unit being a second.
* `CheckRequest` and its `_new_check` task are one record in `checks`, named after
  the removal and the function that asked for it; a removal is a record in
  `removals`, with the object the failed call used, the instant it was asked and
  the check it awaits.
* Several `RemotePeer` objects stand for one peer (`Copies`): the one in
  `Dock.peer_list` and those decoded from the answers of others.  `may_be_remove`
  marks the object it was given, the page shows the peer.
* A TCP attempt ends either way at any time up to its timeout.  Which peers reply
  to `REMOVAL_PING` is the constant `Answering`: no handler in `src/` replies to
  it, so replies are an assumption about the other side.  A reply after the
  timeout meets a cancelled future.
* `Exit` cancels the latest check of each peer, `GroupExits` is the end of the
  wait for the others.

### Acceptor

Start-up, incoming connections and shutdown.  `stack` is `Dock.exit_stack` with
the contexts in the order `main.py`'s states enter them; `Pop` leaves them in
reverse, and what each context does on exit (close the listening socket and the
accepted ones, wait for a task group, cancel) is an action.  A connection is a
record: where its task is (in the backlog, in its handshake, created, in its
handler), what the handshake asked for, whether our end is open.  The task groups
are those of asyncio: a child that raises is recorded in `errors`, the group goes
to `aborting`, cancels its children and its parent.  That parent is the task of
"initiating comms" for the handshakes and for the connection handlers, which is
how one failing handler ends the accept loop.  `CloseWakes` says whether closing
a socket fails the calls that wait on it: it does on the proactor loop; on the
selector loop a handler blocked in `recv` on a closed socket never wakes, and the
exit then waits for it.  The exits of contexts that no property is about are one
action, `ExitOther`; a second interrupt is not modelled.

### Discovery

How a peer enters the network.  `disc` is where `discovery_initiate` is, `passive`
the task of `enter_passive_mode`, `known` the routing table of each node.  A
datagram is lost or arrives at any time; a remote call of the kademlia package is
one step of both ends when it is answered, and otherwise times out with or without
the callee having handled it.  A datagram with a header the registry does not have
raises in the discovery dispatcher and ends its task group and with it the node's
discovery (`ForeignHeader`); the node goes on answering remote calls.  Nothing makes
it look again, so `Bootstraps` is satisfied by such a node (`disc` is `"dead"`), and
by one that has only such nodes around it: the property is about lost datagrams and
calls, not about this failure.

### PeerLists

The lists of peers kept in the network.  A node enters itself, in turns of
`add_this_peer_to_lists`, in the list whose key is closest to its id: it crawls
for the nodes closest to the key (`task[n].heap`, `asked`) and calls
`store_peers_in_list` at each; a node that meets a new one hands over the lists
the new one should keep (`SendPeerLists`).  Nodes start, crash and start again
with an empty store.  The limits of buckets and what welcoming a contact does to
`Dock.peer_list` are left out; a call is one step, lost or not.

### Gossip

Two halves of a search: the message that `RumorMongerProtocol` gives to a sample
of `Alpha` peers, and `search_iterator`, which hands replies to its caller until a
deadline.  `sent` is the peer list of a message's item.  `fields_check` wants a
field `id` that a decoded message does not have, and searches carry no ttl, so
`FieldsCheck` is false: `message_arrived` returns before it would forward a message
and what is left is a search of the first hop.  `Forward` and the rest are in the
model as in the code, so a repaired check needs no other change.

### Profiles

A profile is a file, a line of the main configuration, and an entry of
`PROFILE_LIST`; the selected profile is named in the configuration.  Handlers run
without an `await`, so `todo` is the sequence of calls of the profile manager that
the running one has still to make, each the sequence of its writes, and `Kill` may
happen between any two and while a file is truncated.
`configparser` lowers the case of its keys (`Lower`).  A page answers the list it
was offered, which may be stale by then.

What the page answers is not validated, and `handlesignals.submit` logs whatever a
handler raises.  So an answer may end at any profile: in `edit_profile` or
`add_profile` (`Raise`: a name that `open` or `rename` does not take, a value that
cannot be written, a profile without its keys), or before anything of the next
profile is written (the second case of `Answer`: an id that is no number,
`handleprofiles.py:45`, or the key `'selected'` that `all_profiles` adds to what the
page is shown, `:54`).  `refresh_profile_list` is skipped then, and `PROFILE_LIST`
holds profiles that are gone, or lacks ones that are listed, until an answer that
does not raise or the next start loads them again.  `touched`, a history variable,
has the profiles that answers removed, renamed, made or damaged since the last
load; `NoGhosts` says that no other profile is affected, and that after a load, when
it is empty, memory, configuration and files agree without exception.

Assumed: the main configuration itself can be written whenever the program is not
killed; a name that is written to it reads back as the same name but for its case;
a user name with a path separator names no directory that exists, so that `open` and
`rename` raise.  The profiles of one answer are taken in the order added, renamed,
edited, where the code takes them in the order of the answer; any subset of each may
be done when an answer raises between two profiles, but one that raises within a
write has done only what this order puts before it.

A profile whose name has capitals is listed under another name, which a file system
that tells case apart does not have: the next load takes it out, of the
configuration and of the list.  No property rules that loss out; a profile that is
gone everywhere satisfies both `NoGhosts` and `Recovers`.

### DirectoryTransfer

`send_directory` to one peer.  The stream carries a code, the parts of a path, the
size and the data of each item; a byte per file comes back, which the sender reads
only inside an `assert`.  `build[t]` says whether the sender runs on Windows (off
Windows the path cannot be packed and the first item raises) and with assertions;
`optimized` whether the receiver runs with `-O`.  Names are sequences, so that
`validatename`'s "x (1)" is a name that other items may have.  All transfers save
into one download directory, `dirs` and `files`.

## Runs

| run | configuration | what it shows |
|---|---|---|
| `file_transfer` | files of 5 and 3 units plus an empty one that may be attached, chunks of 2, 3 elements in the socket buffers, faults and users on, or a calm execution | safety of the transfer; both tasks end once nobody keeps an end paused; in a calm execution the files arrive whole |
| `front_end` | 4 messages, buffer of 2, 2 websockets | safety of the dispatcher; every task ends |
| `palm_tree` | 4 relays, fanout 2, every fault, sends that do not suspend | one parent each, data goes to children only, no cycle; the abstract forest is implemented |
| `palm_tree_spans` | 5 relays, the default fanout, no faults, in order, sends that suspend | every relay joins the tree |
| `connectivity` | 2 removals of a peer with 2 objects, ping timeout 2, window 1, removals up to instant 3 | verdicts are fresh, checks are shared, an offline object is shown as such, no wake-up is lost; removals and the exit end |
| `acceptor` | 2 connections of every kind, failures at any `await`, an interrupt at any point, proactor loop | handlers end before their dispatcher, no deaf listener, handshakes and the exit end |
| `discovery` | 2 nodes from nothing; a node that joins a settled and a deaf one; one loss, one foreign header, 2 packets per burst | no node knows itself, acquaintance is mutual, every node finds another |
| `peer_lists` | 3 nodes and 2 lists in a space of 3 bits, `ksize` 1, one crash or lost call | in the end every node is listed where its list belongs |
| `gossip` | 3 peers in a line, 2 searches, `Alpha` 1, deadline 2, 2 replies each | a search yields only what matches it and was asked; it stops |
| `profiles` | 4 file names of which two differ in case, one profile of an earlier run, 2 pages, 2 answers that may raise at any profile, 2 kills, a file system that tells case apart | between handlers memory, configuration and files agree but for what an answer that raised had touched; the profiles can be listed; the program comes up again |
| `directory_transfer` | 2 directories of one name with a name that repeats below the root, one saved file in the way, one reset, one file deleted, 2 elements on the wire, 1 on the way back | directories do not mix, nothing is overwritten, what was sent is stored, both tasks end |
| `end_flag_written_to_file` | as `file_transfer`, longer files, no faults | the violation under Findings |

The bounds: a file longer than a chunk and a chunk longer than a unit are needed
for partial chunks; a socket buffer shorter than the transfer makes the sender
wait; two files are needed for the flag between them.  Four messages over a
buffer of two fill it, hold one in the hands of a task and leave one to overflow
it; two websockets let a task fail on the first while the second is current.
Four relays are a square: two paths from the center to the opposite corner, so
two relays check the same one; with five the center has more neighbours than a
relay next to it.  Two removals up to instant 3 share a check, overlap without
sharing (further apart than the window but within the first check's timeouts) or
follow an ended check; the timeouts keep the order of the real ones (4 s and a
window of 3 s), and two objects are needed for a stale one.  Two connections let
the handler of one fail while the other is in the backlog, in its handshake or in
its handler.  Three nodes are needed for a neighbour that is learnt from another;
the deaf one can be learnt in no other way.  With three nodes and `ksize` 1 the
place of a list moves when a node comes or goes; `MaxTurns` keeps two crawls from
running at once.  Two searches are needed for mixed replies, a peer beyond the
first hop for one that is never asked.  Two kills leave a repair itself
interrupted; two pages make one of two answers stale, and one of two may raise before
the other loads the profiles again.  The files of the directory
run are chosen so that "x (1)" is both a name given and a name in use.

Some modules define a `TypeOK` that no configuration lists; it holds on the same
instances and documents the variables.

Deadlock is checked where the system cannot stop.  Discovery, Gossip, Profiles and
DirectoryTransfer may: everybody knows everybody, the searches are over, the
program is down for good, the transfers have ended.

Fairness.  `FairSpec` of FileTransfer gives weak fairness to the sending and to
the receiving task: the event loop runs every ready callback and a pending send
or recv returns or raises.  Nothing is assumed of the user and of the network.
`FairSpec` of FrontEnd gives it to every task, and to the start of created
tasks; the websockets library closes a connection whose peer stopped answering
its pings, so a pending send ends.  `FairSpec` of PalmTree gives it to all
steps that are not faults: with `Faulty` off nothing is lost, so each datagram
arrives and each event loop runs its tasks.  `FairSpec` of Connectivity gives it
to the event loop: callbacks, timers and the passing of time.  Replies, peers that
return and the exit are not assumed to come.  That of Acceptor is the event loop's
and the handshake's timeout; a handler waiting for a silent peer may wait for
ever, and no interrupt is assumed.  That of Discovery is the event loop's, plus the
arrival of a datagram and the answer to a call that are not lost; losses are
bounded, so a node that repeats its requests gets through.  PeerLists is the one
with strong fairness, of the periodic turn: the bound `MaxTurns` switches it on and
off, the code's timer does not.  Gossip has the event loop and the clock, Profiles
the start-up and the running handler (not the user who starts the program or
answers), DirectoryTransfer the two tasks of a connection.

## Proofs

`PageProofs` holds the proofs about the two components that serve the page,
FrontEnd and Profiles; they share no state.

Of FrontEnd it proves, for any set of messages, any buffer length and any number
of websockets, `Spec => []TypeOK`, `Spec => []NothingLost`,
`Spec => []OneOwner` and `Spec => OldestDropped`, from the assumptions on the
constants alone (`BufferAssumption`, `TransportsAssumption`).

`OneOwner` is not inductive: it does not say that a task waiting in the ready
queue is there once, that a task that has not sent yet holds its own message, or
that a message not yet submitted is nowhere.  `IInv` adds these (`ReadyInv`,
`OwnInv`, `NewInv`).  The deque is handled by four lemmas about appending and
taking at either end (`AppendElements`, `ConsElements`, `TailElements`,
`RoomMade`) and by `PutBack`: after `_handle_buffer_and_log` there is room, so
what leaves the buffer is exactly its oldest element if it was full.  Then each
action has its lemma, and `NextIInv` combines them.

Of Profiles it proves, for any set of names, whether or not the file system tells
case apart, any number of pages, answers and kills,
`ProfilesSpec => []ProfilesTypeOK`, `ProfilesSpec => []NoGhosts` and
`ProfilesSpec => []Offered`, from `FileAssumption` and `BoundAssumption`.  Both
properties are about the moments between two handlers, so the invariant has to say
what holds in the middle of one, in terms of the calls still to be made:

* `TodoInv`: in each call that is left, a change of the parser is followed by the
  writing of the main config, and the profiles are loaded in the last call or not at
  all (`CallsOK`; starting up always ends by loading);
* `SyncInv`: the main config on disk is the one in memory, or its writing is next;
* `GhostInv`: once the program is up, a profile of the list that is not `touched` is
  listed in the main config and has its file, or the file is truncated and its
  writing next; what else the main config lists is touched or about to be taken out;
  and each write to come that takes out, makes or moves a profile is about a touched
  one, or one that is not in the list (`Recorded`);
* `LowerInv`: what is listed is in lower case, so that unlisting a name other than f
  leaves f listed;
* `SelectedInv` and `DefaultInv`: a selection is missing only if one was cut short,
  and starting up puts the default profile back, which nothing takes out of the
  configuration or the list without `noDefault`.

`TheCalls`, `TheAdditions` and `TheRenaming` spell out the writes of each call,
`Deletions`, `Additions`, `Edits` and `Renamings` those of a call for each profile of
a set, `Configuring` those of a whole answer, to its end or to where it raises
(`Bounded`: it takes out only what the answer leaves out or renames, and makes only
what is new), and `WriteDone` what is left after one write.  `Raise` keeps the
invariant because what it drops is about touched profiles.  `Kill` keeps the invariant for the simple reason that it says
little of a program that is down, and `Boot` establishes the rest from what is on
disk, whatever that is.

`PalmTreeProofs` proves, for any number of relays and any fanout,
`Spec => []Acyclic` and `Spec => GrowsForest` whatever the three switches say,
and, when sends do not suspend, `Spec => []SingleParent` and
`Spec => []ForwardsToChildren`.  `Acyclic` quantifies over sets (each non-empty
set of members holds one whose parent is outside), which needs no induction.  It
is not inductive; `TreeInv` adds the causal order that makes it so: checks come
from settled relays, answers to checks go to settled relays, a relay waits for
and is dialled by settled relays (`MessagesSettled`, `PeersSettled`,
`CenterFirst`), and the parent of a member is settled (`ParentsSettled`).
`StepsOfTheTree` shows that any step plants the center, abandons or attaches one
unsettled relay, or leaves the tree alone; that lemma serves both the invariant
and the refinement.  `LinkInv` relates the two ends of a stream: the relay that
answered reads from the dialler, and an online link is the parent's or one whose
answer came.

`ConnectivityProofs` proves, for any number of peers, objects and removals and any
timeouts, `Spec => []TypeOK` and `Spec => FreshVerdict`.  The only assumption that
matters is `PING_TIME_CHECK_WINDOW < PING_TIMEOUT` (3.0 and 4 in `constants.py`).
The invariant says that a failed check failed at least a ping timeout after it was
asked for (`CheckInv`, which needs the same of the checks on their way:
a ping's deadline, the instant of the TCP attempt), that `last_checked` names
checks of its peer (`LastInv`), that a removal awaits a check of its peer asked
for at most a window before the removal (`RemovalInv`), and that the callback that
wakes removals comes after the end of their check (`WakeInv`).  Hence the check
that marks a peer offline failed after the removal was asked; a check that has
ended and is still recent cannot have failed (`Recent`), so the short cut in
`remove_peer` and in its task only ever delivers success or a cancellation.

`DiscoveryProofs` proves, for any set of nodes, any start of the network in
`StartsAssumption` and any number of losses, `Spec => []NoSelf` and
`Spec => []Acquainted`.  Neither is inductive: a call of a node to itself would
break both.  `IInv` adds that no datagram and no call goes from a node to itself
(`NetInv`, `CallsInv`); that holds because requests are multicast to others, an
answer goes back to where the request came from, and `rpc_find_node` leaves the
caller out of the neighbours it names.  Steps that answer a call have a lemma
each: the ping makes the caller known and leaves a call behind that will make the
callee known, the call of a crawl does both.

`GossipProofs` proves, for any peers and peer lists and any number of searches,
`Spec => []ResultsMatch`.  The results say nothing of the replies on their way, so
`IInv` adds that every request is one its sender remembers having sent, every reply
comes from a relevant peer that its receiver asked (`NetInv`), and what waits in a
queue is a result already (`QueueInv`).  `FieldsCheck` is never expanded: the theorem
holds also if messages were forwarded.

`FileTransferProofs` proves, for any files, sizes, chunk length and buffer
(`SizesAssumption`, `BoundsAssumption`), `Spec => []TypeOK`,
`Spec => []ContentIntegrity`, `Spec => []SeekWithinOneChunk`,
`Spec => []EndFlagMeansComplete`, `Spec => []CompletedMeansSent` and
`Spec => NothingAfterEnd`.  The stream carries no positions: the receiver knows
what an element is only from what came before it.  So the invariant is a grammar:
`LogInv` says of every element which element precedes it.  `SendInv` says what the
stream ends with at each await of the sender, `SeekInv` how far each file is sent,
`BookInv` what has been sent when a handle is filed; `RecvInv` says what the
receiver read last at each of its awaits, and `DiskInv` what is on its disk then.
`FlagIsNext`, `ItemIsNext` and `UnitIsNext` draw the conclusion: at each await the
next element of the stream is the one the receiver takes it for.  There is one
exception, `Cut`: the end flag of a cancelled sender, which the run
`end_flag_written_to_file` shows, and after which nothing is claimed of the
receiver's position.

`Spec => []TypeOK` of PalmTree includes that the window of a relay, which
`forward_tree_check_packet` uses as an index, is never past the end of its links.
That needs `StateOnce`: a relay gets its links in one datagram and has none before,
so they never shrink under a window computed earlier.  That the links are relays
comes from `AdjacencyList`, whose entries are chosen by rank (`Nth`) among the
dimensions with a neighbour that answered; that there is one of each rank is a fact
about finite sets of numbers.

`ConnectivityProofs` also proves `Spec => []SharesItsCheck` and
`Spec => []OfflineShown`.  For the first, a removal that has asked for its check
and waits must find the check it asked for when it asks again: `QueueInv` says that
a removal's callback in the loop's queue has the submit of a check that serves it
ahead of it, or is settled.  `OKTail` and its neighbours say how such a queue
changes when callbacks are appended and taken.  For the second, `ListInv` says that
an object in the list stands for the peer it is listed under.

The liveness of Connectivity is TLC's, but its core is a safety property:
`Spec => []NoLostWakeup` says that a removal that awaits has its task in the loop's
queue, or a check that something drives on (the queue, a reply, a timer that is
not past), or a check that has ended and whose wake-up is queued.  `LoopInv` adds
that a callback is in the queue once and finds its check or removal in the state it
is for; hence `Spec => []LoopNeverStuck`: the loop never stops at a callback
that cannot run.

`AcceptorProofs` proves, for any set of connections, `Spec => []TypeOK` and
`Spec => []HandlersOutlived`.  Beyond the types the invariant needs that nothing
is connected before the accept loop runs (`QuietInv`), and that, until main begins
to unwind, the dispatcher's context is on the exit stack from the moment the comms
task entered it (`StackInv`): the context can then be left only by the unwinding,
which waits for the handlers, and after that a handshake that dispatches meets a
group that is shut.

`DirectoryTransferProofs` proves, for any number of directories sent at once, any
trees, buffers and contents of the download directory, `Spec => []Intact`,
`Spec => []SentMeansStored` and `Spec => NothingOverwritten`.  The assumptions are
`TreeAssumption` and `PathsAssumption`: names and paths are sequences, no path is
empty, and there are finitely many transfers and files to begin with.  The
invariant has one part for the download directory and one for each transfer:

* `RootInv`: every entry lies below an entry of the top level, which was there or is
  the root of exactly one transfer.  That a new root is new is a pigeonhole argument
  (`NumbersLeft`): if all the names `rename_directory_with_increment` may try were
  taken, there would be more roots than transfers and files.
* `TaskOK`: where the two tasks may be at the same time.
* `WireOK`: as in FileTransfer a grammar, here with what comes after an element
  (`DataAt`: in the stream, or what the sender will write next if it gets as far),
  because the receiver consumes the stream.
* `HandOK` and `OwnOK`: the file in hand has the units of one item so far and the
  next unit comes next; every other file of the transfer is whole.
* `LiveOK` and `KeptOK`: for a sender with asserts, what is in the stream belongs to
  its current item, a code on its way back stands for that item, and everything
  before it is kept.  `Kept` asks for a file of size 0 only that its path is there,
  and for any other that it is stored whole: an empty file may be merged into its
  neighbour, a whole one is never the file in hand of any transfer (`KeptLasts`,
  from `UnitsDiffer`), so that it stays.

A step touches one transfer and the disk.  `DiskStep` says what it may do to the
disk, `OthersOK` that this leaves every other transfer as it should be, and
`SenderStep` and `ReceiverStep` reduce each action to the parts about its own
transfer.

On top of that invariant, `Spec => []NoMutualWait`: with a sender that reads the
codes, a receiver that can only wait has a sender that is on and can move, and a
sender that can only wait has a receiver that has not ended.  That is what `Ends`
needs besides fairness.  `SenderWaits` and `ReceiverWaits` spell out when a task
cannot move; on the instance of `directory_transfer` TLC found them equivalent to
`~ENABLED Sender(t)` and `~ENABLED Receiver(t)`.  `WaitInv` says that the receiver
is at a code whenever it takes itself to be (`OrderOK`: after the path of a directory
comes a code, which the stream shows only together with the code before the path),
and that a code the sender waits for is on its way back, or is about to be sent, or
the element that completes the file is still in the stream, as its last
(`OwedOK`).  For a sender that does not read the codes this fails, as the Findings
say.

Only model-checked: every liveness property, since the provers have neither
fairness nor `ENABLED`.  Every invariant and every action property that a run checks
is stated by a theorem.  PeerLists has only a liveness property.

## Findings

The run that expects a violation states what a document says of the program.

* `end_flag_written_to_file`: the end flag of a cancelled sender, which leaves its
  file half sent, is written into that file.

Met while modelling, without a run of their own.

Files.  End of file between two files is taken for the end flag and ends in
COMPLETED (`receiver.py:71`, against `docs/transfer/file.md:66`).  Files attached
to a running transfer are not sent, because the range was fixed (`sender.py:42`,
against `filemanager.py:36`).  `Receiver.connection_made` asserts `isinstance` of
the wrong `Receiver` and fails on every connection unless assertions are off.  A
handle that could not connect stays in the current book (`filemanager.py:132`);
`recv` has no timeout (`receiver.py:64`); `continue_transfer` has no caller.
`Sender.cancel` raises before it cancels its task and the sender completes.

Directories.  The receiving handler has the same assertion, outside its `try`, and
leaves the connection open: the sender then waits for a confirmation without a
timeout.  Off Windows packing a `PosixPath` raises at the first item, and the
receiver files an empty directory as completed.  A sender with `-O` never reads
the codes that come back; once they fill the buffers both ends wait, which is why
`Ends` is limited to `FileCount(t) <= AckBuf` for such senders.  `validatename` looks
for a clash in the transfer's root: a file below it may be renamed to a name that
its neighbour has, and then the transfer fails, or an empty file is merged into
the neighbour.  A short read fails the transfer, a deleted file is skipped in
silence, a failed handle stays in the current book, and `pause_transfer` finds no
handle.

Page.  A late failure of a send on an earlier websocket clears the connected flag
of the current one (`pagehandle.py:51`); after a reconnection the next message
overtakes the buffered ones (`pagehandle.py:56`).  `front_end_data_dispatcher` with
`expect_reply` registers the reply but does not send the question, so
`align_profiles`, `ask_user_for_a_peer` and `get_transfer_ok` wait for the answer to
a question nobody was asked.  `handlesignals` awaits an asynchronous generator.

One-to-many.  While the answer to one dial is being sent a second dial is accepted,
so a relay may get two parents when sends suspend (`palm_tree.py:511`, against
`:478`).  The slice in `forward_tree_check_packet` takes `fanout + 1` peers; peers
that rejected a check count as active links, so a relay with a fanout below its
number of neighbours does not try the rest; a check that overtakes the state of its
receiver is rejected and not repeated, which is why `palm_tree_spans` needs
`InOrder`.  A relay whose parent connection never came checks its neighbours,
because the timeout cancels the future whose `done()` ends the loop.
`OTMPalmTreeProtocol` builds its `OTMFilesRelay` without the `file_receiver` that
class requires; the model takes the relay as `PalmTreeRelay` defines it.

Connectivity.  A removal marks the object its failed call used, so the page may
show a peer OFFLINE whose object in `Dock.peer_list` is ONLINE (`OfflineShown` is
the direction that holds); a ping that times out leaves its future in the reply
registry.

Acceptor.  One failing connection handler ends the accept loop, where
`docs/core/acceptor.md` has it accept until a finalizer is set.  Basic connections
close at once, as `while finalizer()` is inverted.  Accepted sockets stay on the
acceptor's exit stack for the life of the program.  A handshake that ends after
the acceptor closed its sockets leaves a connection that holds up the exit
(`Late`).

Discovery and lists.  With four nodes or more two pairs may find each other and
stop: a bootstrapped node sends no more requests.  A store of an entry counts as a
success when all of its calls failed, because `any` is given the list of results
(`_kademlia.py:262`).  Entries of peers that left are never removed.  A crawl that
asked the old owner of a list before it met the new one stores at the old one only,
until the next turn.  `get_list_of_nodes` passes the module `node` and raises, so
lists are never read; `get_more_peers` would never reach the last one
(`peers.py:203`).

Gossip.  No search gets past the first hop (see the module); a reply to a
forwarded search would go to the forwarder, which drops it.  `_disseminate` is
never started, iterators are never removed, and `gossip_search` is called from
`tests/gossip.py` only.

Profiles.  `write_default_configurations` is not reached, as `config.read` does not
raise `KeyError`; a torn main configuration fails the start for good.  A selection
that matches no profile wipes the selection.  An answer of the page that raises
after its deletions is logged and forgotten (`handlesignals.py:19-22`): the deleted
profiles stay in `PROFILE_LIST` and are offered again.  It raises for a new profile
without a numeric id (`handleprofiles.py:45`, where the comment at `:48` says that
new profiles have none), for the key `'selected'` that `all_profiles` itself adds
(`:54`, `profilemanager.py:220`), for a name that `open` or `os.rename` does not take
(`profilemanager.py:112`, `:78`), and for settings that lack a key (`:115`).  A profile
whose name has capitals is lost at the next load where the file system tells case
apart (`profilemanager.py:118`).

## Plan

1. Done: FileTransfer, FrontEnd, PalmTree with Forest, Connectivity, Acceptor,
   Discovery, PeerLists, Gossip, Profiles, DirectoryTransfer, each with its run.
2. Proofs, done: every safety property that the runs check, and the safety core of
   the liveness of Connectivity and DirectoryTransfer.
3. If the code comes to use them: resuming a transfer, reading the lists, the data
   side of the palm tree.

## Not modelled

* The byte layouts of `avails/wire.py`, platform code, dialogs, logging and the
  process manager, which the repository says is no longer in use: they keep no
  state a property could relate.
* Code that cannot run as it stands: the OTM receiver's data side (a `with`
  statement over an asynchronous context manager), `get_connection` of
  `connector.py` (a `Dock` attribute that does not exist), the reading of the peer
  lists, `continue_transfer` (no caller), the disseminating loop of gossip.
* `gather_tree` and the downgrade of a link, which no peer sends.
* The page's command handlers: they build messages and call the components above.
* A source file that vanishes before it is sent raises `AttributeError` on
  `FileItem.size`; a peer that vanishes without closing its connection leaves the
  receiver waiting, as its `recv` has no timeout: the fairness assumption excludes
  it.
* Out of the provers' reach, and left to TLC: every liveness property.
