------------------------- MODULE DirectoryTransfer -------------------------
(***************************************************************************)
(* Directories sent to one peer: send_directory and DirConnectionHandler   *)
(* of managers/directorymanager.py, DirSender and DirReceiver of           *)
(* transfers/files/directory.py, and the parts of the file Sender and      *)
(* Receiver they inherit.                                                  *)
(*                                                                         *)
(* Each transfer has a connection and two tasks of its own; all of them    *)
(* save into the receiving peer's download directory.  A task's step runs  *)
(* from one await to the next.  A name is a sequence: <<"x">>, and         *)
(* <<"x", 1>> for "x (1)"; a path is a sequence of names.                  *)
(***************************************************************************)
EXTENDS Integers, Sequences, FiniteSets, SequencesExt

CONSTANTS
    Transfer,    \* calls of send_directory
    DirName,     \* DirName[t]: the name of the directory that is sent
    Tree,        \* Tree[t]: its items, in the order rglob yields them
    Builds,      \* Builds[t]: how the sender of t may run: [windows, asserts]
    SavedFiles,  \* files in the download directory before any transfer
    SockBuf,     \* bound: elements the buffers of a connection hold
    AckBuf,      \* bound: the same, on the way back
    MaxBreaks,   \* bound: connections the network resets
    MaxGone      \* bound: files deleted on the sender's disk meanwhile

(* rglob yields a directory before what is in it.                          *)
ASSUME TreeAssumption ==
    \A t \in Transfer : \A i \in 1..Len(Tree[t]) :
        LET parent == Front(Tree[t][i].path) IN
        /\ Tree[t][i].kind \in {"file", "dir"}
        /\ Tree[t][i].size \in Nat
        /\ parent = <<>> \/ \E j \in 1..(i - 1) : Tree[t][j].kind = "dir" /\ Tree[t][j].path = parent
(* Names and paths are sequences, and no path is empty.                    *)
Sequence(s) == s \in Seq({s[i] : i \in 1..Len(s)})
ASSUME PathsAssumption ==
    /\ IsFiniteSet(Transfer) /\ IsFiniteSet(DOMAIN SavedFiles)
    /\ \A t \in Transfer :
        /\ Sequence(DirName[t]) /\ Sequence(Tree[t])
        /\ \A i \in 1..Len(Tree[t]) : Sequence(Tree[t][i].path) /\ Tree[t][i].path # <<>>
    /\ SavedFiles = [p \in DOMAIN SavedFiles |-> SavedFiles[p]]
    /\ \A p \in DOMAIN SavedFiles : Sequence(p) /\ p # <<>> /\ Sequence(SavedFiles[p])
ASSUME BuildsAssumption ==
    Builds \in [Transfer -> SUBSET [windows : BOOLEAN, asserts : BOOLEAN]]
ASSUME BoundsAssumption == {SockBuf, AckBuf} \subseteq Nat \ {0} /\ {MaxBreaks, MaxGone} \subseteq Nat

VARIABLES
    build,     \* build[t]: how the sender of t runs
    optimized, \* the receiving peer runs with -O
    spc,       \* where the sending task of t awaits
    item,      \* the item of Tree[t] it is at
    sent,      \* units of that file in the stream
    gone,      \* items deleted on the sender's disk
    skipped,   \* items the sender passed over since they were gone
    wire,      \* the stream to the receiver
    acks,      \* bytes on their way back
    closed,    \* the ends of the connection that are closed
    broken,    \* the connection is reset
    rpc,       \* where the receiving task of t awaits
    root,      \* the directory made for t
    current,   \* Receiver._current_file: path, size and units received
    book,      \* where the receiver's transfers_book holds the handle
    dirs, files,   \* the download directory
    breaks

sVars == <<spc, item, sent, skipped>>
rVars == <<rpc, root, current, book, dirs, files>>
vars == <<build, optimized, spc, item, sent, gone, skipped, wire, acks, closed, broken,
          rpc, root, current, book, dirs, files, breaks>>

Code(k) == [kind |-> "code", what |-> k]
Parts(path) == [kind |-> "parts", what |-> path]
SizeOf(n) == [kind |-> "size", what |-> n]
Data(t, i, u) == [kind |-> "data", what |-> <<t, i, u>>]

NoFile == [path |-> <<>>, size |-> 0, seeked |-> 0]
SenderOn == {"code", "parts", "size", "chunk", "ack", "end"}
ReceiverOn == {"confirm", "code", "parts", "path", "size", "chunk", "ack"}

Init ==
    /\ build \in {b \in [Transfer -> UNION {Builds[t] : t \in Transfer}] :
                    \A t \in Transfer : b[t] \in Builds[t]}
    /\ optimized \in BOOLEAN
    /\ spc = [t \in Transfer |-> "idle"]
    /\ item = [t \in Transfer |-> 0]
    /\ sent = [t \in Transfer |-> 0]
    /\ gone = [t \in Transfer |-> {}]
    /\ skipped = [t \in Transfer |-> {}]
    /\ wire = [t \in Transfer |-> <<>>]
    /\ acks = [t \in Transfer |-> 0]
    /\ closed = [t \in Transfer |-> {}]
    /\ broken = [t \in Transfer |-> FALSE]
    /\ rpc = [t \in Transfer |-> "idle"]
    /\ root = [t \in Transfer |-> <<>>]
    /\ current = [t \in Transfer |-> NoFile]
    /\ book = [t \in Transfer |-> "none"]
    /\ files = SavedFiles
    /\ dirs = {<<p[1]>> : p \in {p \in DOMAIN SavedFiles : Len(p) > 1}}
    /\ breaks = 0

Exists(p) == p \in dirs \cup DOMAIN files

-----------------------------------------------------------------------------
(* The sending task *)

(* connect_to_peer, within its retries, and the handshake.                 *)
SendDirectory(t) ==
    /\ spc[t] = "idle"
    /\ spc' = [spc EXCEPT ![t] = "confirm"]
    /\ UNCHANGED <<build, optimized, item, sent, gone, skipped, wire, acks, closed, broken,
                   rVars, breaks>>

(* The task ends and the with statement closes the connection.             *)
SenderEnds(t, how) ==
    /\ spc' = [spc EXCEPT ![t] = how]
    /\ closed' = [closed EXCEPT ![t] = @ \cup {"sender"}]

(* connect_to_peer gives up.                                               *)
ConnectFails(t) ==
    /\ spc[t] = "idle"
    /\ SenderEnds(t, "failed")
    /\ UNCHANGED <<build, optimized, item, sent, gone, skipped, wire, acks, broken,
                   rVars, breaks>>

(* The items before position i that are neither a file nor a directory any *)
(* more are passed over.                                                   *)
NextItem(t, i) == CHOOSE j \in i..(Len(Tree[t]) + 1) :
                     j \notin gone[t] /\ \A k \in i..(j - 1) : k \in gone[t]

(* The head of send_files' loop, from position i.  Off Windows parent is a *)
(* PosixPath, which umsgpack.dumps refuses before anything is sent.        *)
LoopHead(t, i) ==
    LET j == NextItem(t, i) IN
    /\ item' = [item EXCEPT ![t] = j]
    /\ skipped' = [skipped EXCEPT ![t] = @ \cup i..(j - 1)]
    /\ sent' = [sent EXCEPT ![t] = 0]
    /\ IF j <= Len(Tree[t]) /\ ~build[t].windows
       THEN SenderEnds(t, "failed")
       ELSE /\ spc' = [spc EXCEPT ![t] = IF j > Len(Tree[t]) THEN "end" ELSE "code"]
            /\ UNCHANGED closed

(* _get_confirmation: any byte but b'\x00' confirms, and so does the end   *)
(* of the stream.                                                          *)
GetConfirmation(t) ==
    /\ spc[t] = "confirm"
    /\ acks[t] > 0 \/ "receiver" \in closed[t]
    /\ acks' = [acks EXCEPT ![t] = IF @ > 0 THEN @ - 1 ELSE 0]
    /\ LoopHead(t, 1)
    /\ UNCHANGED <<build, optimized, gone, wire, broken, rVars, breaks>>

Send(t, token) ==
    /\ ~broken[t]
    /\ "receiver" \notin closed[t]
    /\ Len(wire[t]) < SockBuf
    /\ wire' = [wire EXCEPT ![t] = Append(@, token)]

(* __send_code_parts: the code ...                                         *)
SendCode(t) ==
    /\ spc[t] = "code"
    /\ Send(t, Code(Tree[t][item[t]].kind))
    /\ spc' = [spc EXCEPT ![t] = "parts"]
    /\ UNCHANGED <<build, optimized, item, sent, gone, skipped, acks, closed, broken,
                   rVars, breaks>>

(* ... and the path.  After that of a directory comes the next item.       *)
SendParts(t) ==
    /\ spc[t] = "parts"
    /\ Send(t, Parts(Tree[t][item[t]].path))
    /\ IF Tree[t][item[t]].kind = "dir"
       THEN LoopHead(t, item[t] + 1)
       ELSE /\ spc' = [spc EXCEPT ![t] = "size"]
            /\ UNCHANGED <<item, sent, skipped, closed>>
    /\ UNCHANGED <<build, optimized, gone, acks, broken, rVars, breaks>>

(* The contents are sent: an assert reads the receiver's code, and with -O *)
(* nothing does.                                                           *)
FileSent(t) ==
    IF build[t].asserts
    THEN /\ spc' = [spc EXCEPT ![t] = "ack"]
         /\ UNCHANGED <<item, skipped, closed>> /\ sent' = [sent EXCEPT ![t] = 0]
    ELSE LoopHead(t, item[t] + 1)

(* _send_file_item: the size.  A file that is gone has none.               *)
SendSize(t) ==
    /\ spc[t] = "size"
    /\ item[t] \notin gone[t]
    /\ Send(t, SizeOf(Tree[t][item[t]].size))
    /\ IF Tree[t][item[t]].size = 0
       THEN FileSent(t)
       ELSE spc' = [spc EXCEPT ![t] = "chunk"] /\ UNCHANGED <<item, sent, skipped, closed>>
    /\ UNCHANGED <<build, optimized, gone, acks, broken, rVars, breaks>>

(* send_one_file, one chunk.                                               *)
SendChunk(t) ==
    /\ spc[t] = "chunk"
    /\ Send(t, Data(t, item[t], sent[t] + 1))
    /\ IF sent[t] + 1 = Tree[t][item[t]].size
       THEN FileSent(t)
       ELSE /\ sent' = [sent EXCEPT ![t] = @ + 1]
            /\ UNCHANGED <<spc, item, skipped, closed>>
    /\ UNCHANGED <<build, optimized, gone, acks, broken, rVars, breaks>>

(* The assert holds: the receiver has the file.                            *)
RecvAck(t) ==
    /\ spc[t] = "ack"
    /\ acks[t] > 0
    /\ acks' = [acks EXCEPT ![t] = @ - 1]
    /\ LoopHead(t, item[t] + 1)
    /\ UNCHANGED <<build, optimized, gone, wire, broken, rVars, breaks>>

(* The code that ends the transfer.                                        *)
SendEnd(t) ==
    /\ spc[t] = "end"
    /\ Send(t, Code("end"))
    /\ SenderEnds(t, "done")
    /\ UNCHANGED <<build, optimized, item, sent, gone, skipped, acks, broken,
                   rVars, breaks>>

(* A send or recv raises: the connection is reset, the receiver has closed *)
(* its end (the assert then gets b''), the file is gone, or the chunk was  *)
(* not taken in time.  Only a chunk has a timeout.                         *)
SenderRaises(t) ==
    /\ \/ spc[t] \in SenderOn \cup {"confirm"} /\ broken[t]
       \/ spc[t] \in SenderOn \ {"ack"} /\ "receiver" \in closed[t]
       \/ spc[t] = "ack" /\ acks[t] = 0 /\ "receiver" \in closed[t]
       \/ spc[t] = "size" /\ item[t] \in gone[t]
       \/ spc[t] = "chunk" /\ Len(wire[t]) = SockBuf
    /\ SenderEnds(t, "failed")
    /\ UNCHANGED <<build, optimized, item, sent, gone, skipped, wire, acks, broken,
                   rVars, breaks>>

-----------------------------------------------------------------------------
(* The receiving task *)

(* Mutant: the name is not looked up before the directory is made.         *)
NoIncrementMutant(name) == name

(* rename_directory_with_increment: the first of d, d(1), d(2)... that is  *)
(* not there.                                                              *)
IncrementedName(name) ==
    IF ~Exists(<<name>>) THEN name
    ELSE LET n == CHOOSE n \in 1..(Cardinality(Transfer) + Cardinality(DOMAIN SavedFiles)) :
                     /\ ~Exists(<<Append(name, n)>>)
                     /\ \A k \in 1..(n - 1) : Exists(<<Append(name, k)>>)
         IN Append(name, n)

(* DirConnectionHandler up to its first await.  It raises outside its try, *)
(* with the connection open, when the peer is not known, and, unless       *)
(* asserts are off, in connection_made: the Receiver that is asserted      *)
(* there is the transfer, not the connection's.                            *)
HandleConnection(t) ==
    /\ rpc[t] = "idle"
    /\ spc[t] = "confirm"
    /\ \/ /\ rpc' = [rpc EXCEPT ![t] = "raised"]
          /\ UNCHANGED <<root, dirs>>
       \/ LET name == IncrementedName(DirName[t]) IN
          /\ rpc' = [rpc EXCEPT ![t] = IF optimized THEN "confirm" ELSE "raised"]
          /\ root' = [root EXCEPT ![t] = <<name>>]
          /\ dirs' = dirs \cup {<<name>>}
    /\ UNCHANGED <<build, optimized, sVars, gone, wire, acks, closed, broken,
                   current, book, files, breaks>>

(* A byte goes back to the sender.                                         *)
SendBack(t) ==
    /\ ~broken[t]
    /\ acks[t] < AckBuf
    /\ acks' = [acks EXCEPT ![t] = @ + 1]

(* The confirmation; then the handle is booked and recv_files starts.      *)
Confirm(t) ==
    /\ rpc[t] = "confirm"
    /\ SendBack(t)
    /\ rpc' = [rpc EXCEPT ![t] = "code"]
    /\ book' = [book EXCEPT ![t] = "current"]
    /\ UNCHANGED <<build, optimized, sVars, gone, wire, closed, broken,
                   root, current, dirs, files, breaks>>

Recv(t, kind) ==
    /\ wire[t] # <<>>
    /\ Head(wire[t]).kind = kind
    /\ wire' = [wire EXCEPT ![t] = Tail(@)]

Eof(t) == wire[t] = <<>> /\ "sender" \in closed[t]

ReceiverEnds(t, how) ==
    /\ rpc' = [rpc EXCEPT ![t] = how]
    /\ closed' = [closed EXCEPT ![t] = @ \cup {"receiver"}]

(* _should_proceed with a code that announces an item.                     *)
RecvCode(t) ==
    /\ rpc[t] = "code"
    /\ Recv(t, "code")
    /\ Head(wire[t]).what # "end"
    /\ rpc' = [rpc EXCEPT ![t] = IF Head(wire[t]).what = "dir" THEN "path" ELSE "parts"]
    /\ UNCHANGED <<build, optimized, sVars, gone, acks, closed, broken,
                   root, current, book, dirs, files, breaks>>

(* _should_proceed with the end code, and equally with the end of the      *)
(* stream: the directory counts as received.                               *)
DirectoryReceived(t) ==
    /\ rpc[t] = "code"
    /\ \/ Recv(t, "code") /\ Head(wire[t]).what = "end"
       \/ Eof(t) /\ ~broken[t] /\ UNCHANGED wire
    /\ ReceiverEnds(t, "ended")
    /\ book' = [book EXCEPT ![t] = "completed"]
    /\ UNCHANGED <<build, optimized, sVars, gone, acks, broken,
                   root, current, dirs, files, breaks>>

(* recv_files at a path: mkdir, which does not take one that is there.     *)
RecvPath(t) ==
    /\ rpc[t] = "path"
    /\ Recv(t, "parts")
    /\ LET p == root[t] \o Head(wire[t]).what IN
        IF Exists(p)
        THEN ReceiverEnds(t, "failed") /\ UNCHANGED dirs
        ELSE /\ dirs' = dirs \cup {p}
             /\ rpc' = [rpc EXCEPT ![t] = "code"]
             /\ UNCHANGED closed
    /\ UNCHANGED <<build, optimized, sVars, gone, acks, broken,
                   root, current, book, files, breaks>>

(* Mutant: the code goes back as soon as the path of the file is known.    *)
EarlyAckMutant(t) ==
    /\ rpc[t] = "parts"
    /\ Recv(t, "parts")
    /\ SendBack(t)
    /\ current' = [current EXCEPT ![t] = [NoFile EXCEPT !.path = root[t] \o Head(wire[t]).what]]
    /\ rpc' = [rpc EXCEPT ![t] = "size"]
    /\ UNCHANGED <<build, optimized, sVars, gone, closed, broken,
                   root, book, dirs, files, breaks>>

(* _recv_file_item: the path ...                                           *)
RecvParts(t) ==
    /\ rpc[t] = "parts"
    /\ Recv(t, "parts")
    /\ current' = [current EXCEPT ![t] = [NoFile EXCEPT !.path = root[t] \o Head(wire[t]).what]]
    /\ rpc' = [rpc EXCEPT ![t] = "size"]
    /\ UNCHANGED <<build, optimized, sVars, gone, acks, closed, broken,
                   root, book, dirs, files, breaks>>

(* validatename: the name is made unique in the root of the transfer,      *)
(* whatever directory of it the file goes to.                              *)
ValidName(t, p) ==
    LET taken(name) == Exists(Append(root[t], name))
        name == Last(p)
    IN IF ~taken(name) THEN p
       ELSE LET n == CHOOSE n \in 1..(Len(Tree[t]) + 1) :
                        /\ ~taken(Append(name, n))
                        /\ \A k \in 1..(n - 1) : taken(Append(name, k))
            IN Append(Front(p), Append(name, n))

Create(p) == files' = [q \in DOMAIN files \cup {p} |-> IF q = p THEN <<>> ELSE files[q]]

(* Mutant: the file is opened with "wb".                                   *)
TruncatesMutant(t, p) ==
    /\ Create(p)
    /\ rpc' = [rpc EXCEPT ![t] = "chunk"]
    /\ UNCHANGED closed

(* open(path, 'xb') of _setup_transfer: an error if the path is there.     *)
OpenNew(t, p) ==
    IF Exists(p)
    THEN ReceiverEnds(t, "failed") /\ UNCHANGED files
    ELSE /\ Create(p)
         /\ rpc' = [rpc EXCEPT ![t] = "chunk"]
         /\ UNCHANGED closed

(* path.touch(exist_ok=True) of _recv_file_once.                           *)
Touch(t, p) ==
    /\ IF Exists(p) THEN UNCHANGED files ELSE Create(p)
    /\ rpc' = [rpc EXCEPT ![t] = "ack"]
    /\ UNCHANGED closed

(* ... and the size.  An empty file is only touched; the contents of any   *)
(* other go into a new file with a valid name.                             *)
RecvSize(t) ==
    /\ rpc[t] = "size"
    /\ Recv(t, "size")
    /\ LET n == Head(wire[t]).what
           p == IF n = 0 THEN current[t].path ELSE ValidName(t, current[t].path)
       IN /\ current' = [current EXCEPT ![t] = [path |-> p, size |-> n, seeked |-> 0]]
          /\ IF n = 0 THEN Touch(t, p) ELSE OpenNew(t, p)
    /\ UNCHANGED <<build, optimized, sVars, gone, acks, broken, root, book, dirs, breaks>>

(* recv_file_contents, one chunk.                                          *)
RecvChunk(t) ==
    /\ rpc[t] = "chunk"
    /\ Recv(t, "data")
    /\ files' = [files EXCEPT ![current[t].path] = Append(@, Head(wire[t]).what)]
    /\ current' = [current EXCEPT ![t].seeked = @ + 1]
    /\ rpc' = [rpc EXCEPT ![t] = IF current[t].seeked + 1 = current[t].size THEN "ack" ELSE "chunk"]
    /\ UNCHANGED <<build, optimized, sVars, gone, acks, closed, broken,
                   root, book, dirs, breaks>>

(* Mutant: the code goes back only for a file that has contents.           *)
SilentMutant(t) ==
    /\ rpc[t] = "ack"
    /\ IF current[t].size > 0 THEN SendBack(t) ELSE UNCHANGED acks
    /\ rpc' = [rpc EXCEPT ![t] = "code"]
    /\ UNCHANGED <<build, optimized, sVars, gone, wire, closed, broken,
                   root, current, book, dirs, files, breaks>>

(* recv_files after a file: its code goes back.                            *)
SendAck(t) ==
    /\ rpc[t] = "ack"
    /\ SendBack(t)
    /\ rpc' = [rpc EXCEPT ![t] = "code"]
    /\ UNCHANGED <<build, optimized, sVars, gone, wire, closed, broken,
                   root, current, book, dirs, files, breaks>>

(* A recv or send raises, or recv returned fewer bytes than were asked     *)
(* for, or none in the middle of an item.  The file in hand stays as it    *)
(* is, and so does the book.                                               *)
ReceiverRaises(t) ==
    /\ rpc[t] \in ReceiverOn
    /\ \/ broken[t]
       \/ rpc[t] \in {"parts", "path", "size"} /\ wire[t] # <<>>
       \/ rpc[t] \in {"parts", "path", "size", "chunk"} /\ Eof(t)
    /\ ReceiverEnds(t, "failed")
    /\ UNCHANGED <<build, optimized, sVars, gone, wire, acks, broken,
                   root, current, book, dirs, files, breaks>>

-----------------------------------------------------------------------------
(* The network and the sender's disk *)

(* The network resets the connection, or an end does that was closed with  *)
(* bytes it had not read.                                                  *)
Break(t) ==
    /\ ~broken[t]
    /\ spc[t] # "idle"
    /\ \/ /\ breaks < MaxBreaks
          /\ breaks' = breaks + 1
       \/ /\ \/ "sender" \in closed[t] /\ acks[t] > 0
             \/ "receiver" \in closed[t] /\ wire[t] # <<>>
          /\ UNCHANGED breaks
    /\ broken' = [broken EXCEPT ![t] = TRUE]
    /\ UNCHANGED <<build, optimized, sVars, gone, wire, acks, closed, rVars>>

(* A file that is not open is deleted while its directory is being sent.   *)
DeleteFile(t, i) ==
    /\ Cardinality(UNION {{u} \X gone[u] : u \in Transfer}) < MaxGone
    /\ Tree[t][i].kind = "file"
    /\ spc[t] \in SenderOn
    /\ i > item[t] \/ (i = item[t] /\ spc[t] \in {"code", "parts", "size"})
    /\ gone' = [gone EXCEPT ![t] = @ \cup {i}]
    /\ UNCHANGED <<build, optimized, sVars, wire, acks, closed, broken, rVars, breaks>>

Sender(t) ==
    \/ GetConfirmation(t) \/ SendCode(t) \/ SendParts(t) \/ SendSize(t)
    \/ SendChunk(t) \/ RecvAck(t) \/ SendEnd(t) \/ SenderRaises(t)

Receiver(t) ==
    \/ HandleConnection(t) \/ Confirm(t) \/ RecvCode(t) \/ DirectoryReceived(t)
    \/ RecvPath(t) \/ RecvParts(t) \/ RecvSize(t) \/ RecvChunk(t) \/ SendAck(t)
    \/ ReceiverRaises(t)

Next ==
    \E t \in Transfer :
        \/ SendDirectory(t) \/ ConnectFails(t)
        \/ Sender(t) \/ Receiver(t)
        \/ Break(t)
        \/ \E i \in 1..Len(Tree[t]) : DeleteFile(t, i)

(* The event loops run what is ready.                                      *)
Fairness == \A t \in Transfer : WF_vars(Sender(t)) /\ WF_vars(Receiver(t))

Spec == Init /\ [][Next]_vars /\ Fairness

-----------------------------------------------------------------------------
Contents(t, i) == [u \in 1..Tree[t][i].size |-> <<t, i, u>>]

(* The file is where it belongs, whole, though perhaps under another name. *)
Stored(t, i) ==
    \E p \in DOMAIN files :
        /\ Front(p) = root[t] \o Front(Tree[t][i].path)
        /\ files[p] = Contents(t, i)

(* A directory made for a transfer holds files of that transfer only, each *)
(* with the bytes of one file of the sender's tree in order, and each of   *)
(* them whole unless it is the one at which the receiver is or failed.     *)
Intact ==
    \A t \in Transfer : \A p \in DOMAIN files :
        root[t] # <<>> /\ IsPrefix(root[t], p) =>
            \E i \in 1..Len(Tree[t]) :
                /\ IsPrefix(files[p], Contents(t, i))
                /\ files[p] = Contents(t, i) \/ p = current[t].path

(* A sender that reads the codes (its asserts are not switched off) is     *)
(* past a file only when the receiver has stored it whole; so, when        *)
(* send_directory has returned, everything it found is there.              *)
SentMeansStored ==
    \A t \in Transfer :
        build[t].asserts /\ spc[t] \in SenderOn \cup {"done"} =>
            \A i \in 1..(item[t] - 1) \ skipped[t] :
                \/ Tree[t][i].kind = "dir"
                \/ Tree[t][i].size = 0 /\ Exists(root[t] \o Tree[t][i].path)
                \/ Stored(t, i)

(* "incoming directory transfers do not overwrite existing data": a file   *)
(* of the download directory is never emptied or removed, and only the     *)
(* transfer that is at it appends to it.                                   *)
NothingOverwritten ==
    [][\A p \in DOMAIN files :
         /\ p \in DOMAIN files'
         /\ IsPrefix(files[p], files'[p])
         /\ files'[p] # files[p] => \E t \in Transfer : rpc[t] = "chunk" /\ current[t].path = p]_vars

(* Once the receiver has taken the connection up, both tasks end, whatever *)
(* fails, if the sender reads the codes.  A sender that does not (-O) can  *)
(* rely on it only while the codes fit into the buffers of the connection. *)
FileCount(t) == Cardinality({i \in 1..Len(Tree[t]) : Tree[t][i].kind = "file"})
Ends ==
    \A t \in Transfer :
        (rpc[t] = "confirm" /\ (build[t].asserts \/ FileCount(t) <= AckBuf))
            ~> (spc[t] \in {"done", "failed"} /\ rpc[t] \in {"ended", "failed"})
=============================================================================
