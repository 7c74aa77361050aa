---------------------------- MODULE FileTransfer ----------------------------
(***************************************************************************)
(* One file transfer between two peers: transfers/files/sender.py and      *)
(* receiver.py, the managers that run them (managers/filemanager.py), the  *)
(* book each side keeps (avails/container.py) and the TCP stream between.  *)
(*                                                                         *)
(* The two tasks interleave at every await.  The user calls pause, resume, *)
(* cancel and send_files_to_peer at any such point.  The stream is the     *)
(* append-only sequence `log' of which the receiver has consumed `rd'      *)
(* elements; a file is Size[f] units long, a chunk is ChunkLen units.      *)
(***************************************************************************)
EXTENDS Integers, Sequences

CONSTANTS
  NFiles,        \* files that may ever be in Sender.file_list
  InitialCount,  \* how many of them the constructor is given
  Size,          \* Size[f]: length of file f in units
  ChunkLen,      \* calculate_chunk_size, in units
  SockBuf,       \* bound: stream elements the two socket buffers hold
  Asserts,       \* FALSE: the interpreter runs with -O and skips assert
  Faulty,        \* the network, the disks and the clocks may fail
  Interactive    \* the user may pause, resume, cancel and attach

Files == 1..NFiles

ASSUME SizesAssumption ==
  /\ NFiles \in Nat
  /\ InitialCount \in Files
  /\ Size \in [Files -> Nat]
ASSUME BoundsAssumption == ChunkLen \in Nat \ {0} /\ SockBuf \in Nat \ {0}
ASSUME SwitchesAssumption ==
  Asserts \in BOOLEAN /\ Faulty \in BOOLEAN /\ Interactive \in BOOLEAN

TransferState == {"PREPARING", "CONNECTING", "SENDING", "RECEIVING", "PAUSED",
                  "ABORTING", "COMPLETED"}
Books == {"none", "current", "continued", "completed"}

More == [kind |-> "more", file |-> 0, unit |-> 0]              \* b'\x01'
End == [kind |-> "end", file |-> 0, unit |-> 0]                \* b'\x00'
Item(f) == [kind |-> "item", file |-> f, unit |-> 0]           \* bytes(FileItem)
Data(f, u) == [kind |-> "data", file |-> f, unit |-> u]        \* u-th unit of f
Token == [kind : {"more", "end", "item", "data"}, file : Nat, unit : Nat]

VARIABLES
  sState, sPc,   \* Sender.state and where its task awaits
  sList,         \* len(Sender.file_list)
  sEnd,          \* end of the range evaluated when send_files starts
  sIdx,          \* Sender._current_file_index, from 1
  sSeeked,       \* FileItem.seeked of each file
  sOff,          \* units of the chunk in hand already in the stream
  sStop,         \* Sender.to_stop
  sOpen,         \* the limiter Event of the sender's connection is set
  sPast,         \* the send or recv awaited now has passed that limiter
  sBook,         \* where the sender's TransfersBookKeeper holds the handle
  rState, rPc, rFile, rSeeked, rStop, rOpen, rPast, rBook,
  disk,          \* what the receiver has written of each file
  log, rd,       \* the stream and how much of it was received
  conn,          \* "none", "offered" (dialled, handshake sent), "accepted"
  sClosed, rClosed, broken,  \* each end's close, and a reset connection
  calm           \* in this execution nothing fails and the user lets it run

sVars == <<sState, sPc, sList, sEnd, sIdx, sSeeked, sOff, sStop, sOpen, sPast, sBook>>
rVars == <<rState, rPc, rFile, rSeeked, rStop, rOpen, rPast, rBook, disk>>
vars == <<sState, sPc, sList, sEnd, sIdx, sSeeked, sOff, sStop, sOpen, sPast, sBook,
          rState, rPc, rFile, rSeeked, rStop, rOpen, rPast, rBook, disk,
          log, rd, conn, sClosed, rClosed, broken, calm>>

(* What the environment may do in this execution. *)
Fails == Faulty /\ ~calm
Meddles == Interactive /\ ~calm

SendPcs == {"flag", "item", "chunk", "end"}
RecvPcs == {"flag", "item", "chunk"}

Init ==
  /\ sState = "PREPARING" /\ sPc = "idle" /\ sList = InitialCount /\ sEnd = 0
  /\ sIdx = 1 /\ sSeeked = [f \in Files |-> 0] /\ sOff = 0 /\ sStop = FALSE
  /\ sOpen = TRUE /\ sPast = FALSE /\ sBook = "none"
  /\ rState = "PREPARING" /\ rPc = "idle" /\ rFile = 0 /\ rSeeked = 0
  /\ rStop = FALSE /\ rOpen = TRUE /\ rPast = FALSE /\ rBook = "none"
  /\ disk = [f \in Files |-> <<>>]
  /\ log = <<>> /\ rd = 0 /\ conn = "none"
  /\ sClosed = FALSE /\ rClosed = FALSE /\ broken = FALSE
  /\ calm \in BOOLEAN

-----------------------------------------------------------------------------
(* The sending task *)

\* Mutant: a paused transfer is filed as completed.
SendFinalizeMutant(st) ==
  IF st \in {"COMPLETED", "ABORTING", "PAUSED", "CONNECTING"} THEN "completed" ELSE sBook

\* _send_finalize: which book a handle that ends in state st moves to.
SendFinalize(st) ==
  CASE st \in {"COMPLETED", "ABORTING"} -> "completed"
    [] st \in {"PAUSED", "CONNECTING"}  -> "continued"
    [] OTHER                            -> sBook

\* The task leaves send_files_to_peer in state st: the connection's with block
\* closes the socket and the finally clause files the handle.
SenderExit(st) ==
  /\ sState' = st /\ sPc' = "ended" /\ sClosed' = TRUE /\ sPast' = FALSE
  /\ sBook' = SendFinalize(st)

\* First call for the peer: _send_setup, then prepare_connection starts to dial.
SendFilesToPeer ==
  /\ sPc = "idle"
  /\ sState' = "CONNECTING" /\ sPc' = "connect" /\ sBook' = "current"
  /\ UNCHANGED <<sList, sEnd, sIdx, sSeeked, sOff, sStop, sOpen, sPast,
                 rVars, log, rd, conn, sClosed, rClosed, broken, calm>>

\* connect_to_peer succeeded: handshake sent, connection_made.
Connected ==
  /\ sPc = "connect"
  /\ sPc' = "accept" /\ sPast' = TRUE /\ conn' = "offered"
  /\ UNCHANGED <<sState, sList, sEnd, sIdx, sSeeked, sOff, sStop, sOpen, sBook,
                 rVars, log, rd, sClosed, rClosed, broken, calm>>

\* connect_to_peer raised OSError.
ConnectFails ==
  /\ sPc = "connect" /\ Fails
  /\ SenderExit(IF sState = "PAUSED" THEN "PAUSED" ELSE "PREPARING")
  /\ UNCHANGED <<sList, sEnd, sIdx, sSeeked, sOff, sStop, sOpen,
                 rVars, log, rd, conn, rClosed, broken, calm>>

\* Mutant: the range stops one file early.
LoopHeadShort(i, end) ==
  /\ IF sStop \/ i >= end
       THEN sPc' = "end" /\ UNCHANGED sIdx
       ELSE sPc' = "flag" /\ sIdx' = i
  /\ sPast' = sOpen

\* The head of the loop over file_list, at position i: no await before the flag.
LoopHead(i, end) ==
  /\ IF sStop \/ i > end
       THEN sPc' = "end" /\ UNCHANGED sIdx
       ELSE sPc' = "flag" /\ sIdx' = i
  /\ sPast' = sOpen

\* The accept byte, or end of file (which != b'\x00'): send_files starts and
\* fixes the range of files.
Accepted ==
  /\ sPc = "accept" /\ sPast
  /\ conn = "accepted" \/ rClosed
  /\ sState' = "SENDING" /\ sEnd' = sList
  /\ LoopHead(sIdx, sList)
  /\ UNCHANGED <<sList, sSeeked, sOff, sStop, sOpen, sBook,
                 rVars, log, rd, conn, sClosed, rClosed, broken, calm>>

\* wait_for(recv_func(1)) timed out or failed: TransferIncomplete, state kept.
AcceptFails ==
  /\ sPc = "accept" /\ (broken \/ Fails \/ ~sPast)
  /\ SenderExit(sState)
  /\ UNCHANGED <<sList, sEnd, sIdx, sSeeked, sOff, sStop, sOpen,
                 rVars, log, rd, conn, rClosed, broken, calm>>

Room == Len(log) - rd < SockBuf

Send(t) == sPast /\ Room /\ log' = Append(log, t)

SendFlag ==
  /\ sPc = "flag" /\ Send(More)
  /\ sPc' = "item" /\ sPast' = sOpen
  /\ UNCHANGED <<sState, sList, sEnd, sIdx, sSeeked, sOff, sStop, sOpen, sBook,
                 rVars, rd, conn, sClosed, rClosed, broken, calm>>

\* The file item, then send_actual_file opens and maps the file.  mmap of an
\* empty file raises ValueError, which handle_exception re-raises as it is.
SendItem ==
  /\ sPc = "item" /\ Send(Item(sIdx))
  /\ \/ /\ Size[sIdx] > 0
        /\ sPc' = "read" /\ sPast' = FALSE /\ UNCHANGED <<sState, sBook, sClosed>>
     \/ /\ Size[sIdx] = 0 /\ SenderExit(sState)
     \/ /\ Fails /\ SenderExit("PAUSED")          \* open raised OSError
  /\ UNCHANGED <<sList, sEnd, sIdx, sSeeked, sOff, sStop, sOpen,
                 rVars, rd, conn, rClosed, broken, calm>>

\* The chunk was read in the thread pool; send_func is called.
ReadChunk ==
  /\ sPc = "read"
  /\ sPc' = "chunk" /\ sPast' = sOpen /\ sOff' = 0
  /\ UNCHANGED <<sState, sList, sEnd, sIdx, sSeeked, sStop, sOpen, sBook,
                 rVars, log, rd, conn, sClosed, rClosed, broken, calm>>

\* Mutant: the last chunk is not cut at the end of the file.
ChunkEndMutant(f) == ChunkLen

ChunkEnd(f) ==
  IF sSeeked[f] + ChunkLen < Size[f] THEN ChunkLen ELSE Size[f] - sSeeked[f]

\* sock_sendall moves the chunk into the socket unit by unit; when all of it is
\* there, seeked advances and the loop over chunks or files goes on.
SendChunk ==
  /\ sPc = "chunk" /\ Send(Data(sIdx, sSeeked[sIdx] + sOff + 1))
  /\ IF sOff + 1 < ChunkEnd(sIdx)
       THEN sOff' = sOff + 1 /\ UNCHANGED <<sPc, sPast, sIdx, sSeeked>>
       ELSE /\ sOff' = 0
            /\ sSeeked' = [sSeeked EXCEPT ![sIdx] = @ + sOff + 1]
            /\ IF sSeeked[sIdx] + sOff + 1 < Size[sIdx] /\ ~sStop
                 THEN sPc' = "read" /\ sPast' = FALSE /\ UNCHANGED sIdx
                 ELSE LoopHead(sIdx + 1, sEnd)
  /\ UNCHANGED <<sState, sList, sEnd, sStop, sOpen, sBook,
                 rVars, rd, conn, sClosed, rClosed, broken, calm>>

\* Mutant: files attached meanwhile are sent after the end flag.
SendEndMutant ==
  /\ sPc = "end" /\ Send(End)
  /\ IF sList > sEnd
       THEN sEnd' = sList /\ LoopHead(sEnd + 1, sList)
            /\ UNCHANGED <<sState, sClosed, sBook>>
       ELSE SenderExit("COMPLETED") /\ UNCHANGED <<sEnd, sIdx>>
  /\ UNCHANGED <<sList, sSeeked, sOff, sStop, sOpen, rVars, rd, conn, rClosed, broken, calm>>

SendEnd ==
  /\ sPc = "end" /\ Send(End)
  /\ SenderExit("COMPLETED")
  /\ UNCHANGED <<sList, sEnd, sIdx, sSeeked, sOff, sStop, sOpen,
                 rVars, rd, conn, rClosed, broken, calm>>

\* A send raises OSError (wait_for's TimeoutError is
\* one): handle_exception pauses the handle and raises TransferIncomplete.
SendFails ==
  /\ \/ sPc \in SendPcs /\ (broken \/ rClosed)
     \/ sPc = "chunk" /\ (~sPast \/ (Fails /\ ~Room))    \* 10 s without progress
  /\ SenderExit("PAUSED")
  /\ UNCHANGED <<sList, sEnd, sIdx, sSeeked, sOff, sStop, sOpen,
                 rVars, log, rd, conn, rClosed, broken, calm>>

-----------------------------------------------------------------------------
(* The receiving task *)

\* The finally clause of file_receiver.
ReceiveFinalize(st) ==
  CASE st = "COMPLETED" -> "completed"
    [] st = "PAUSED"    -> "continued"
    [] OTHER            -> rBook

ReceiverExit(st) ==
  /\ rState' = st /\ rPc' = "ended" /\ rClosed' = TRUE /\ rPast' = FALSE
  /\ rBook' = ReceiveFinalize(st)

\* FileConnectionHandler: accept byte, connection_made, recv_files up to its
\* first recv.  connection_made asserts isinstance(receiver, Receiver), where
\* Receiver is files.Receiver and the argument a connect.Receiver.
FileConnection ==
  /\ rPc = "idle" /\ conn = "offered" /\ ~rClosed /\ ~broken
  /\ conn' = "accepted"
  /\ IF Asserts
       THEN rPc' = "assertion" /\ rClosed' = TRUE /\ UNCHANGED <<rState, rBook, rPast>>
       ELSE /\ rPc' = "flag" /\ rState' = "RECEIVING" /\ rBook' = "current"
            /\ rPast' = TRUE /\ UNCHANGED rClosed
  /\ UNCHANGED <<sVars, rFile, rSeeked, rStop, rOpen, disk, log, rd, sClosed, broken, calm>>

\* The acceptor closes the connection without a handler (failed handshake).
Refuse ==
  /\ Fails /\ conn = "offered" /\ ~rClosed
  /\ rClosed' = TRUE
  /\ UNCHANGED <<sVars, rVars, log, rd, conn, sClosed, broken, calm>>

Available == rPast /\ rd < Len(log)
AtEof == rPast /\ rd = Len(log) /\ sClosed /\ ~broken

\* _should_proceed is called again: it returns at once when to_stop is set.
NextFlag ==
  IF rStop THEN ReceiverExit("COMPLETED")
  ELSE rPc' = "flag" /\ rPast' = rOpen /\ UNCHANGED <<rState, rBook, rClosed>>

\* _should_proceed: to_stop, the end flag and end of file all end the loop.
RecvFlag ==
  /\ rPc = "flag"
  /\ \/ /\ Available /\ rd' = rd + 1
        /\ IF rStop \/ log[rd + 1] = End
             THEN ReceiverExit("COMPLETED")
             ELSE rPc' = "item" /\ rPast' = rOpen /\ UNCHANGED <<rState, rBook, rClosed>>
     \/ AtEof /\ UNCHANGED rd /\ ReceiverExit("COMPLETED")
  /\ UNCHANGED <<sVars, rFile, rSeeked, rStop, rOpen, disk, log, conn, sClosed, broken, calm>>

\* _recv_file_once: the item, then an empty file is touched and any other opened.
RecvItem ==
  /\ rPc = "item" /\ Available /\ log[rd + 1].kind = "item"
  /\ rd' = rd + 1 /\ rFile' = log[rd + 1].file /\ rSeeked' = 0
  /\ IF Size[log[rd + 1].file] = 0 THEN NextFlag
     ELSE rPc' = "chunk" /\ rPast' = rOpen /\ UNCHANGED <<rState, rBook, rClosed>>
  /\ UNCHANGED <<sVars, rStop, rOpen, disk, log, conn, sClosed, broken, calm>>

\* A recv that returned fewer bytes than asked.  A short length is a ValueError,
\* turned into TransferIncomplete; a short body fails to unpack and is re-raised
\* with the state as it is.  End of file is the shortest read.
RecvItemShort ==
  /\ rPc = "item" /\ rPast
  /\ (Fails /\ rd < Len(log)) \/ AtEof
  /\ \E st \in {"PAUSED", rState} : ReceiverExit(st)
  /\ UNCHANGED <<sVars, rFile, rSeeked, rStop, rOpen, disk, log, rd, conn, sClosed, broken, calm>>

\* Mutant: the end of the file is noticed one unit late.
RecvDataMutant ==
  /\ rPc = "chunk" /\ Available
  /\ rd' = rd + 1 /\ rSeeked' = rSeeked + 1
  /\ disk' = [disk EXCEPT ![rFile] = Append(@, log[rd + 1])]
  /\ IF rStop \/ rSeeked = Size[rFile] THEN NextFlag
     ELSE rPast' = rOpen /\ UNCHANGED <<rPc, rState, rBook, rClosed>>
  /\ UNCHANGED <<sVars, rFile, rStop, rOpen, log, conn, sClosed, broken, calm>>

\* recv_file_contents: whatever arrives is written at the current position.
RecvData ==
  /\ rPc = "chunk" /\ Available
  /\ rd' = rd + 1 /\ rSeeked' = rSeeked + 1
  /\ disk' = [disk EXCEPT ![rFile] = Append(@, log[rd + 1])]
  /\ IF rStop \/ rSeeked + 1 = Size[rFile] THEN NextFlag
     ELSE rPast' = rOpen /\ UNCHANGED <<rPc, rState, rBook, rClosed>>
  /\ UNCHANGED <<sVars, rFile, rStop, rOpen, log, conn, sClosed, broken, calm>>

\* End of file inside a file: TransferIncomplete raised directly (state kept),
\* unless the receiver was cancelled.
RecvDataEof ==
  /\ rPc = "chunk" /\ AtEof
  /\ ReceiverExit(IF rStop THEN "COMPLETED" ELSE rState)
  /\ UNCHANGED <<sVars, rFile, rSeeked, rStop, rOpen, disk, log, rd, conn, sClosed, broken, calm>>

\* recv, or the write to disk, raises OSError.
RecvFails ==
  /\ rPc \in RecvPcs
  /\ \/ rPast /\ broken
     \/ rPc = "chunk" /\ Available /\ Fails
  /\ ReceiverExit("PAUSED")
  /\ UNCHANGED <<sVars, rFile, rSeeked, rStop, rOpen, disk, log, rd, conn, sClosed, broken, calm>>

-----------------------------------------------------------------------------
(* The user, at either end, and the network *)

\* PauseMixIn.pause: any state becomes PAUSED; before connection_made send_func
\* is None and the call raises after the assignment.
PauseSender ==
  /\ Meddles /\ sPc # "idle" /\ (sState # "PAUSED" \/ sOpen)
  /\ sState' = "PAUSED"
  /\ sOpen' = IF conn = "none" THEN sOpen ELSE FALSE
  /\ UNCHANGED <<sPc, sList, sEnd, sIdx, sSeeked, sOff, sStop, sPast, sBook,
                 rVars, log, rd, conn, sClosed, rClosed, broken, calm>>

\* Mutant: the waiting call is not woken.
ResumeSenderMutant ==
  /\ Meddles /\ sState = "PAUSED"
  /\ sState' = "SENDING" /\ sOpen' = TRUE
  /\ UNCHANGED <<sPc, sList, sEnd, sIdx, sSeeked, sOff, sStop, sPast, sBook,
                 rVars, log, rd, conn, sClosed, rClosed, broken, calm>>

\* Event.set wakes the call that waits on the limiter.
ResumeSender ==
  /\ Meddles /\ sState = "PAUSED"
  /\ sState' = "SENDING" /\ sOpen' = TRUE
  /\ sPast' = (sPc \in SendPcs \cup {"accept"})
  /\ UNCHANGED <<sPc, sList, sEnd, sIdx, sSeeked, sOff, sStop, sBook,
                 rVars, log, rd, conn, sClosed, rClosed, broken, calm>>

\* Sender.cancel: to_stop is set, then Task.set_exception raises RuntimeError.
CancelSender ==
  /\ Meddles /\ sState \in {"SENDING", "PAUSED"} /\ ~sStop
  /\ sStop' = TRUE
  /\ UNCHANGED <<sState, sPc, sList, sEnd, sIdx, sSeeked, sOff, sOpen, sPast, sBook,
                 rVars, log, rd, conn, sClosed, rClosed, broken, calm>>

\* send_files_to_peer while check_running finds this handle: attach_files.
AttachFiles ==
  /\ Meddles /\ sBook = "current" /\ sState \in {"SENDING", "PAUSED"}
  /\ sList < NFiles /\ sList' = sList + 1
  /\ UNCHANGED <<sState, sPc, sEnd, sIdx, sSeeked, sOff, sStop, sOpen, sPast, sBook,
                 rVars, log, rd, conn, sClosed, rClosed, broken, calm>>

PauseReceiver ==
  /\ Meddles /\ rPc \notin {"idle", "assertion"} /\ (rState # "PAUSED" \/ rOpen)
  /\ rState' = "PAUSED" /\ rOpen' = FALSE
  /\ UNCHANGED <<sVars, rPc, rFile, rSeeked, rStop, rPast, rBook, disk,
                 log, rd, conn, sClosed, rClosed, broken, calm>>

ResumeReceiver ==
  /\ Meddles /\ rState = "PAUSED"
  /\ rState' = "RECEIVING" /\ rOpen' = TRUE /\ rPast' = (rPc \in RecvPcs)
  /\ UNCHANGED <<sVars, rPc, rFile, rSeeked, rStop, rBook, disk,
                 log, rd, conn, sClosed, rClosed, broken, calm>>

CancelReceiver ==
  /\ Meddles /\ rState \in {"RECEIVING", "PAUSED"} /\ ~rStop
  /\ rStop' = TRUE
  /\ UNCHANGED <<sVars, rState, rPc, rFile, rSeeked, rOpen, rPast, rBook, disk,
                 log, rd, conn, sClosed, rClosed, broken, calm>>

\* The connection is reset; what the receiver's kernel already holds may still
\* be read or may be lost.
Break ==
  /\ Fails /\ conn # "none" /\ ~broken /\ ~(sClosed /\ rClosed)
  /\ broken' = TRUE
  /\ UNCHANGED <<sVars, rVars, log, rd, conn, sClosed, rClosed, calm>>

\* Both tasks are over (or the connection never reached the receiver).
Finished == sPc = "ended" /\ rPc \in {"idle", "assertion", "ended"} /\ UNCHANGED vars

Sending == SendFilesToPeer \/ Connected \/ ConnectFails \/ Accepted \/ AcceptFails
           \/ SendFlag \/ SendItem \/ ReadChunk \/ SendChunk \/ SendEnd \/ SendFails
Receiving == FileConnection \/ Refuse \/ RecvFlag \/ RecvItem \/ RecvItemShort \/ RecvData
             \/ RecvDataEof \/ RecvFails
User == PauseSender \/ ResumeSender \/ CancelSender \/ AttachFiles
        \/ PauseReceiver \/ ResumeReceiver \/ CancelReceiver

Next == Sending \/ Receiving \/ User \/ Break \/ Finished

Spec == Init /\ [][Next]_vars

\* The event loop runs every ready task, a pending send or recv returns or
\* raises, and the acceptor serves the connection.
FairSpec == Spec /\ WF_vars(Sending) /\ WF_vars(Receiving)

-----------------------------------------------------------------------------
(* Properties *)

TypeOK ==
  /\ sState \in TransferState /\ sList \in Files /\ sEnd \in 0..NFiles
  /\ sPc \in SendPcs \cup {"idle", "connect", "accept", "read", "ended"}
  /\ sIdx \in Files /\ sSeeked \in [Files -> Nat] /\ sOff \in Nat
  /\ sStop \in BOOLEAN /\ sOpen \in BOOLEAN /\ sPast \in BOOLEAN /\ sBook \in Books
  /\ rState \in TransferState /\ rPc \in RecvPcs \cup {"idle", "assertion", "ended"}
  /\ rFile \in 0..NFiles /\ rSeeked \in Nat
  /\ rStop \in BOOLEAN /\ rOpen \in BOOLEAN /\ rPast \in BOOLEAN /\ rBook \in Books
  /\ disk \in [Files -> Seq(Token)]
  /\ log \in Seq(Token) /\ rd \in 0..Len(log)
  /\ conn \in {"none", "offered", "accepted"}
  /\ sClosed \in BOOLEAN /\ rClosed \in BOOLEAN /\ broken \in BOOLEAN /\ calm \in BOOLEAN

\* Units of file f that the sender has put into the stream.
Written(f) == sSeeked[f] + (IF f = sIdx THEN sOff ELSE 0)

\* What the receiver writes at position u of a file is unit u of that file,
\* whatever pauses, resets, partial chunks and closes happened; the one other
\* thing it can write is the end flag of a cancelled sender (sender.py:77 leaves
\* the file half sent and :56 sends b'\x00' all the same), and that comes last.
ContentIntegrity ==
  \A f \in Files : \A u \in 1..Len(disk[f]) :
    \/ disk[f][u] = Data(f, u)
    \/ sStop /\ disk[f][u] = End /\ u = Len(disk[f])

\* The recorded seek of the sender, from which a resume would start, lags what
\* the receiver holds by at most one chunk and neither passes the file's size
\* (seeked is updated only after wait_for(send_function(chunk)) returns).
SeekWithinOneChunk ==
  \A f \in Files :
    /\ sSeeked[f] <= Written(f) /\ Written(f) <= sSeeked[f] + ChunkLen
    /\ Written(f) <= Size[f] /\ Len(disk[f]) <= Size[f]
    /\ Len(disk[f]) > Written(f) => sStop

\* When the receiver's loop ends because it read the end flag, and the sender was
\* not cancelled, every file of the range send_files fixed is complete on disk.
EndFlagMeansComplete ==
  (rPc = "ended" /\ rd > 0 /\ log[rd] = End /\ ~sStop)
    => \A f \in 1..sEnd : Len(disk[f]) = Size[f]

\* A sender filed as completed and not cancelled has put every file of the range
\* into the stream, followed by the end flag.
CompletedMeansSent ==
  (sBook = "completed" /\ ~sStop)
    => /\ \A f \in 1..sEnd : sSeeked[f] = Size[f]
       /\ log # <<>> /\ log[Len(log)] = End

\* Nothing follows the end flag in the stream, so the receiver that stops at it
\* misses nothing.
NothingAfterEnd ==
  [][log # <<>> /\ log[Len(log)] = End => log' = log]_vars

\* If the user eventually leaves both ends running, both tasks of a transfer that
\* reached the receiver end: no send or recv waits for ever, although flag, item
\* and end flag are sent, and everything is received, without a timeout.
TransferEnds ==
  (<>[]sOpen /\ <>[]rOpen) => (conn = "accepted" ~> (sPc = "ended" /\ rPc = "ended"))

\* Without faults and interference the files arrive whole and both books file the
\* transfer as completed.
AllDelivered ==
  calm ~> /\ \A f \in 1..InitialCount : Len(disk[f]) = Size[f]
          /\ sBook = "completed" /\ rBook = "completed"

(* What comments, assertions and documents say, and the code does not do. *)

\* docs/transfer/file.md: the receiver uses metadata "to correctly map incoming data
\* to the right file".
DataMappedToFile ==
  \A f \in Files : \A u \in 1..Len(disk[f]) : disk[f][u] = Data(f, u)
=============================================================================
