------------------------- MODULE FileTransferProofs -------------------------
(***************************************************************************)
(* Proofs about FileTransfer: for any number of files of any size, any     *)
(* chunk length and any socket buffers, with faults and users as they come.*)
(*                                                                         *)
(* The stream has a grammar (LogInv): every element determines the one     *)
(* before it.  The sender knows how the stream ends (SendInv), the         *)
(* receiver what it consumed last (RecvInv), and that the two agree        *)
(* follows from the grammar alone.                                         *)
(***************************************************************************)
EXTENDS FileTransfer, SequenceTheorems, TLAPS

(* Elements of the stream, each with what comes before it: a flag opens    *)
(* the stream or follows the last unit of a file, an item follows a flag,  *)
(* a unit follows the item or the unit before it.                          *)
MoreAt(i) ==
  log[i] = More /\ (i = 1 \/ \E f \in Files : log[i - 1] = Data(f, Size[f]))
ItemAt(i, f) ==
  /\ log[i] = Item(f) /\ i > 1 /\ log[i - 1] = More
  /\ IF f = 1 THEN i = 2 ELSE i > 2 /\ log[i - 2] = Data(f - 1, Size[f - 1])
DataAt(i, f, u) ==
  /\ log[i] = Data(f, u) /\ u <= Written(f)
  /\ i > 1 /\ log[i - 1] = IF u = 1 THEN Item(f) ELSE Data(f, u - 1)

(* The end flag is sent once, last, and unless the sender was cancelled    *)
(* only after the last unit of the last file.                              *)
EndAt(i) ==
  /\ log[i] = End /\ i = Len(log) /\ sPc = "ended"
  /\ i = 1 \/ \E f \in Files : \E u \in 1..Size[f] : log[i - 1] = Data(f, u)
  /\ sStop \/ (i > 1 /\ sEnd \in Files /\ log[i - 1] = Data(sEnd, Size[sEnd]))

LogInv ==
  \A i \in 1..Len(log) :
    \/ MoreAt(i)
    \/ \E f \in Files : ItemAt(i, f)
    \/ \E f \in Files : \E u \in 1..Size[f] : DataAt(i, f, u)
    \/ EndAt(i)

LastSent == log[Len(log)]

(* What the stream ends with at each await of the sending task.            *)
SendInv ==
  /\ sPc \in {"idle", "connect", "accept"} => log = <<>> /\ sIdx = 1
  /\ sPc = "flag" => IF sIdx = 1 THEN log = <<>>
                     ELSE log # <<>> /\ LastSent = Data(sIdx - 1, Size[sIdx - 1])
  /\ sPc = "item" => /\ log # <<>> /\ LastSent = More
                     /\ IF sIdx = 1 THEN Len(log) = 1
                        ELSE Len(log) > 1 /\ log[Len(log) - 1] = Data(sIdx - 1, Size[sIdx - 1])
  /\ sPc \in {"read", "chunk"} =>
       /\ log # <<>> /\ Written(sIdx) < Size[sIdx]
       /\ LastSent = IF Written(sIdx) = 0 THEN Item(sIdx) ELSE Data(sIdx, Written(sIdx))
  /\ sPc = "end" =>
       \/ log = <<>> /\ sStop
       \/ /\ log # <<>> /\ LastSent = Data(sIdx, sSeeked[sIdx])
          /\ sSeeked[sIdx] \in 1..Size[sIdx]
          /\ sStop \/ (sIdx = sEnd /\ sSeeked[sIdx] = Size[sIdx])

(* How far the files are sent: those before the current one to their end,  *)
(* those after it not at all, and the current one less than a chunk beyond *)
(* its recorded seek.                                                      *)
SeekInv ==
  /\ \A f \in Files : sSeeked[f] <= Size[f]
  /\ \A f \in Files : f < sIdx => sSeeked[f] = Size[f]
  /\ \A f \in Files : f > sIdx => sSeeked[f] = 0
  /\ sOff < ChunkLen /\ Written(sIdx) <= Size[sIdx]
  /\ sPc \notin {"chunk", "ended"} => sOff = 0
  /\ sPc \in {"idle", "connect", "accept", "flag", "item"} => sSeeked[sIdx] = 0
  /\ sPc \in {"flag", "item", "read", "chunk"} => sIdx <= sEnd

(* A handle is filed as completed only on the way out after the end flag.  *)
BookInv ==
  /\ sState # "ABORTING" /\ (sState = "COMPLETED" => sPc = "ended")
  /\ sBook = "completed" =>
       /\ sPc = "ended" /\ log # <<>> /\ LastSent = End
       /\ sStop \/ \A f \in 1..sEnd : sSeeked[f] = Size[f]

(* The receiver reached an end flag that a cancelled sender sent.          *)
Cut == rd > 0 /\ log[rd] = End /\ sStop

(* What the receiving task consumed last at each of its awaits.            *)
RecvInv ==
  /\ rPc \in {"idle", "assertion"} => rd = 0 /\ rFile = 0
  /\ rPc = "flag" /\ ~Cut =>
       IF rFile = 0 THEN rd = 0
       ELSE rd > 0 /\ log[rd] = IF Size[rFile] = 0 THEN Item(rFile) ELSE Data(rFile, Size[rFile])
  /\ rPc = "item" =>
       /\ rd > 0 /\ log[rd] = More
       /\ IF rFile = 0 THEN rd = 1 ELSE rd > 1 /\ log[rd - 1] = Data(rFile, Size[rFile])
  /\ rPc = "chunk" => rFile \in Files
  /\ rPc = "chunk" /\ ~Cut =>
       /\ rSeeked < Size[rFile]
       /\ rd > 0 /\ log[rd] = IF rSeeked = 0 THEN Item(rFile) ELSE Data(rFile, rSeeked)

(* What is on the receiver's disk: of the files before the current one     *)
(* everything, of those after it nothing; an end flag written into a file  *)
(* is the last element read.                                               *)
DiskInv ==
  /\ ContentIntegrity
  /\ \A f \in Files : \A u \in 1..Len(disk[f]) : disk[f][u] = End => Cut
  /\ \A f \in Files : Len(disk[f]) <= Size[f]
  /\ ~sStop => \A f \in Files : Len(disk[f]) <= Written(f)
  /\ \A f \in Files : f > rFile => disk[f] = <<>>
  /\ rPc \in RecvPcs /\ ~Cut => \A f \in Files : f < rFile => Len(disk[f]) = Size[f]
  /\ rPc \in {"flag", "item"} /\ ~Cut /\ rFile # 0 => Len(disk[rFile]) = Size[rFile]
  /\ rPc = "chunk" /\ ~Cut => Len(disk[rFile]) = rSeeked

IInv ==
  /\ TypeOK /\ LogInv /\ SendInv /\ SeekInv /\ BookInv
  /\ RecvInv /\ DiskInv /\ EndFlagMeansComplete

-----------------------------------------------------------------------------
(* Elements of the stream are told apart by what they carry.               *)
LEMMA Tokens ==
  /\ \A f, u, g, v : Data(f, u) = Data(g, v) <=> f = g /\ u = v
  /\ \A f, g : Item(f) = Item(g) <=> f = g
  /\ \A f, u, g : Data(f, u) # Item(g)
  /\ \A f, u : Data(f, u) # More /\ Data(f, u) # End
  /\ \A f : Item(f) # More /\ Item(f) # End
  /\ More # End
  /\ \A f : Item(f).kind = "item" /\ Item(f).file = f
  /\ \A f, u : Data(f, u).kind = "data"
  /\ More.kind = "more" /\ End.kind = "end"
  BY DEF Data, Item, More, End

\* The elements of the stream are tokens.
LEMMA TokenTypes ==
  /\ More \in Token /\ End \in Token
  /\ \A f \in Nat : Item(f) \in Token
  /\ \A f, u \in Nat : Data(f, u) \in Token
  BY DEF Data, Item, More, End, Token

\* Files are numbered.
LEMMA FilesNat == Files \subseteq Nat /\ Files = 1..NFiles /\ NFiles \in Nat
  BY SizesAssumption DEF Files

\* Their sizes are natural numbers.
LEMMA SizesNat == \A f \in Files : Size[f] \in Nat
  BY SizesAssumption

\* So is what is written of them.
LEMMA WrittenNat ==
  /\ TypeOK => \A f \in Files : Written(f) \in Nat
  /\ TypeOK' => \A f \in Files : Written(f)' \in Nat
  <1>1. ASSUME TypeOK, NEW f \in Files PROVE Written(f) \in Nat
    <2>1. sSeeked[f] \in Nat /\ sOff \in Nat
      BY <1>1 DEF TypeOK
    <2> QED
      BY <2>1 DEF Written
  <1>2. ASSUME TypeOK', NEW f \in Files PROVE Written(f)' \in Nat
    <2>1. sSeeked'[f] \in Nat /\ sOff' \in Nat
      BY <1>2 DEF TypeOK
    <2> QED
      BY <2>1 DEF Written
  <1> QED
    BY <1>1, <1>2

(* What appending an element does to the stream.                           *)
LEMMA Appended ==
  ASSUME TypeOK, NEW t \in Token, log' = Append(log, t)
  PROVE  /\ log' \in Seq(Token) /\ log' # <<>>
         /\ Len(log') = Len(log) + 1 /\ Len(log) \in Nat
         /\ log'[Len(log')] = t
         /\ \A i \in 1..Len(log) : log'[i] = log[i]
  <1>1. log \in Seq(Token)
    BY DEF TypeOK
  <1> QED
    BY <1>1, AppendProperties

(* Steps that leave the sender's side alone, or only move it on.           *)
Onward ==
  /\ Len(log) <= Len(log') /\ \A i \in 1..Len(log) : log'[i] = log[i]
  /\ \A f \in Files : Written(f) <= Written(f)'
  /\ sStop => sStop'
  /\ log # <<>> => sEnd' = sEnd
  /\ sPc = "ended" => sPc' = "ended"

\* The invariant holds before send_files_to_peer.
LEMMA InitIInv == Init => IInv
  <1> SUFFICES ASSUME Init PROVE IInv
    OBVIOUS
  <1> USE SizesAssumption, BoundsAssumption DEF Init
  <1>1. TypeOK
    <2>1. /\ sState \in TransferState /\ sList \in Files /\ sEnd \in 0..NFiles
          /\ sIdx \in Files /\ sSeeked \in [Files -> Nat] /\ sOff \in Nat
          /\ rFile \in 0..NFiles /\ rSeeked \in Nat
      BY DEF TransferState, Files
    <2>2. disk \in [Files -> Seq(Token)] /\ log \in Seq(Token) /\ rd \in 0..Len(log)
      OBVIOUS
    <2> QED
      BY <2>1, <2>2 DEF TypeOK, TransferState, Books, RecvPcs, SendPcs
  <1>2. LogInv /\ SendInv
    BY DEF LogInv, SendInv
  <1>3. SeekInv
    BY DEF SeekInv, Written, Files
  <1>4. BookInv
    BY DEF BookInv
  <1>5. RecvInv /\ DiskInv
    BY DEF RecvInv, DiskInv, ContentIntegrity, RecvPcs, Files, Written
  <1>6. EndFlagMeansComplete
    BY DEF EndFlagMeansComplete
  <1> QED
    BY <1>1, <1>2, <1>3, <1>4, <1>5, <1>6 DEF IInv

(* The grammar when the stream does not change.                            *)
LEMMA GrammarKept ==
  ASSUME TypeOK, TypeOK', LogInv, Onward, log' = log
  PROVE  LogInv'
  <1> SUFFICES ASSUME NEW i \in 1..Len(log)
               PROVE  \/ MoreAt(i)'
                      \/ \E f \in Files : ItemAt(i, f)'
                      \/ \E f \in Files : \E u \in 1..Size[f] : DataAt(i, f, u)'
                      \/ EndAt(i)'
    BY DEF LogInv
  <1>0. log # <<>>
    BY DEF TypeOK
  <1>1. CASE MoreAt(i)
    BY <1>1 DEF MoreAt
  <1>2. CASE \E f \in Files : ItemAt(i, f)
    BY <1>2 DEF ItemAt
  <1>3. ASSUME NEW f \in Files, NEW u \in 1..Size[f], DataAt(i, f, u) PROVE DataAt(i, f, u)'
    <2>1. u <= Written(f)'
      <3>1. u <= Written(f) /\ Written(f) <= Written(f)'
        BY <1>3 DEF DataAt, Onward
      <3>2. Written(f) \in Nat /\ Written(f)' \in Nat /\ u \in Nat
        BY WrittenNat
      <3> QED
        BY <3>1, <3>2
    <2> QED
      BY <1>3, <2>1 DEF DataAt
  <1>4. CASE EndAt(i)
    BY <1>0, <1>4 DEF EndAt, Onward
  <1> QED
    BY <1>1, <1>2, <1>3, <1>4 DEF LogInv

(* The grammar when one element is appended.                               *)
LEMMA GrammarGrows ==
  ASSUME TypeOK, TypeOK', LogInv, Onward, sPc # "ended",
         NEW t \in Token, log' = Append(log, t),
         \/ MoreAt(Len(log))'
         \/ \E f \in Files : ItemAt(Len(log), f)'
         \/ \E f \in Files : \E u \in 1..Size[f] : DataAt(Len(log), f, u)'
         \/ EndAt(Len(log))'
  PROVE  LogInv'
  <1> SUFFICES ASSUME NEW i \in 1..Len(log), i # Len(log')
               PROVE  \/ MoreAt(i)'
                      \/ \E f \in Files : ItemAt(i, f)'
                      \/ \E f \in Files : \E u \in 1..Size[f] : DataAt(i, f, u)'
                      \/ EndAt(i)'
    <2>1. Len(log') = Len(log) + 1 /\ Len(log) \in Nat
      BY Appended
    <2>2. SUFFICES ASSUME NEW i \in 1..Len(log')
                   PROVE  \/ MoreAt(i)'
                          \/ \E f \in Files : ItemAt(i, f)'
                          \/ \E f \in Files : \E u \in 1..Size[f] : DataAt(i, f, u)'
                          \/ EndAt(i)'
      BY DEF LogInv
    <2>3. i = Len(log') \/ (i \in 1..Len(log) /\ i # Len(log'))
      BY <2>1
    <2> QED
      BY <2>3
  <1>0. \A j \in 1..i : log'[j] = log[j]
    BY Appended
  <1>1. CASE MoreAt(i)
    <2>1. i = 1 \/ log'[i - 1] = log[i - 1]
      BY <1>0
    <2> QED
      BY <1>0, <1>1, <2>1 DEF MoreAt
  <1>2. ASSUME NEW f \in Files, ItemAt(i, f) PROVE ItemAt(i, f)'
    <2>1. log'[i] = log[i] /\ log'[i - 1] = log[i - 1] /\ (i > 2 => log'[i - 2] = log[i - 2])
      BY <1>0, <1>2 DEF ItemAt
    <2> QED
      BY <1>2, <2>1 DEF ItemAt
  <1>3. ASSUME NEW f \in Files, NEW u \in 1..Size[f], DataAt(i, f, u) PROVE DataAt(i, f, u)'
    <2>1. u <= Written(f)'
      <3>1. u <= Written(f) /\ Written(f) <= Written(f)'
        BY <1>3 DEF DataAt, Onward
      <3>2. Written(f) \in Nat /\ Written(f)' \in Nat /\ u \in Nat
        BY WrittenNat
      <3> QED
        BY <3>1, <3>2
    <2>2. log'[i] = log[i] /\ log'[i - 1] = log[i - 1]
      BY <1>0, <1>3 DEF DataAt
    <2> QED
      BY <1>3, <2>1, <2>2 DEF DataAt
  <1>4. ~EndAt(i)
    BY DEF EndAt
  <1> QED
    BY <1>1, <1>2, <1>3, <1>4 DEF LogInv

(* The receiving task does not see what the sender does, until it reads it.*)
LEMMA ReceiverKept ==
  ASSUME IInv, TypeOK', Onward, UNCHANGED <<rVars, rd>>
  PROVE  RecvInv' /\ DiskInv' /\ EndFlagMeansComplete'
  <1>1. rd > 0 => rd \in 1..Len(log) /\ log'[rd] = log[rd] /\ log # <<>> /\ sEnd' = sEnd
    <2>1. rd \in 0..Len(log) /\ log \in Seq(Token)
      BY DEF IInv, TypeOK
    <2> QED
      BY <2>1 DEF Onward
  <1>2. rd > 1 => log'[rd - 1] = log[rd - 1]
    <2>1. rd \in 0..Len(log) /\ log \in Seq(Token)
      BY DEF IInv, TypeOK
    <2> QED
      BY <2>1 DEF Onward
  <1>3. Cut => Cut'
    BY <1>1 DEF Cut, Onward, rVars
  <1>4. UNCHANGED <<rPc, rFile, rSeeked, disk, rd>>
    BY DEF rVars
  <1>5. RecvInv'
    BY <1>1, <1>2, <1>3, <1>4 DEF IInv, RecvInv
  <1>6. ContentIntegrity'
    BY <1>4 DEF IInv, DiskInv, ContentIntegrity, Onward
  <1>7. ~sStop' => \A f \in Files : Len(disk'[f]) <= Written(f)'
    <2> SUFFICES ASSUME ~sStop', NEW f \in Files PROVE Len(disk[f]) <= Written(f)'
      BY <1>4
    <2>1. Len(disk[f]) <= Written(f) /\ Written(f) <= Written(f)'
      BY DEF IInv, DiskInv, Onward
    <2>2. Written(f) \in Nat /\ Written(f)' \in Nat
      BY WrittenNat DEF IInv
    <2>3. disk[f] \in Seq(Token)
      BY DEF IInv, TypeOK
    <2>4. Len(disk[f]) \in Nat
      BY <2>3
    <2> QED
      BY <2>1, <2>2, <2>4
  <1>8. DiskInv'
    BY <1>3, <1>4, <1>6, <1>7 DEF IInv, DiskInv
  <1>9. EndFlagMeansComplete'
    BY <1>1, <1>4 DEF IInv, EndFlagMeansComplete, Onward
  <1> QED
    BY <1>5, <1>8, <1>9

(* The sending task does not see what the receiver does.                   *)
LEMMA SenderKept ==
  ASSUME IInv, UNCHANGED <<sVars, log>>
  PROVE  LogInv' /\ SendInv' /\ SeekInv' /\ BookInv'
  <1>1. UNCHANGED <<sState, sPc, sEnd, sIdx, sSeeked, sOff, sStop, sBook, log>>
    BY DEF sVars
  <1>2. LogInv'
    BY <1>1 DEF IInv, LogInv, MoreAt, ItemAt, DataAt, EndAt, Written
  <1>3. SendInv'
    BY <1>1 DEF IInv, SendInv, LastSent, Written
  <1>4. SeekInv'
    BY <1>1 DEF IInv, SeekInv, Written
  <1>5. BookInv'
    BY <1>1 DEF IInv, BookInv, LastSent
  <1> QED
    BY <1>2, <1>3, <1>4, <1>5

-----------------------------------------------------------------------------
(* Types.  What a stream element names is a file because of the grammar.   *)
SenderTypes ==
  /\ sState \in TransferState /\ sList \in Files /\ sEnd \in 0..NFiles
  /\ sPc \in {"idle", "connect", "accept", "flag", "item", "read", "chunk", "end", "ended"}
  /\ sIdx \in Files /\ sSeeked \in [Files -> Nat] /\ sOff \in Nat
  /\ sStop \in BOOLEAN /\ sOpen \in BOOLEAN /\ sPast \in BOOLEAN /\ sBook \in Books
ReceiverTypes ==
  /\ rState \in TransferState
  /\ rPc \in {"idle", "assertion", "flag", "item", "chunk", "ended"}
  /\ rFile \in 0..NFiles /\ rSeeked \in Nat
  /\ rStop \in BOOLEAN /\ rOpen \in BOOLEAN /\ rPast \in BOOLEAN /\ rBook \in Books
  /\ disk \in [Files -> Seq(Token)]
StreamTypes ==
  /\ log \in Seq(Token) /\ rd \in 0..Len(log)
  /\ conn \in {"none", "offered", "accepted"}
  /\ sClosed \in BOOLEAN /\ rClosed \in BOOLEAN /\ broken \in BOOLEAN /\ calm \in BOOLEAN

\* TypeOK is the conjunction of its groups.
LEMMA TypeParts ==
  /\ TypeOK <=> SenderTypes /\ ReceiverTypes /\ StreamTypes
  /\ TypeOK' <=> SenderTypes' /\ ReceiverTypes' /\ StreamTypes'
  <1>1. TypeOK <=> SenderTypes /\ ReceiverTypes /\ StreamTypes
    BY DEF TypeOK, SenderTypes, ReceiverTypes, StreamTypes, SendPcs, RecvPcs
  <1>2. TypeOK' <=> SenderTypes' /\ ReceiverTypes' /\ StreamTypes'
    BY DEF TypeOK, SenderTypes, ReceiverTypes, StreamTypes, SendPcs, RecvPcs
  <1> QED
    BY <1>1, <1>2

\* Types: the sending task ends.
LEMMA SenderExitTypes ==
  ASSUME SenderTypes, NEW st \in TransferState, SenderExit(st),
         UNCHANGED <<sList, sEnd, sIdx, sSeeked, sOff, sStop, sOpen>>
  PROVE  SenderTypes' /\ sClosed' = TRUE
  BY DEF SenderTypes, SenderExit, SendFinalize, Books

\* Types: the receiving task ends.
LEMMA ReceiverExitTypes ==
  ASSUME ReceiverTypes, NEW st \in TransferState, ReceiverExit(st)
  PROVE  /\ rState' \in TransferState /\ rPc' = "ended" /\ rClosed' = TRUE
         /\ rPast' \in BOOLEAN /\ rBook' \in Books
  BY DEF ReceiverTypes, ReceiverExit, ReceiveFinalize, Books

\* Types: the head of the sender's loop.
LEMMA LoopHeadTypes ==
  ASSUME SenderTypes, NEW i \in Nat \ {0}, NEW end \in 0..NFiles, LoopHead(i, end)
  PROVE  sPc' \in {"flag", "end"} /\ sIdx' \in Files /\ sPast' \in BOOLEAN
  BY FilesNat DEF SenderTypes, LoopHead

\* Types: an element goes into the stream.
LEMMA SendTypes ==
  ASSUME TypeOK, NEW t \in Token, Send(t)
  PROVE  log' \in Seq(Token) /\ rd \in 0..Len(log')
  <1>1. log' = Append(log, t) /\ rd \in 0..Len(log)
    BY DEF Send, TypeOK
  <1> QED
    BY <1>1, Appended

\* Types: every step of the sending task.
LEMMA SendingTypes ==
  ASSUME IInv, Sending
  PROVE  TypeOK'
  <1>a. TypeOK /\ SenderTypes /\ ReceiverTypes /\ StreamTypes
    BY TypeParts DEF IInv
  <1>b. sState \in TransferState /\ "PREPARING" \in TransferState
        /\ "PAUSED" \in TransferState /\ "COMPLETED" \in TransferState
        /\ "CONNECTING" \in TransferState /\ "SENDING" \in TransferState
    BY <1>a DEF SenderTypes, TransferState
  <1>c. UNCHANGED rVars => ReceiverTypes'
    BY <1>a DEF rVars, ReceiverTypes
  <1> SUFFICES SenderTypes' /\ UNCHANGED rVars /\ StreamTypes'
    BY <1>c, TypeParts
  <1>1. CASE SendFilesToPeer
    BY <1>1, <1>a, <1>b DEF SendFilesToPeer, SenderTypes, StreamTypes, Books
  <1>2. CASE Connected
    BY <1>2, <1>a DEF Connected, SenderTypes, StreamTypes
  <1>3. CASE ConnectFails
    <2>1. SenderTypes' /\ sClosed' = TRUE
      BY <1>3, <1>a, <1>b, SenderExitTypes DEF ConnectFails
    <2> QED
      BY <1>3, <1>a, <2>1 DEF ConnectFails, StreamTypes
  <1>4. CASE Accepted
    <2>0. sIdx \in Nat \ {0} /\ sList \in 0..NFiles
      BY <1>a, FilesNat DEF SenderTypes
    <2>1. sPc' \in {"flag", "end"} /\ sIdx' \in Files /\ sPast' \in BOOLEAN
      BY <1>4, <1>a, <2>0, LoopHeadTypes DEF Accepted
    <2>2. SenderTypes'
      BY <1>4, <1>a, <1>b, <2>0, <2>1 DEF Accepted, SenderTypes
    <2> QED
      BY <1>4, <1>a, <2>2 DEF Accepted, StreamTypes
  <1>5. CASE AcceptFails
    <2>1. SenderTypes' /\ sClosed' = TRUE
      BY <1>5, <1>a, <1>b, SenderExitTypes DEF AcceptFails
    <2> QED
      BY <1>5, <1>a, <2>1 DEF AcceptFails, StreamTypes
  <1>6. CASE SendFlag
    <2>1. log' \in Seq(Token) /\ rd \in 0..Len(log')
      BY <1>6, <1>a, SendTypes, TokenTypes DEF SendFlag
    <2> QED
      BY <1>6, <1>a, <2>1 DEF SendFlag, SenderTypes, StreamTypes
  <1>7. CASE SendItem
    <2>0. sIdx \in Nat
      BY <1>a, FilesNat DEF SenderTypes
    <2>1. log' \in Seq(Token) /\ rd \in 0..Len(log')
      BY <1>7, <1>a, <2>0, SendTypes, TokenTypes DEF SendItem
    <2>2. SenderTypes' /\ sClosed' \in BOOLEAN
      <3>1. CASE sPc' = "read" /\ sPast' = FALSE /\ UNCHANGED <<sState, sBook, sClosed>>
        BY <1>7, <1>a, <3>1 DEF SendItem, SenderTypes, StreamTypes
      <3>2. CASE SenderExit(sState) \/ SenderExit("PAUSED")
        BY <1>7, <1>a, <1>b, <3>2, SenderExitTypes DEF SendItem
      <3> QED
        BY <1>7, <3>1, <3>2 DEF SendItem
    <2> QED
      BY <1>7, <1>a, <2>1, <2>2 DEF SendItem, StreamTypes
  <1>8. CASE ReadChunk
    BY <1>8, <1>a DEF ReadChunk, SenderTypes, StreamTypes
  <1>9. CASE SendChunk
    <2>0. sIdx \in Files /\ sIdx \in Nat /\ sSeeked[sIdx] \in Nat /\ sOff \in Nat
      BY <1>a, FilesNat DEF SenderTypes
    <2>1. log' \in Seq(Token) /\ rd \in 0..Len(log')
      BY <1>9, <1>a, <2>0, TokenTypes, SendTypes DEF SendChunk
    <2>2. sOff' \in Nat
      BY <1>9, <2>0 DEF SendChunk
    <2>3. sSeeked' \in [Files -> Nat]
      <3>1. sSeeked \in [Files -> Nat]
        BY <1>a DEF SenderTypes
      <3>2. sSeeked' = sSeeked \/ sSeeked' = [sSeeked EXCEPT ![sIdx] = @ + sOff + 1]
        BY <1>9 DEF SendChunk
      <3> QED
        BY <2>0, <3>1, <3>2
    <2>4. sPc' \in {"chunk", "read", "flag", "end"} /\ sIdx' \in Files /\ sPast' \in BOOLEAN
      <3>1. sIdx + 1 \in Nat \ {0} /\ sEnd \in 0..NFiles
        BY <1>a, <2>0 DEF SenderTypes
      <3>2. sPc = "chunk" /\ sPast \in BOOLEAN
        BY <1>9, <1>a DEF SenderTypes, SendChunk
      <3>3. \/ UNCHANGED <<sPc, sPast, sIdx>>
            \/ sPc' = "read" /\ sPast' = FALSE /\ UNCHANGED sIdx
            \/ LoopHead(sIdx + 1, sEnd)
        BY <1>9 DEF SendChunk
      <3> QED
        BY <1>a, <2>0, <3>1, <3>2, <3>3, LoopHeadTypes
    <2>5. UNCHANGED <<sState, sList, sEnd, sStop, sOpen, sBook, rVars, rd, conn, sClosed,
                      rClosed, broken, calm>>
      BY <1>9 DEF SendChunk
    <2>6. SenderTypes'
      BY <1>a, <2>2, <2>3, <2>4, <2>5 DEF SenderTypes
    <2> QED
      BY <1>a, <2>1, <2>5, <2>6 DEF StreamTypes
  <1>10. CASE SendEnd
    <2>1. log' \in Seq(Token) /\ rd \in 0..Len(log')
      BY <1>10, <1>a, SendTypes, TokenTypes DEF SendEnd
    <2>2. SenderTypes' /\ sClosed' = TRUE
      BY <1>10, <1>a, <1>b, SenderExitTypes DEF SendEnd
    <2> QED
      BY <1>10, <1>a, <2>1, <2>2 DEF SendEnd, StreamTypes
  <1>11. CASE SendFails
    <2>1. SenderTypes' /\ sClosed' = TRUE
      BY <1>11, <1>a, <1>b, SenderExitTypes DEF SendFails
    <2> QED
      BY <1>11, <1>a, <2>1 DEF SendFails, StreamTypes
  <1> QED
    BY <1>1, <1>2, <1>3, <1>4, <1>5, <1>6, <1>7, <1>8, <1>9, <1>10, <1>11 DEF Sending

-----------------------------------------------------------------------------
(* Steps of the sending task.  What the four parts about the sender give   *)
(* gives the invariant, since the receiver's part is kept.                 *)
LEMMA SendingSuffices ==
  ASSUME IInv, TypeOK', Onward, LogInv', SendInv', SeekInv', BookInv', UNCHANGED <<rVars, rd>>
  PROVE  IInv'
  BY ReceiverKept DEF IInv

(* The facts about numbers and the stream that the steps below use.        *)
LEMMA SenderFacts ==
  ASSUME IInv
  PROVE  /\ TypeOK /\ SenderTypes
         /\ sIdx \in Files /\ sIdx \in Nat /\ sIdx >= 1 /\ sEnd \in Nat /\ sOff \in Nat
         /\ sSeeked \in [Files -> Nat] /\ sSeeked[sIdx] \in Nat /\ Size[sIdx] \in Nat
         /\ Written(sIdx) = sSeeked[sIdx] + sOff
         /\ ChunkLen \in Nat /\ ChunkLen > 0
         /\ log \in Seq(Token) /\ Len(log) \in Nat /\ (log = <<>> <=> Len(log) = 0)
  <1>1. TypeOK /\ SenderTypes /\ StreamTypes
    BY TypeParts DEF IInv
  <1>2. sIdx \in Files /\ sEnd \in Nat /\ sOff \in Nat /\ sSeeked \in [Files -> Nat]
    BY <1>1, FilesNat DEF SenderTypes
  <1>3. sIdx \in Nat /\ sIdx >= 1 /\ Size[sIdx] \in Nat /\ sSeeked[sIdx] \in Nat
    BY <1>2, FilesNat, SizesNat
  <1>4. log \in Seq(Token)
    BY <1>1 DEF StreamTypes
  <1>5. Len(log) \in Nat /\ (log = <<>> <=> Len(log) = 0)
    BY <1>4, LenProperties, EmptySeq
  <1> QED
    BY <1>1, <1>2, <1>3, <1>4, <1>5, BoundsAssumption DEF Written

(* Steps that leave the stream and the place in it alone.                  *)
LEMMA SenderStays ==
  ASSUME IInv, TypeOK', UNCHANGED <<log, sEnd, sIdx, sSeeked, sOff, sStop, rVars, rd>>,
         sPc = "ended" => sPc' = "ended"
  PROVE  Onward /\ LogInv'
  <1>1. \A f \in Files : Written(f)' = Written(f)
    BY DEF Written
  <1>2. \A f \in Files : Written(f) \in Nat
    BY WrittenNat DEF IInv
  <1>3. Onward
    <2>1. Len(log) <= Len(log')
      BY SenderFacts
    <2> QED
      BY <1>1, <1>2, <2>1 DEF Onward
  <1> QED
    BY <1>3, GrammarKept DEF IInv

(* The task gives up with a state other than COMPLETED.                    *)
LEMMA GivesUp ==
  ASSUME IInv, TypeOK', NEW st \in TransferState \ {"COMPLETED", "ABORTING"}, SenderExit(st),
         sPc # "ended", UNCHANGED <<sList, sEnd, sIdx, sSeeked, sOff, sStop, rVars, log, rd>>
  PROVE  IInv'
  <1>1. Onward /\ LogInv'
    BY SenderStays
  <1>2. sPc' = "ended" /\ sState' = st /\ sBook' # "completed"
    BY DEF SenderExit, SendFinalize, IInv, BookInv
  <1>3. SendInv'
    BY <1>2 DEF SendInv
  <1>4. SeekInv'
    BY <1>2 DEF IInv, SeekInv, Written
  <1>5. BookInv'
    BY <1>2 DEF BookInv
  <1> QED
    BY <1>1, <1>3, <1>4, <1>5, SendingSuffices

\* The sender starts, connects, and reads a chunk from its disk.
LEMMA DialSteps ==
  ASSUME IInv, TypeOK', SendFilesToPeer \/ Connected \/ ReadChunk
  PROVE  IInv'
  <1>1. UNCHANGED <<log, sEnd, sIdx, sSeeked, sStop, rVars, rd>> /\ sPc # "ended"
    BY DEF SendFilesToPeer, Connected, ReadChunk
  <1>2. sOff' = sOff
    BY DEF SendFilesToPeer, Connected, ReadChunk, IInv, SeekInv
  <1>3. Onward /\ LogInv'
    BY <1>1, <1>2, SenderStays
  <1>4. SendInv'
    BY <1>1, <1>2 DEF SendFilesToPeer, Connected, ReadChunk, IInv, SendInv, LastSent, Written
  <1>5. SeekInv'
    BY <1>1, <1>2 DEF SendFilesToPeer, Connected, ReadChunk, IInv, SeekInv, Written
  <1>6. BookInv'
    BY <1>1 DEF SendFilesToPeer, Connected, ReadChunk, IInv, BookInv
  <1> QED
    BY <1>1, <1>3, <1>4, <1>5, <1>6, SendingSuffices

\* The receiver's answer to the handshake: the loop begins.
LEMMA AcceptedStep ==
  ASSUME IInv, TypeOK', Accepted
  PROVE  IInv'
  <1>1. /\ sPc = "accept" /\ sState' = "SENDING" /\ sEnd' = sList
        /\ UNCHANGED <<log, sSeeked, sOff, sStop, sBook, rVars, rd>>
    BY DEF Accepted
  <1>2. log = <<>> /\ sIdx = 1 /\ sOff = 0 /\ sSeeked[sIdx] = 0
    BY <1>1 DEF IInv, SendInv, SeekInv
  <1>3. sIdx' = sIdx /\ sIdx <= sEnd'
        /\ ((sPc' = "end" /\ sStop) \/ sPc' = "flag")
    <2>1. sList \in Nat /\ sList >= 1
      BY SenderFacts, FilesNat DEF SenderTypes
    <2> QED
      BY <1>1, <1>2, <2>1 DEF Accepted, LoopHead
  <1>4. Onward
    <2>1. \A f \in Files : Written(f)' = Written(f) /\ Written(f) \in Nat
      BY <1>1, <1>3, WrittenNat DEF IInv, Written
    <2> QED
      BY <1>1, <1>2, <2>1 DEF Onward
  <1>5. LogInv'
    BY <1>1, <1>2 DEF LogInv
  <1>6. SendInv'
    BY <1>1, <1>2, <1>3 DEF SendInv
  <1>7. SeekInv'
    BY <1>1, <1>2, <1>3 DEF IInv, SeekInv, Written
  <1>8. BookInv'
    BY <1>1 DEF IInv, BookInv
  <1> QED
    BY <1>1, <1>4, <1>5, <1>6, <1>7, <1>8, SendingSuffices

(* An element is appended while no file's count of sent units shrinks.     *)
LEMMA SendOnward ==
  ASSUME IInv, NEW t \in Token, Send(t), sPc # "ended", UNCHANGED <<sEnd, sStop>>,
         \A f \in Files : Written(f) <= Written(f)'
  PROVE  Onward /\ log' = Append(log, t)
  <1>1. log' = Append(log, t)
    BY DEF Send
  <1>2. /\ Len(log') = Len(log) + 1 /\ Len(log) \in Nat
        /\ \A i \in 1..Len(log) : log'[i] = log[i]
    BY <1>1, Appended DEF IInv
  <1>3. Len(log) <= Len(log')
    BY <1>2
  <1> QED
    BY <1>1, <1>2, <1>3 DEF Onward

\* What is written depends on the seeks and the offset alone.
LEMMA WrittenSame ==
  ASSUME IInv, UNCHANGED <<sIdx, sSeeked, sOff>>
  PROVE  \A f \in Files : Written(f) <= Written(f)'
  <1>1. \A f \in Files : Written(f)' = Written(f) /\ Written(f) \in Nat
    BY WrittenNat DEF IInv, Written
  <1> QED
    BY <1>1

\* The flag that another file comes.
LEMMA SendFlagStep ==
  ASSUME IInv, TypeOK', SendFlag
  PROVE  IInv'
  <1>1. /\ sPc = "flag" /\ sPc' = "item" /\ Send(More)
        /\ UNCHANGED <<sState, sEnd, sIdx, sSeeked, sOff, sStop, sBook, rVars, rd>>
    BY DEF SendFlag
  <1>2. Onward /\ log' = Append(log, More)
    BY <1>1, SendOnward, WrittenSame, TokenTypes
  <1>3. /\ Len(log') = Len(log) + 1 /\ log' # <<>> /\ log'[Len(log')] = More
        /\ \A i \in 1..Len(log) : log'[i] = log[i]
    BY <1>2, TokenTypes, Appended DEF IInv
  <1>4. IF sIdx = 1 THEN log = <<>>
        ELSE log # <<>> /\ log[Len(log)] = Data(sIdx - 1, Size[sIdx - 1])
    BY <1>1 DEF IInv, SendInv, LastSent
  <1>5. /\ Len(log) \in Nat /\ (log = <<>> <=> Len(log) = 0)
        /\ sIdx \in Files /\ sIdx \in Nat /\ sIdx >= 1
    BY SenderFacts
  <1>6. IF sIdx = 1 THEN Len(log') = 1
        ELSE Len(log') > 1 /\ log'[Len(log') - 1] = Data(sIdx - 1, Size[sIdx - 1])
    BY <1>3, <1>4, <1>5
  <1>7. MoreAt(Len(log))'
    <2>1. sIdx # 1 => sIdx - 1 \in Files
      BY <1>5, FilesNat
    <2> QED
      BY <1>3, <1>6, <2>1 DEF MoreAt
  <1>8. LogInv'
    BY <1>1, <1>2, <1>7, TokenTypes, GrammarGrows DEF IInv
  <1>9. SendInv'
    BY <1>1, <1>3, <1>6 DEF SendInv, LastSent
  <1>10. SeekInv'
    BY <1>1 DEF IInv, SeekInv, Written
  <1>11. BookInv'
    BY <1>1 DEF IInv, BookInv
  <1> QED
    BY <1>1, <1>2, <1>8, <1>9, <1>10, <1>11, SendingSuffices

\* The item of a file.
LEMMA SendItemStep ==
  ASSUME IInv, TypeOK', SendItem
  PROVE  IInv'
  <1>1. /\ sPc = "item" /\ Send(Item(sIdx))
        /\ UNCHANGED <<sEnd, sIdx, sSeeked, sOff, sStop, rVars, rd>>
    BY DEF SendItem
  <1>2. Item(sIdx) \in Token
    BY SenderFacts, TokenTypes
  <1>3. Onward /\ log' = Append(log, Item(sIdx))
    BY <1>1, <1>2, SendOnward, WrittenSame
  <1>4. /\ Len(log') = Len(log) + 1 /\ log' # <<>> /\ log'[Len(log')] = Item(sIdx)
        /\ \A i \in 1..Len(log) : log'[i] = log[i]
    BY <1>2, <1>3, Appended DEF IInv
  <1>5. /\ log # <<>> /\ log[Len(log)] = More
        /\ IF sIdx = 1 THEN Len(log) = 1
           ELSE Len(log) > 1 /\ log[Len(log) - 1] = Data(sIdx - 1, Size[sIdx - 1])
    BY <1>1 DEF IInv, SendInv, LastSent
  <1>6. /\ Len(log) \in Nat /\ (log = <<>> <=> Len(log) = 0)
        /\ sIdx \in Files /\ Size[sIdx] \in Nat
    BY SenderFacts
  <1>7. ItemAt(Len(log), sIdx)'
    <2>1. Len(log') > 1 /\ log'[Len(log') - 1] = More
      BY <1>4, <1>5, <1>6
    <2>2. IF sIdx = 1 THEN Len(log') = 2
          ELSE Len(log') > 2 /\ log'[Len(log') - 2] = Data(sIdx - 1, Size[sIdx - 1])
      BY <1>4, <1>5, <1>6
    <2> QED
      BY <1>1, <1>4, <2>1, <2>2 DEF ItemAt
  <1>8. LogInv'
    <2>1. \E f \in Files : ItemAt(Len(log), f)'
      BY <1>1, <1>6, <1>7
    <2> QED
      BY <1>1, <1>2, <1>3, <2>1, GrammarGrows DEF IInv
  <1>9. sOff = 0 /\ sSeeked[sIdx] = 0 /\ sState \notin {"COMPLETED", "ABORTING"}
        /\ sBook # "completed"
    BY <1>1 DEF IInv, SeekInv, BookInv
  <1>10. CASE sPc' = "read" /\ Size[sIdx] > 0 /\ UNCHANGED <<sState, sBook>>
    <2>1. Written(sIdx)' = 0
      BY <1>1, <1>9 DEF Written
    <2>2. SendInv'
      BY <1>1, <1>4, <1>10, <2>1 DEF SendInv, LastSent
    <2>3. SeekInv'
      BY <1>1, <1>10 DEF IInv, SeekInv, Written
    <2>4. BookInv'
      BY <1>9, <1>10 DEF BookInv
    <2> QED
      BY <1>1, <1>3, <1>8, <2>2, <2>3, <2>4, SendingSuffices
  <1>11. CASE SenderExit(sState) \/ SenderExit("PAUSED")
    <2>1. sPc' = "ended" /\ sBook' # "completed" /\ sState' \notin {"COMPLETED", "ABORTING"}
      BY <1>9, <1>11 DEF SenderExit, SendFinalize
    <2>2. SendInv'
      BY <2>1 DEF SendInv
    <2>3. SeekInv'
      BY <1>1, <2>1 DEF IInv, SeekInv, Written
    <2>4. BookInv'
      BY <2>1 DEF BookInv
    <2> QED
      BY <1>1, <1>3, <1>8, <2>2, <2>3, <2>4, SendingSuffices
  <1> QED
    BY <1>10, <1>11 DEF SendItem

\* The end flag.
LEMMA SendEndStep ==
  ASSUME IInv, TypeOK', SendEnd
  PROVE  IInv'
  <1>1. /\ sPc = "end" /\ Send(End) /\ sPc' = "ended" /\ sState' = "COMPLETED"
        /\ UNCHANGED <<sEnd, sIdx, sSeeked, sOff, sStop, rVars, rd>>
    BY DEF SendEnd, SenderExit
  <1>2. Onward /\ log' = Append(log, End)
    BY <1>1, TokenTypes, SendOnward, WrittenSame
  <1>3. /\ Len(log') = Len(log) + 1 /\ log' # <<>> /\ log'[Len(log')] = End
        /\ \A i \in 1..Len(log) : log'[i] = log[i]
    BY <1>2, TokenTypes, Appended DEF IInv
  <1>4. \/ log = <<>> /\ sStop
        \/ /\ log # <<>> /\ log[Len(log)] = Data(sIdx, sSeeked[sIdx])
           /\ sSeeked[sIdx] \in 1..Size[sIdx]
           /\ sStop \/ (sIdx = sEnd /\ sSeeked[sIdx] = Size[sIdx])
    BY <1>1 DEF IInv, SendInv, LastSent
  <1>5. /\ Len(log) \in Nat /\ (log = <<>> <=> Len(log) = 0)
        /\ sIdx \in Files /\ Size[sIdx] \in Nat
    BY SenderFacts
  <1>6. EndAt(Len(log))'
    <2>1. CASE log = <<>> /\ sStop
      <3>1. Len(log') = 1
        BY <1>3, <1>5, <2>1
      <3> QED
        BY <1>1, <1>3, <2>1, <3>1 DEF EndAt
    <2>2. CASE log # <<>>
      <3>1. Len(log') > 1 /\ log'[Len(log') - 1] = Data(sIdx, sSeeked[sIdx])
        BY <1>3, <1>4, <1>5, <2>2
      <3> QED
        BY <1>1, <1>3, <1>4, <1>5, <2>2, <3>1 DEF EndAt
    <2> QED
      BY <1>4, <2>1, <2>2
  <1>7. LogInv'
    BY <1>1, <1>2, <1>6, TokenTypes, GrammarGrows DEF IInv
  <1>8. SendInv'
    BY <1>1 DEF SendInv
  <1>9. SeekInv'
    BY <1>1 DEF IInv, SeekInv, Written
  <1>10. BookInv'
    <2>1. sStop \/ \A f \in 1..sEnd : sSeeked[f] = Size[f]
      <3> SUFFICES ASSUME ~sStop, NEW f \in 1..sEnd PROVE sSeeked[f] = Size[f]
        OBVIOUS
      <3>1. sIdx = sEnd /\ sSeeked[sIdx] = Size[sIdx]
        BY <1>4
      <3>2. f \in Files /\ (f = sIdx \/ f < sIdx)
        BY <1>5, <3>1, FilesNat
      <3> QED
        BY <3>1, <3>2 DEF IInv, SeekInv
    <2> QED
      BY <1>1, <1>3, <2>1 DEF BookInv, LastSent
  <1> QED
    BY <1>1, <1>2, <1>7, <1>8, <1>9, <1>10, SendingSuffices

(* The unit that sock_sendall moved, and with it Written, are one more.    *)
LEMMA SendChunkStep ==
  ASSUME IInv, TypeOK', SendChunk
  PROVE  IInv'
  <1> DEFINE w == sSeeked[sIdx] + sOff
  <1>1. /\ sPc = "chunk" /\ Send(Data(sIdx, w + 1))
        /\ UNCHANGED <<sState, sEnd, sStop, sBook, rVars, rd>>
    BY DEF SendChunk
  <1>2. /\ sIdx \in Files /\ sIdx \in Nat /\ sIdx >= 1 /\ sEnd \in Nat /\ sOff \in Nat
        /\ sSeeked \in [Files -> Nat] /\ sSeeked[sIdx] \in Nat /\ Size[sIdx] \in Nat
        /\ w \in Nat /\ Written(sIdx) = w
        /\ ChunkLen \in Nat /\ ChunkLen > 0
        /\ Len(log) \in Nat /\ (log = <<>> <=> Len(log) = 0)
    BY SenderFacts
  <1>3. /\ log # <<>> /\ w < Size[sIdx]
        /\ log[Len(log)] = IF w = 0 THEN Item(sIdx) ELSE Data(sIdx, w)
    BY <1>1, <1>2 DEF IInv, SendInv, LastSent
  <1>4. /\ \A f \in Files : sSeeked[f] <= Size[f]
        /\ \A f \in Files : f < sIdx => sSeeked[f] = Size[f]
        /\ \A f \in Files : f > sIdx => sSeeked[f] = 0
        /\ sOff < ChunkLen /\ sIdx <= sEnd
    BY <1>1 DEF IInv, SeekInv
  <1>5. sState # "ABORTING" /\ sState # "COMPLETED" /\ sBook # "completed"
    BY <1>1 DEF IInv, BookInv
  <1>6. ASSUME Onward, \E f \in Files : f = sIdx /\ w + 1 <= Written(f)',
               SendInv', SeekInv', sPc' # "ended"
        PROVE  IInv'
    <2>1. Data(sIdx, w + 1) \in Token
      BY <1>2, TokenTypes
    <2>2. log' = Append(log, Data(sIdx, w + 1))
      BY <1>1 DEF Send
    <2>3. /\ Len(log') = Len(log) + 1 /\ log' # <<>> /\ log'[Len(log')] = Data(sIdx, w + 1)
          /\ \A i \in 1..Len(log) : log'[i] = log[i]
      BY <2>1, <2>2, Appended DEF IInv
    <2>4. /\ Len(log') > 1
          /\ log'[Len(log') - 1] = IF w + 1 = 1 THEN Item(sIdx) ELSE Data(sIdx, (w + 1) - 1)
      BY <1>2, <1>3, <2>3
    <2>5. \E f \in Files : \E u \in 1..Size[f] : DataAt(Len(log), f, u)'
      <3>1. w + 1 \in 1..Size[sIdx]
        BY <1>2, <1>3
      <3>2. ASSUME NEW f \in Files, NEW u \in 1..Size[f], f = sIdx, u = w + 1
            PROVE  DataAt(Len(log), f, u)'
        BY <1>6, <2>3, <2>4, <3>2 DEF DataAt
      <3> QED
        BY <1>2, <3>1, <3>2
    <2>6. LogInv'
      BY <1>1, <1>6, <2>1, <2>2, <2>5, GrammarGrows DEF IInv
    <2>7. BookInv'
      BY <1>1, <1>5 DEF BookInv
    <2> QED
      BY <1>1, <1>6, <2>6, <2>7, SendingSuffices
  <1>7. log' # <<>> /\ log'[Len(log')] = Data(sIdx, w + 1)
    <2>1. Data(sIdx, w + 1) \in Token /\ log' = Append(log, Data(sIdx, w + 1))
      BY <1>1, <1>2, TokenTypes DEF Send
    <2> QED
      BY <2>1, Appended DEF IInv
  <1> HIDE DEF w
  <1>8. CASE sOff + 1 < ChunkEnd(sIdx)
    <2>1. sOff' = sOff + 1 /\ UNCHANGED <<sPc, sIdx, sSeeked>>
      BY <1>8 DEF SendChunk
    <2>2. sOff + 1 < ChunkLen /\ w + 1 < Size[sIdx]
      BY <1>2, <1>8, <1>4 DEF ChunkEnd, w
    <2>3. Written(sIdx)' = w + 1 /\ \A f \in Files : f # sIdx => Written(f)' = Written(f)
      BY <1>2, <2>1 DEF Written, w
    <2>4. \A f \in Files : Written(f) <= Written(f)'
      BY <1>2, <2>1, <2>3, WrittenNat DEF IInv
    <2>5. Onward
      <3>1. Data(sIdx, w + 1) \in Token
        BY <1>2, TokenTypes
      <3> QED
        BY <1>1, <2>4, <3>1, SendOnward DEF w
    <2>6. SendInv'
      BY <1>1, <1>2, <1>7, <2>1, <2>2, <2>3 DEF SendInv, LastSent
    <2>7. SeekInv'
      BY <1>1, <1>2, <1>4, <2>1, <2>2, <2>3 DEF SeekInv
    <2> QED
      BY <1>1, <1>2, <1>6, <2>1, <2>3, <2>5, <2>6, <2>7
  <1>9. CASE ~(sOff + 1 < ChunkEnd(sIdx))
    <2>1. sOff' = 0 /\ sSeeked' = [sSeeked EXCEPT ![sIdx] = @ + sOff + 1]
      BY <1>9 DEF SendChunk
    <2>2. sSeeked'[sIdx] = w + 1 /\ \A f \in Files : f # sIdx => sSeeked'[f] = sSeeked[f]
      BY <1>2, <2>1 DEF w
    <2>3. \A f \in Files : Written(f)' = IF f = sIdx THEN w + 1 ELSE Written(f)
      <3> SUFFICES ASSUME NEW f \in Files
                   PROVE  Written(f)' = IF f = sIdx THEN w + 1 ELSE Written(f)
        OBVIOUS
      <3>1. Written(f)' = sSeeked'[f]
        <4>1. sSeeked'[f] \in Nat
          BY <1>2, <2>1
        <4> QED
          BY <2>1, <4>1 DEF Written
      <3>2. f # sIdx => Written(f) = sSeeked[f]
        <4>1. sSeeked[f] \in Nat
          BY <1>2
        <4> QED
          BY <4>1 DEF Written
      <3> QED
        BY <2>2, <3>1, <3>2
    <2>4. \A f \in Files : Written(f) <= Written(f)'
      <3>1. \A f \in Files : Written(f) \in Nat
        BY WrittenNat DEF IInv
      <3> QED
        BY <1>2, <2>3, <3>1
    <2>5. Onward
      <3>1. Data(sIdx, w + 1) \in Token
        BY <1>2, TokenTypes
      <3> QED
        BY <1>1, <2>4, <3>1, SendOnward DEF w
    <2>6. \E f \in Files : f = sIdx /\ w + 1 <= Written(f)'
      BY <1>2, <2>3
    <2>7. CASE w + 1 < Size[sIdx] /\ ~sStop
      <3>1. sPc' = "read" /\ sIdx' = sIdx
        BY <1>9, <2>7 DEF SendChunk, w
      <3>2. Written(sIdx)' = w + 1
        BY <1>2, <2>3, <3>1
      <3>3. SendInv'
        BY <1>2, <1>7, <2>7, <3>1, <3>2 DEF SendInv, LastSent
      <3>4. SeekInv'
        BY <1>1, <1>2, <1>4, <2>1, <2>2, <2>7, <3>1, <3>2 DEF SeekInv
      <3> QED
        BY <1>6, <2>5, <2>6, <3>1, <3>3, <3>4
    <2>8. CASE ~(w + 1 < Size[sIdx] /\ ~sStop)
      <3>1. LoopHead(sIdx + 1, sEnd)
        BY <1>9, <2>8 DEF SendChunk, w
      <3>2. w + 1 <= Size[sIdx] /\ (~sStop => w + 1 = Size[sIdx])
        BY <1>2, <1>3, <2>8
      <3>3. CASE sStop \/ sIdx + 1 > sEnd
        <4>1. sPc' = "end" /\ sIdx' = sIdx
          BY <3>1, <3>3 DEF LoopHead
        <4>2. sStop \/ sIdx = sEnd
          BY <1>2, <1>4, <3>3
        <4>3. Written(sIdx)' = w + 1
          BY <1>2, <2>3, <4>1
        <4>4. SendInv'
          BY <1>1, <1>2, <1>7, <2>2, <3>2, <4>1, <4>2 DEF SendInv, LastSent
        <4>5. SeekInv'
          BY <1>1, <1>2, <1>4, <2>1, <2>2, <3>2, <4>1, <4>3 DEF SeekInv
        <4> QED
          BY <1>6, <2>5, <2>6, <4>1, <4>4, <4>5
      <3>4. CASE ~sStop /\ sIdx + 1 <= sEnd
        <4>1. sPc' = "flag" /\ sIdx' = sIdx + 1
          BY <1>2, <3>1, <3>4 DEF LoopHead
        <4>2. sIdx + 1 \in Files
          BY <1>2, <4>1 DEF TypeOK
        <4>3. sSeeked'[sIdx'] = 0 /\ Written(sIdx)' = 0
          <5>1. sSeeked'[sIdx + 1] = 0
            BY <1>2, <1>4, <2>2, <4>2
          <5> QED
            BY <2>1, <4>1, <5>1 DEF Written
        <4>4. SendInv'
          BY <1>1, <1>2, <1>7, <3>2, <3>4, <4>1 DEF SendInv, LastSent
        <4>5. SeekInv'
          <5>1. \A f \in Files : f < sIdx + 1 <=> (f < sIdx \/ f = sIdx)
            BY <1>2, FilesNat
          <5>2. \A f \in Files : f > sIdx + 1 => f > sIdx /\ f # sIdx
            BY <1>2, FilesNat
          <5>3. \A f \in Files : sSeeked'[f] <= Size[f]
            BY <1>4, <2>2, <3>2
          <5>4. \A f \in Files : f < sIdx' => sSeeked'[f] = Size[f]
            BY <1>4, <2>2, <3>2, <3>4, <4>1, <5>1
          <5>5. \A f \in Files : f > sIdx' => sSeeked'[f] = 0
            BY <1>4, <2>2, <4>1, <5>2
          <5>6. Size[sIdx'] \in Nat
            BY <4>1, <4>2, SizesNat
          <5> QED
            BY <1>1, <1>2, <2>1, <3>4, <4>1, <4>3, <5>3, <5>4, <5>5, <5>6 DEF SeekInv
        <4> QED
          BY <1>6, <2>5, <2>6, <4>1, <4>4, <4>5
      <3> QED
        BY <1>2, <3>3, <3>4
    <2> QED
      BY <2>7, <2>8
  <1> QED
    BY <1>8, <1>9

\* Every step of the sending task.
LEMMA SendingStep ==
  ASSUME IInv, Sending
  PROVE  IInv'
  <1>1. TypeOK'
    BY SendingTypes
  <1>2. CASE ConnectFails \/ AcceptFails \/ SendFails
    <2>1. sPc # "ended" /\ UNCHANGED <<sList, sEnd, sIdx, sSeeked, sOff, sStop, rVars, log, rd>>
      BY <1>2 DEF ConnectFails, AcceptFails, SendFails, SendPcs
    <2>2. sState \in TransferState \ {"COMPLETED", "ABORTING"}
          /\ "PAUSED" \in TransferState /\ "PREPARING" \in TransferState
      BY <2>1, SenderFacts DEF SenderTypes, IInv, BookInv, TransferState
    <2>3. \E st \in TransferState \ {"COMPLETED", "ABORTING"} : SenderExit(st)
      BY <1>2, <2>2 DEF ConnectFails, AcceptFails, SendFails
    <2> QED
      BY <1>1, <2>1, <2>3, GivesUp
  <1> QED
    BY <1>1, <1>2, DialSteps, AcceptedStep, SendFlagStep, SendItemStep, SendChunkStep,
       SendEndStep DEF Sending

-----------------------------------------------------------------------------
(* Steps of the receiving task: what it reads next follows from what it    *)
(* consumed last and the grammar.                                          *)
LEMMA ReceiverFacts ==
  ASSUME IInv
  PROVE  /\ TypeOK /\ ReceiverTypes
         /\ rFile \in 0..NFiles /\ rFile \in Nat /\ rSeeked \in Nat
         /\ (rFile # 0 => rFile \in Files /\ Size[rFile] \in Nat)
         /\ disk \in [Files -> Seq(Token)]
         /\ log \in Seq(Token) /\ Len(log) \in Nat /\ rd \in Nat /\ rd <= Len(log)
  <1>1. TypeOK /\ ReceiverTypes /\ StreamTypes
    BY TypeParts DEF IInv
  <1>2. rFile \in 0..NFiles /\ rSeeked \in Nat /\ disk \in [Files -> Seq(Token)]
    BY <1>1 DEF ReceiverTypes
  <1>3. rFile \in Nat /\ (rFile # 0 => rFile \in Files)
    BY <1>2, FilesNat
  <1>4. log \in Seq(Token) /\ rd \in 0..Len(log)
    BY <1>1 DEF StreamTypes
  <1>5. Len(log) \in Nat
    BY <1>4
  <1> QED
    BY <1>1, <1>2, <1>3, <1>4, <1>5, SizesNat

\* What is read next is what the sender wrote there.
LEMMA NextElement ==
  ASSUME IInv, rd < Len(log)
  PROVE  /\ rd + 1 \in 1..Len(log) /\ (rd + 1) - 1 = rd /\ (rd + 1) - 2 = rd - 1
         /\ log[rd + 1] \in Token
         /\ rd > 0 => log[rd] # End
         /\ ~Cut
         /\ \/ MoreAt(rd + 1)
            \/ \E f \in Files : ItemAt(rd + 1, f)
            \/ \E f \in Files : \E u \in 1..Size[f] : DataAt(rd + 1, f, u)
            \/ EndAt(rd + 1)
  <1>1. /\ rd \in Nat /\ Len(log) \in Nat /\ log \in Seq(Token)
    BY ReceiverFacts
  <1>2. rd + 1 \in 1..Len(log) /\ (rd + 1) - 1 = rd /\ (rd + 1) - 2 = rd - 1
    BY <1>1
  <1>3. rd > 0 => log[rd] # End
    <2> SUFFICES ASSUME rd > 0, log[rd] = End PROVE FALSE
      OBVIOUS
    <2>1. rd \in 1..Len(log) /\ rd # Len(log)
      BY <1>1
    <2>2. ~MoreAt(rd) /\ ~EndAt(rd) /\ \A f \in Files : ~ItemAt(rd, f)
      BY <2>1, Tokens DEF MoreAt, EndAt, ItemAt
    <2>3. \A f \in Files : \A u \in 1..Size[f] : ~DataAt(rd, f, u)
      BY Tokens DEF DataAt
    <2> QED
      BY <2>1, <2>2, <2>3 DEF IInv, LogInv
  <1> QED
    BY <1>1, <1>2, <1>3 DEF IInv, LogInv, Cut

\* At the head of its loop the receiver reads a flag.
LEMMA FlagIsNext ==
  ASSUME IInv, rPc = "flag", rd < Len(log)
  PROVE  \/ /\ log[rd + 1] = More
            /\ IF rFile = 0 THEN rd = 0
               ELSE rd > 0 /\ log[rd] = Data(rFile, Size[rFile])
         \/ /\ log[rd + 1] = End
            /\ sStop \/ (rFile # 0 /\ rFile = sEnd)
  <1>1. IF rFile = 0 THEN rd = 0
        ELSE rd > 0 /\ log[rd] = IF Size[rFile] = 0 THEN Item(rFile) ELSE Data(rFile, Size[rFile])
    BY NextElement DEF IInv, RecvInv
  <1>2. (rd + 1) - 1 = rd /\ rd \in Nat
    BY NextElement, ReceiverFacts
  <1>3. CASE MoreAt(rd + 1)
    BY <1>1, <1>2, <1>3, Tokens DEF MoreAt
  <1>4. \A f \in Files : ~ItemAt(rd + 1, f)
    BY <1>1, <1>2, Tokens DEF ItemAt
  <1>5. \A f \in Files : \A u \in 1..Size[f] : ~DataAt(rd + 1, f, u)
    <2> SUFFICES ASSUME NEW f \in Files, NEW u \in 1..Size[f], DataAt(rd + 1, f, u) PROVE FALSE
      OBVIOUS
    <2>1. rd > 0 /\ log[rd] = IF u = 1 THEN Item(f) ELSE Data(f, u - 1)
      BY <1>2 DEF DataAt
    <2>2. rFile \in Files /\ Size[rFile] \in Nat
      BY <1>1, <2>1, ReceiverFacts
    <2>3. CASE Size[rFile] = 0
      BY <1>1, <2>1, <2>2, <2>3, Tokens
    <2>4. CASE Size[rFile] # 0
      BY <1>1, <2>1, <2>2, <2>4, Tokens
    <2> QED
      BY <2>3, <2>4
  <1>6. CASE EndAt(rd + 1)
    <2>1. log[rd + 1] = End
      BY <1>6 DEF EndAt
    <2>2. CASE ~sStop
      <3>1. rd + 1 > 1 /\ sEnd \in Files /\ log[rd] = Data(sEnd, Size[sEnd])
        BY <1>2, <1>6, <2>2 DEF EndAt
      <3>2. rFile # 0 /\ rFile = sEnd
        BY <1>1, <1>2, <3>1, Tokens
      <3> QED
        BY <2>1, <3>2
    <2> QED
      BY <2>1, <2>2
  <1> QED
    BY <1>3, <1>4, <1>5, <1>6, NextElement

\* After a flag it reads the item of the next file.
LEMMA ItemIsNext ==
  ASSUME IInv, rPc = "item", rd < Len(log)
  PROVE  log[rd + 1] = Item(rFile + 1) /\ rFile + 1 \in Files
  <1>1. /\ rd > 0 /\ log[rd] = More
        /\ IF rFile = 0 THEN rd = 1 ELSE rd > 1 /\ log[rd - 1] = Data(rFile, Size[rFile])
    BY DEF IInv, RecvInv
  <1>2. (rd + 1) - 1 = rd /\ (rd + 1) - 2 = rd - 1 /\ rd \in Nat /\ rFile \in Nat
    BY NextElement, ReceiverFacts
  <1>3. ~MoreAt(rd + 1) /\ ~EndAt(rd + 1)
    BY <1>1, <1>2, Tokens DEF MoreAt, EndAt
  <1>4. \A f \in Files : \A u \in 1..Size[f] : ~DataAt(rd + 1, f, u)
    BY <1>1, <1>2, Tokens DEF DataAt
  <1>5. ASSUME NEW f \in Files, ItemAt(rd + 1, f) PROVE f = rFile + 1 /\ log[rd + 1] = Item(f)
    <2>1. CASE f = 1
      BY <1>1, <1>2, <1>5, <2>1 DEF ItemAt
    <2>2. CASE f # 1
      <3>1. rd > 1 /\ log[rd - 1] = Data(f - 1, Size[f - 1])
        BY <1>2, <1>5, <2>2 DEF ItemAt
      <3>2. rFile = f - 1
        BY <1>1, <3>1, Tokens
      <3> QED
        BY <1>2, <1>5, <3>2, FilesNat DEF ItemAt
    <2> QED
      BY <2>1, <2>2
  <1> QED
    BY <1>3, <1>4, <1>5, NextElement

\* In a file it reads the next unit, or the end flag of a cancelled sender.
LEMMA UnitIsNext ==
  ASSUME IInv, rPc = "chunk", rd < Len(log)
  PROVE  /\ rSeeked < Size[rFile] /\ rFile \in Files
         /\ \/ log[rd + 1] = Data(rFile, rSeeked + 1) /\ rSeeked + 1 <= Written(rFile)
            \/ log[rd + 1] = End /\ sStop
  <1>1. /\ rFile \in Files /\ rSeeked < Size[rFile]
        /\ rd > 0 /\ log[rd] = IF rSeeked = 0 THEN Item(rFile) ELSE Data(rFile, rSeeked)
    BY NextElement DEF IInv, RecvInv
  <1>2. (rd + 1) - 1 = rd /\ rd \in Nat /\ rSeeked \in Nat /\ Size[rFile] \in Nat
    BY <1>1, NextElement, ReceiverFacts, SizesNat
  <1>3. ~MoreAt(rd + 1)
    BY <1>1, <1>2, Tokens DEF MoreAt
  <1>4. \A f \in Files : ~ItemAt(rd + 1, f)
    BY <1>1, <1>2, Tokens DEF ItemAt
  <1>5. ASSUME NEW f \in Files, NEW u \in 1..Size[f], DataAt(rd + 1, f, u)
        PROVE  log[rd + 1] = Data(rFile, rSeeked + 1) /\ rSeeked + 1 <= Written(rFile)
    <2>1. log[rd] = IF u = 1 THEN Item(f) ELSE Data(f, u - 1)
      BY <1>2, <1>5 DEF DataAt
    <2>2. f = rFile /\ u = rSeeked + 1
      <3>1. CASE u = 1
        BY <1>1, <2>1, <3>1, Tokens
      <3>2. CASE u # 1
        <4>1. f = rFile /\ u - 1 = rSeeked
          BY <1>1, <2>1, <3>2, Tokens
        <4> QED
          BY <1>2, <4>1
      <3> QED
        BY <3>1, <3>2
    <2> QED
      BY <1>5, <2>2 DEF DataAt
  <1>6. CASE EndAt(rd + 1)
    <2>1. ~sStop => log[rd] = Data(sEnd, Size[sEnd])
      BY <1>2, <1>6 DEF EndAt
    <2>2. sStop
      BY <1>1, <1>2, <2>1, Tokens
    <2> QED
      BY <1>1, <1>6, <2>2 DEF EndAt
  <1> QED
    BY <1>1, <1>3, <1>4, <1>5, <1>6, NextElement

(* An end flag the task has consumed without ending came from a sender     *)
(* that was cancelled.                                                     *)
LEMMA FlagInFile ==
  ASSUME IInv, rPc \in RecvPcs, rd > 0, log[rd] = End
  PROVE  sStop
  <1> SUFFICES ASSUME ~Cut PROVE FALSE
    BY DEF Cut
  <1>1. CASE rPc = "flag"
    BY <1>1, Tokens, ReceiverFacts DEF IInv, RecvInv
  <1>2. CASE rPc = "item"
    BY <1>2, Tokens DEF IInv, RecvInv
  <1>3. CASE rPc = "chunk"
    BY <1>3, Tokens DEF IInv, RecvInv
  <1> QED
    BY <1>1, <1>2, <1>3 DEF RecvPcs

\* What is left to show of a step of the receiving task.
LEMMA ReceivingSuffices ==
  ASSUME IInv, TypeOK', UNCHANGED <<sVars, log>>, RecvInv', DiskInv', EndFlagMeansComplete'
  PROVE  IInv'
  BY SenderKept DEF IInv

(* What sender-side names mean is unchanged in a step of the receiver.     *)
LEMMA SenderSame ==
  ASSUME UNCHANGED <<sVars, log>>
  PROVE  /\ UNCHANGED <<sStop, sEnd, log>>
         /\ \A f \in Files : Written(f)' = Written(f)
  BY DEF sVars, Written

(* The task ends without reading on.                                       *)
LEMMA StopsReading ==
  ASSUME IInv, TypeOK', UNCHANGED <<sVars, log, rd, rFile, disk>>,
         rPc \in RecvPcs, rPc' = "ended"
  PROVE  IInv'
  <1>1. RecvInv'
    BY DEF RecvInv
  <1>2. DiskInv'
    BY SenderSame DEF IInv, DiskInv, ContentIntegrity, RecvPcs, Cut
  <1>3. EndFlagMeansComplete'
    BY FlagInFile, SenderSame DEF EndFlagMeansComplete
  <1> QED
    BY <1>1, <1>2, <1>3, ReceivingSuffices

\* The file connection handler takes the connection up.
LEMMA FileConnectionStep ==
  ASSUME IInv, TypeOK', FileConnection
  PROVE  IInv'
  <1>1. /\ rPc = "idle" /\ rPc' \in {"assertion", "flag"}
        /\ UNCHANGED <<sVars, log, rd, rFile, rSeeked, disk>>
    BY DEF FileConnection
  <1>2. rd = 0 /\ rFile = 0
    BY <1>1 DEF IInv, RecvInv
  <1>3. RecvInv'
    BY <1>1, <1>2 DEF RecvInv
  <1>4. \A f \in Files : ~(f < 0)
    BY FilesNat
  <1>5. DiskInv'
    BY <1>1, <1>2, <1>4, SenderSame DEF IInv, DiskInv, ContentIntegrity, Cut
  <1>6. EndFlagMeansComplete'
    BY <1>1 DEF EndFlagMeansComplete
  <1> QED
    BY <1>1, <1>3, <1>5, <1>6, ReceivingSuffices

\* A flag, or the end of the stream in its place.
LEMMA RecvFlagStep ==
  ASSUME IInv, TypeOK', RecvFlag
  PROVE  IInv'
  <1>1. rPc = "flag" /\ UNCHANGED <<sVars, log, rFile, rSeeked, disk>>
    BY DEF RecvFlag
  <1>2. CASE AtEof /\ UNCHANGED rd /\ ReceiverExit("COMPLETED")
    BY <1>1, <1>2, StopsReading DEF ReceiverExit, RecvPcs
  <1>3. CASE /\ Available /\ rd' = rd + 1
             /\ IF rStop \/ log[rd + 1] = End THEN ReceiverExit("COMPLETED")
                ELSE rPc' = "item" /\ rPast' = rOpen /\ UNCHANGED <<rState, rBook, rClosed>>
    <2>1. rd < Len(log) /\ rd \in Nat /\ rFile \in Nat
      BY <1>3, ReceiverFacts DEF Available
    <2>2. /\ \/ /\ log[rd + 1] = More
                /\ IF rFile = 0 THEN rd = 0 ELSE rd > 0 /\ log[rd] = Data(rFile, Size[rFile])
             \/ log[rd + 1] = End /\ (sStop \/ (rFile # 0 /\ rFile = sEnd))
          /\ ~Cut
      BY <1>1, <2>1, FlagIsNext, NextElement
    <2>3. /\ \A f \in Files : f < rFile => Len(disk[f]) = Size[f]
          /\ rFile # 0 => Len(disk[rFile]) = Size[rFile]
      BY <1>1, <2>2 DEF IInv, DiskInv, RecvPcs
    <2>4. CASE rStop \/ log[rd + 1] = End
      <3>1. rPc' = "ended"
        BY <1>3, <2>4 DEF ReceiverExit
      <3>2. RecvInv'
        BY <3>1 DEF RecvInv
      <3>3. DiskInv'
        BY <1>1, <2>2, <3>1, SenderSame DEF IInv, DiskInv, ContentIntegrity, RecvPcs
      <3>4. EndFlagMeansComplete'
        <4> SUFFICES ASSUME log[rd + 1] = End, ~sStop, NEW f \in 1..sEnd
                     PROVE  Len(disk[f]) = Size[f]
          BY <1>1, <1>3, SenderSame DEF EndFlagMeansComplete
        <4>1. rFile = sEnd /\ rFile # 0
          BY <2>2, Tokens
        <4>2. f \in Files /\ (f < rFile \/ f = rFile)
          BY <2>1, <4>1, ReceiverFacts, FilesNat
        <4> QED
          BY <2>3, <4>1, <4>2
      <3> QED
        BY <1>1, <3>2, <3>3, <3>4, ReceivingSuffices
    <2>5. CASE ~(rStop \/ log[rd + 1] = End)
      <3>1. rPc' = "item" /\ log[rd + 1] = More
            /\ IF rFile = 0 THEN rd = 0 ELSE rd > 0 /\ log[rd] = Data(rFile, Size[rFile])
        BY <1>3, <2>2, <2>5
      <3>2. RecvInv'
        <4>1. rd' > 0 /\ rd' - 1 = rd /\ (rd > 0 => rd' > 1) /\ (rd = 0 => rd' = 1)
          BY <1>3, <2>1
        <4> QED
          BY <1>1, <1>3, <3>1, <4>1, SenderSame DEF RecvInv
      <3>3. DiskInv'
        BY <1>1, <2>2, <2>3, <3>1, SenderSame DEF IInv, DiskInv, ContentIntegrity
      <3>4. EndFlagMeansComplete'
        BY <3>1 DEF EndFlagMeansComplete
      <3> QED
        BY <1>1, <3>2, <3>3, <3>4, ReceivingSuffices
    <2> QED
      BY <2>4, <2>5
  <1> QED
    BY <1>2, <1>3 DEF RecvFlag

\* An item, whose file is opened.
LEMMA RecvItemStep ==
  ASSUME IInv, TypeOK', RecvItem
  PROVE  IInv'
  <1>1. /\ rPc = "item" /\ rd' = rd + 1 /\ rFile' = log[rd + 1].file /\ rSeeked' = 0
        /\ rd < Len(log) /\ UNCHANGED <<sVars, log, disk>>
    BY DEF RecvItem, Available
  <1>2. log[rd + 1] = Item(rFile + 1) /\ rFile + 1 \in Files /\ ~Cut
        /\ rd \in Nat /\ rFile \in Nat
    BY <1>1, ItemIsNext, NextElement, ReceiverFacts
  <1>3. rFile' = rFile + 1 /\ rFile' # 0 /\ rFile' \in Files
    BY <1>1, <1>2, Tokens
  <1>4. rd' > 0 /\ log'[rd'] = Item(rFile')
    BY <1>1, <1>2, <1>3
  <1>5. log'[rd'] # End /\ ~Cut'
    BY <1>4, Tokens DEF Cut
  <1>6. \A f \in Files : f < rFile' => Len(disk[f]) = Size[f]
    <2> SUFFICES ASSUME NEW f \in Files, f < rFile' PROVE Len(disk[f]) = Size[f]
      OBVIOUS
    <2>1. f < rFile \/ (f = rFile /\ rFile # 0)
      BY <1>2, <1>3, FilesNat
    <2> QED
      BY <1>1, <1>2, <2>1 DEF IInv, DiskInv, RecvPcs
  <1>7. /\ \A f \in Files : f > rFile' => disk[f] = <<>>
        /\ disk[rFile'] = <<>>
    <2>1. \A f \in Files : f > rFile' => f > rFile
      BY <1>2, <1>3, FilesNat
    <2>2. rFile' > rFile
      BY <1>2, <1>3
    <2> QED
      BY <1>3, <2>1, <2>2 DEF IInv, DiskInv
  <1>8. Len(disk[rFile']) = 0
    BY <1>7
  <1>9. Size[rFile'] \in Nat
    BY <1>3, SizesNat
  <1>10. ContentIntegrity' /\ (\A f \in Files : Len(disk'[f]) <= Size[f])
         /\ (~sStop' => \A f \in Files : Len(disk'[f]) <= Written(f)')
    BY <1>1, SenderSame DEF IInv, DiskInv, ContentIntegrity
  <1>11. EndFlagMeansComplete'
    BY <1>4, <1>5 DEF EndFlagMeansComplete
  <1>12. \A f \in Files : \A u \in 1..Len(disk'[f]) : disk'[f][u] # End
    BY <1>1, <1>2 DEF IInv, DiskInv
  <1>13. CASE Size[rFile'] = 0 /\ NextFlag
    <2>1. rPc' \in {"flag", "ended"}
      BY <1>13 DEF NextFlag, ReceiverExit
    <2>2. RecvInv'
      BY <1>3, <1>4, <1>13, <2>1 DEF RecvInv
    <2>3. DiskInv'
      BY <1>1, <1>6, <1>7, <1>8, <1>10, <1>13, <1>12, <2>1 DEF DiskInv
    <2> QED
      BY <1>1, <1>11, <2>2, <2>3, ReceivingSuffices
  <1>14. CASE Size[rFile'] # 0 /\ rPc' = "chunk"
    <2>1. RecvInv'
      BY <1>1, <1>3, <1>4, <1>9, <1>14 DEF RecvInv
    <2>2. DiskInv'
      BY <1>1, <1>6, <1>7, <1>8, <1>10, <1>14, <1>12 DEF DiskInv
    <2> QED
      BY <1>1, <1>11, <2>1, <2>2, ReceivingSuffices
  <1> QED
    BY <1>1, <1>13, <1>14 DEF RecvItem

(* A unit, or the end flag of a cancelled sender, is written to the file.  *)
LEMMA RecvDataStep ==
  ASSUME IInv, TypeOK', RecvData
  PROVE  IInv'
  <1>1. /\ rPc = "chunk" /\ rd' = rd + 1 /\ rSeeked' = rSeeked + 1 /\ rd < Len(log)
        /\ disk' = [disk EXCEPT ![rFile] = Append(@, log[rd + 1])]
        /\ UNCHANGED <<sVars, log, rFile>>
    BY DEF RecvData, Available
  <1>2. /\ ~Cut /\ rFile \in Files /\ rFile \in Nat /\ rFile # 0 /\ rSeeked < Size[rFile]
        /\ \/ log[rd + 1] = Data(rFile, rSeeked + 1) /\ rSeeked + 1 <= Written(rFile)
           \/ log[rd + 1] = End /\ sStop
    BY <1>1, UnitIsNext, NextElement, FilesNat
  <1>3. /\ rd \in Nat /\ rSeeked \in Nat /\ Size[rFile] \in Nat /\ log[rd + 1] \in Token
        /\ disk[rFile] \in Seq(Token)
    BY <1>1, <1>2, ReceiverFacts, NextElement
  <1>4. Len(disk[rFile]) = rSeeked
    BY <1>1, <1>2 DEF IInv, DiskInv
  <1>5. /\ Len(disk'[rFile]) = rSeeked + 1
        /\ disk'[rFile][rSeeked + 1] = log[rd + 1]
        /\ \A u \in 1..rSeeked : disk'[rFile][u] = disk[rFile][u]
    <2>1. disk'[rFile] = Append(disk[rFile], log[rd + 1])
      BY <1>1, <1>2, ReceiverFacts
    <2> QED
      BY <1>3, <1>4, <2>1, AppendProperties
  <1>6. \A f \in Files : f # rFile => disk'[f] = disk[f]
    BY <1>1, ReceiverFacts
  <1>7. UNCHANGED <<sStop, sEnd, log>> /\ \A f \in Files : Written(f)' = Written(f)
    BY <1>1, SenderSame
  <1>8. ContentIntegrity'
    <2> SUFFICES ASSUME NEW f \in Files, NEW u \in 1..Len(disk'[f])
                 PROVE  \/ disk'[f][u] = Data(f, u)
                        \/ sStop /\ disk'[f][u] = End /\ u = Len(disk'[f])
      BY <1>7 DEF ContentIntegrity
    <2>1. CASE f # rFile
      BY <1>6, <2>1 DEF IInv, DiskInv, ContentIntegrity
    <2>2. CASE f = rFile /\ u = rSeeked + 1
      BY <1>2, <1>5, <2>2
    <2>3. CASE f = rFile /\ u \in 1..rSeeked
      <3>1. disk[rFile][u] = Data(rFile, u) \/ (sStop /\ disk[rFile][u] = End /\ u = rSeeked)
        BY <1>4, <2>3 DEF IInv, DiskInv, ContentIntegrity
      <3>2. disk[rFile][u] = Data(rFile, u)
        BY <1>2, <2>3, <1>4, <3>1 DEF IInv, DiskInv
      <3> QED
        BY <1>5, <2>3, <3>2
    <2> QED
      BY <1>3, <1>5, <2>1, <2>2, <2>3

<1>9. rd' > 0 /\ log'[rd'] = log[rd + 1]
    BY <1>1, <1>3, <1>7
  <1>10. ~Cut' => log[rd + 1] = Data(rFile, rSeeked + 1)
    BY <1>2, <1>7, <1>9 DEF Cut
  <1>11. \A f \in Files : \A u \in 1..Len(disk'[f]) : disk'[f][u] = End => Cut'
    <2> SUFFICES ASSUME NEW f \in Files, NEW u \in 1..Len(disk'[f]), disk'[f][u] = End, ~Cut'
                 PROVE  FALSE
      OBVIOUS
    <2>1. CASE f # rFile
      BY <1>2, <1>6, <2>1 DEF IInv, DiskInv
    <2>2. CASE f = rFile /\ u = rSeeked + 1
      BY <1>5, <1>10, <2>2, Tokens
    <2>3. CASE f = rFile /\ u \in 1..rSeeked
      BY <1>2, <1>4, <1>5, <2>3 DEF IInv, DiskInv
    <2> QED
      BY <1>3, <1>5, <2>1, <2>2, <2>3
  <1>12. /\ \A f \in Files : Len(disk'[f]) <= Size[f]
         /\ ~sStop' => \A f \in Files : Len(disk'[f]) <= Written(f)'
         /\ \A f \in Files : f > rFile' => disk'[f] = <<>>
    <2>1. rSeeked + 1 <= Size[rFile] /\ (~sStop => rSeeked + 1 <= Written(rFile))
      BY <1>2, <1>3
    <2>2. \A f \in Files : f > rFile => f # rFile
      BY <1>2, FilesNat
    <2>3. \A f \in Files : Len(disk'[f]) <= Size[f]
      BY <1>5, <1>6, <2>1 DEF IInv, DiskInv
    <2>4. ~sStop => \A f \in Files : Len(disk'[f]) <= Written(f)
      BY <1>5, <1>6, <2>1 DEF IInv, DiskInv
    <2>5. \A f \in Files : f > rFile => disk'[f] = <<>>
      BY <1>6, <2>2 DEF IInv, DiskInv
    <2> QED
      BY <1>1, <1>7, <2>3, <2>4, <2>5
  <1>13. \A f \in Files : f < rFile' => Len(disk'[f]) = Size[f]
    <2>1. \A f \in Files : f < rFile => f # rFile
      BY <1>2, FilesNat
    <2> QED
      BY <1>1, <1>2, <1>6, <2>1 DEF IInv, DiskInv, RecvPcs
  <1>14. EndFlagMeansComplete'
    BY <1>2, <1>7, <1>9, Tokens DEF EndFlagMeansComplete
  <1>15. \/ rPc' = "ended"
         \/ rPc' = "flag" /\ rSeeked + 1 = Size[rFile]
         \/ rPc' = "chunk" /\ rSeeked + 1 # Size[rFile]
    BY <1>1 DEF RecvData, NextFlag, ReceiverExit
  <1>16. RecvInv'
    <2>1. CASE rPc' = "ended"
      BY <2>1 DEF RecvInv
    <2>2. CASE rPc' = "flag" /\ rSeeked + 1 = Size[rFile]
      <3>1. Size[rFile] # 0
        BY <1>3, <2>2
      <3> QED
        BY <1>1, <1>2, <1>9, <1>10, <2>2, <3>1 DEF RecvInv
    <2>3. CASE rPc' = "chunk" /\ rSeeked + 1 # Size[rFile]
      <3>1. rSeeked + 1 < Size[rFile] /\ rSeeked + 1 # 0
        BY <1>2, <1>3, <2>3
      <3> QED
        BY <1>1, <1>2, <1>9, <1>10, <2>3, <3>1 DEF RecvInv
    <2> QED
      BY <1>15, <2>1, <2>2, <2>3
  <1>17. DiskInv'
    <2>1. rPc' \in {"flag", "item"} => Len(disk'[rFile']) = Size[rFile']
      BY <1>1, <1>5, <1>15
    <2>2. rPc' = "chunk" => Len(disk'[rFile']) = rSeeked'
      BY <1>1, <1>5
    <2> QED
      BY <1>8, <1>11, <1>12, <1>13, <2>1, <2>2 DEF DiskInv
  <1> QED
    BY <1>1, <1>14, <1>16, <1>17, ReceivingSuffices

\* Types: every step of the receiving task.
LEMMA ReceivingTypes ==
  ASSUME IInv, Receiving
  PROVE  TypeOK'
  <1>a. TypeOK /\ SenderTypes /\ ReceiverTypes /\ StreamTypes
    BY TypeParts DEF IInv
  <1>b. rState \in TransferState /\ "PAUSED" \in TransferState
        /\ "COMPLETED" \in TransferState /\ "RECEIVING" \in TransferState
    BY <1>a DEF ReceiverTypes, TransferState
  <1>c. UNCHANGED sVars => SenderTypes'
    BY <1>a DEF sVars, SenderTypes
  <1>d. /\ rState \in TransferState /\ rFile \in 0..NFiles /\ rSeeked \in Nat
        /\ rStop \in BOOLEAN /\ rOpen \in BOOLEAN /\ rPast \in BOOLEAN /\ rBook \in Books
        /\ disk \in [Files -> Seq(Token)] /\ log \in Seq(Token) /\ rd \in 0..Len(log)
    BY <1>a DEF ReceiverTypes, StreamTypes
  <1> SUFFICES ReceiverTypes' /\ UNCHANGED sVars /\ StreamTypes'
    BY <1>c, TypeParts
  <1>e. rd < Len(log) => rd + 1 \in 0..Len(log)
    BY <1>d
  <1>1. CASE FileConnection
    BY <1>1, <1>a, <1>b DEF FileConnection, ReceiverTypes, StreamTypes, Books
  <1>2. CASE Refuse
    BY <1>2, <1>a DEF Refuse, ReceiverTypes, StreamTypes, rVars
  <1>3. CASE RecvFlag
    <2>1. rd' \in 0..Len(log)
      BY <1>3, <1>d, <1>e DEF RecvFlag, Available
    <2>2. \/ ReceiverExit("COMPLETED")
          \/ rPc' = "item" /\ rPast' = rOpen /\ UNCHANGED <<rState, rBook, rClosed>>
      BY <1>3 DEF RecvFlag
    <2>3. /\ rState' \in TransferState /\ rPc' \in {"ended", "item"} /\ rClosed' \in BOOLEAN
          /\ rPast' \in BOOLEAN /\ rBook' \in Books
      BY <1>a, <1>b, <1>d, <2>2, ReceiverExitTypes DEF StreamTypes
    <2> QED
      BY <1>3, <1>a, <2>1, <2>3 DEF RecvFlag, ReceiverTypes, StreamTypes
  <1>4. CASE RecvItem
    <2>1. rd < Len(log) /\ rPc = "item"
      BY <1>4 DEF RecvItem, Available
    <2>2. rFile' \in 0..NFiles
      <3>1. log[rd + 1].file \in Files
        BY <2>1, ItemIsNext, Tokens
      <3> QED
        BY <1>4, <3>1, FilesNat DEF RecvItem
    <2>3. \/ ReceiverExit("COMPLETED")
          \/ /\ rPc' \in {"flag", "chunk"} /\ rPast' = rOpen
             /\ UNCHANGED <<rState, rBook, rClosed>>
      BY <1>4 DEF RecvItem, NextFlag
    <2>4. /\ rState' \in TransferState /\ rPc' \in {"ended", "flag", "chunk"}
          /\ rClosed' \in BOOLEAN /\ rPast' \in BOOLEAN /\ rBook' \in Books
      BY <1>a, <1>b, <1>d, <2>3, ReceiverExitTypes DEF StreamTypes
    <2> QED
      BY <1>4, <1>a, <1>e, <2>1, <2>2, <2>4 DEF RecvItem, ReceiverTypes, StreamTypes
  <1>5. CASE RecvItemShort \/ RecvDataEof \/ RecvFails
    <2>1. \E st \in TransferState : ReceiverExit(st)
      BY <1>5, <1>b DEF RecvItemShort, RecvDataEof, RecvFails
    <2>2. /\ rState' \in TransferState /\ rPc' = "ended" /\ rClosed' = TRUE
          /\ rPast' \in BOOLEAN /\ rBook' \in Books
      BY <1>a, <2>1, ReceiverExitTypes
    <2>3. UNCHANGED <<sVars, rFile, rSeeked, rStop, rOpen, disk, log, rd, conn, sClosed,
                      broken, calm>>
      BY <1>5 DEF RecvItemShort, RecvDataEof, RecvFails
    <2> QED
      BY <1>a, <2>2, <2>3 DEF ReceiverTypes, StreamTypes
  <1>6. CASE RecvData
    <2>1. rd < Len(log) /\ rPc = "chunk"
      BY <1>6 DEF RecvData, Available
    <2>2. disk' \in [Files -> Seq(Token)]
      <3>1. log[rd + 1] \in Token /\ rFile \in Files
        BY <2>1, UnitIsNext, NextElement
      <3> QED
        BY <1>6, <1>d, <3>1, AppendProperties DEF RecvData
    <2>3. \/ ReceiverExit("COMPLETED")
          \/ /\ rPc' \in {"flag", "chunk"} /\ rPast' = rOpen
             /\ UNCHANGED <<rState, rBook, rClosed>>
      BY <1>6, <2>1 DEF RecvData, NextFlag
    <2>4. /\ rState' \in TransferState /\ rPc' \in {"ended", "flag", "chunk"}
          /\ rClosed' \in BOOLEAN /\ rPast' \in BOOLEAN /\ rBook' \in Books
      BY <1>a, <1>b, <1>d, <2>3, ReceiverExitTypes DEF StreamTypes
    <2> QED
      BY <1>6, <1>a, <1>e, <2>1, <2>2, <2>4 DEF RecvData, ReceiverTypes, StreamTypes
  <1> QED
    BY <1>1, <1>2, <1>3, <1>4, <1>5, <1>6 DEF Receiving

\* Every step of the receiving task.
LEMMA ReceivingStep ==
  ASSUME IInv, Receiving
  PROVE  IInv'
  <1>1. TypeOK'
    BY ReceivingTypes
  <1>2. CASE Refuse
    <2>1. UNCHANGED <<sVars, log, rd, rPc, rFile, rSeeked, disk>>
      BY <1>2 DEF Refuse, rVars
    <2>2. RecvInv' /\ DiskInv' /\ EndFlagMeansComplete'
      BY <2>1, SenderSame DEF IInv, RecvInv, DiskInv, ContentIntegrity, EndFlagMeansComplete, Cut
    <2> QED
      BY <1>1, <2>1, <2>2, ReceivingSuffices
  <1>3. CASE RecvItemShort \/ RecvDataEof \/ RecvFails
    <2>1. rPc \in RecvPcs /\ rPc' = "ended" /\ UNCHANGED <<sVars, log, rd, rFile, disk>>
      BY <1>3 DEF RecvItemShort, RecvDataEof, RecvFails, ReceiverExit, RecvPcs
    <2> QED
      BY <1>1, <2>1, StopsReading
  <1> QED
    BY <1>1, <1>2, <1>3, FileConnectionStep, RecvFlagStep, RecvItemStep, RecvDataStep
       DEF Receiving

-----------------------------------------------------------------------------
(* Steps of the user and of the network.                                   *)
LEMMA UserTypes ==
  ASSUME IInv, User \/ Break
  PROVE  TypeOK'
  <1>a. TypeOK /\ SenderTypes /\ ReceiverTypes /\ StreamTypes
    BY TypeParts DEF IInv
  <1>b. "PAUSED" \in TransferState /\ "RECEIVING" \in TransferState
        /\ "SENDING" \in TransferState
    BY DEF TransferState
  <1>c. (UNCHANGED rVars => ReceiverTypes') /\ (UNCHANGED sVars => SenderTypes')
    BY <1>a DEF rVars, ReceiverTypes, sVars, SenderTypes
  <1> SUFFICES SenderTypes' /\ ReceiverTypes' /\ StreamTypes'
    BY TypeParts
  <1>1. CASE PauseSender
    BY <1>1, <1>a, <1>b, <1>c DEF PauseSender, SenderTypes, StreamTypes
  <1>2. CASE ResumeSender
    BY <1>2, <1>a, <1>b, <1>c DEF ResumeSender, SenderTypes, StreamTypes
  <1>3. CASE CancelSender
    BY <1>3, <1>a, <1>c DEF CancelSender, SenderTypes, StreamTypes
  <1>4. CASE AttachFiles
    <2>1. sList' \in Files
      BY <1>4, <1>a, FilesNat DEF AttachFiles, SenderTypes
    <2> QED
      BY <1>4, <1>a, <1>c, <2>1 DEF AttachFiles, SenderTypes, StreamTypes
  <1>5. CASE PauseReceiver
    BY <1>5, <1>a, <1>b, <1>c DEF PauseReceiver, ReceiverTypes, StreamTypes
  <1>6. CASE ResumeReceiver
    BY <1>6, <1>a, <1>b, <1>c DEF ResumeReceiver, ReceiverTypes, StreamTypes
  <1>7. CASE CancelReceiver
    BY <1>7, <1>a, <1>c DEF CancelReceiver, ReceiverTypes, StreamTypes
  <1>8. CASE Break
    BY <1>8, <1>a, <1>c DEF Break, StreamTypes
  <1> QED
    BY <1>1, <1>2, <1>3, <1>4, <1>5, <1>6, <1>7, <1>8 DEF User

(* Cancelling the sender only weakens what the stream must still say.      *)
LEMMA CancelStep ==
  ASSUME IInv, TypeOK', CancelSender
  PROVE  IInv'
  <1>1. sStop' /\ UNCHANGED <<sState, sPc, sEnd, sIdx, sSeeked, sOff, sBook, rVars, log, rd>>
    BY DEF CancelSender
  <1>2. Onward
    <2>1. \A f \in Files : Written(f)' = Written(f) /\ Written(f) \in Nat
      BY <1>1, WrittenNat DEF Written, IInv
    <2> QED
      BY <1>1, <2>1, SenderFacts DEF Onward
  <1>3. LogInv'
    BY <1>1, <1>2, GrammarKept DEF IInv
  <1>4. SendInv'
    BY <1>1 DEF IInv, SendInv, LastSent, Written
  <1>5. SeekInv'
    BY <1>1 DEF IInv, SeekInv, Written
  <1>6. BookInv'
    BY <1>1 DEF IInv, BookInv, LastSent
  <1> QED
    BY <1>1, <1>2, <1>3, <1>4, <1>5, <1>6, SendingSuffices

\* Pause, resume, cancel, attach, and a reset of the connection.
LEMMA UserStep ==
  ASSUME IInv, User \/ Break
  PROVE  IInv'
  <1>1. TypeOK'
    BY UserTypes
  <1>2. CASE PauseSender \/ ResumeSender \/ AttachFiles
    <2>1. /\ UNCHANGED <<sPc, sEnd, sIdx, sSeeked, sOff, sStop, sBook, rVars, log, rd>>
          /\ sState' \in {sState, "PAUSED", "SENDING"}
      BY <1>2 DEF PauseSender, ResumeSender, AttachFiles
    <2>2. Onward /\ LogInv'
      BY <1>1, <2>1, SenderStays
    <2>3. SendInv'
      BY <2>1 DEF IInv, SendInv, LastSent, Written
    <2>4. SeekInv'
      BY <2>1 DEF IInv, SeekInv, Written
    <2>5. BookInv'
      BY <2>1 DEF IInv, BookInv, LastSent
    <2> QED
      BY <1>1, <2>1, <2>2, <2>3, <2>4, <2>5, SendingSuffices
  <1>3. CASE PauseReceiver \/ ResumeReceiver \/ CancelReceiver \/ Break
    <2>1. UNCHANGED <<sVars, log, rd, rPc, rFile, rSeeked, disk>>
      BY <1>3 DEF PauseReceiver, ResumeReceiver, CancelReceiver, Break, rVars
    <2>2. RecvInv' /\ DiskInv' /\ EndFlagMeansComplete'
      BY <2>1, SenderSame DEF IInv, RecvInv, DiskInv, ContentIntegrity, EndFlagMeansComplete, Cut
    <2> QED
      BY <1>1, <2>1, <2>2, ReceivingSuffices
  <1> QED
    BY <1>1, <1>2, <1>3, CancelStep DEF User

\* Nothing changes.
LEMMA StutterStep ==
  ASSUME IInv, UNCHANGED vars
  PROVE  IInv'
  <1>1. UNCHANGED <<sVars, rVars, log, rd, conn, sClosed, rClosed, broken, calm>>
    BY DEF vars, sVars, rVars
  <1>2. TypeOK'
    BY <1>1 DEF IInv, TypeOK, sVars, rVars
  <1>3. RecvInv' /\ DiskInv' /\ EndFlagMeansComplete'
    <2>1. UNCHANGED <<rd, rPc, rFile, rSeeked, disk>>
      BY <1>1 DEF rVars
    <2> QED
      BY <1>1, <2>1, SenderSame
         DEF IInv, RecvInv, DiskInv, ContentIntegrity, EndFlagMeansComplete, Cut
  <1> QED
    BY <1>1, <1>2, <1>3, ReceivingSuffices

\* Every action keeps the invariant.
LEMMA NextIInv == IInv /\ [Next]_vars => IInv'
  BY SendingStep, ReceivingStep, UserStep, StutterStep DEF Next, Finished

-----------------------------------------------------------------------------
(* The inductive invariant holds in every reachable state: the grammar of  *)
(* the stream that send_files writes, and where both tasks stand in it.    *)
THEOREM Invariance == Spec => []IInv
  BY InitIInv, NextIInv, PTL DEF Spec

(* Every variable keeps its type.  That the file the receiver opens is one *)
(* of the sender's, and that it has one open when it writes, is part of it *)
(* (receiver.py trusts the item it unpacked): the grammar is needed.       *)
THEOREM TypeCorrect == Spec => []TypeOK
  <1>1. IInv => TypeOK
    BY DEF IInv
  <1> QED
    BY <1>1, Invariance, PTL

(* What the receiver writes at position u of a file is unit u of that file *)
(* (recv_file_contents writes what arrives, wherever it is).               *)
THEOREM DiskHoldsTheFiles == Spec => []ContentIntegrity
  <1>1. IInv => ContentIntegrity
    BY DEF IInv, DiskInv
  <1> QED
    BY <1>1, Invariance, PTL

(* The recorded seek lags what is in the stream by at most one chunk.      *)
THEOREM SeekIsClose == Spec => []SeekWithinOneChunk
  <1>1. ASSUME IInv PROVE SeekWithinOneChunk
    <2> SUFFICES ASSUME NEW f \in Files
                 PROVE  /\ sSeeked[f] <= Written(f) /\ Written(f) <= sSeeked[f] + ChunkLen
                        /\ Written(f) <= Size[f] /\ Len(disk[f]) <= Size[f]
                        /\ Len(disk[f]) > Written(f) => sStop
      BY DEF SeekWithinOneChunk
    <2>1. sSeeked[f] \in Nat /\ sOff \in Nat /\ ChunkLen \in Nat /\ sOff < ChunkLen
      BY <1>1, SenderFacts DEF IInv, SeekInv
    <2>2. sSeeked[f] <= Written(f) /\ Written(f) <= sSeeked[f] + ChunkLen
      BY <2>1 DEF Written
    <2>3. Written(f) <= Size[f]
      <3>1. CASE f = sIdx
        BY <1>1, <3>1 DEF IInv, SeekInv
      <3>2. CASE f # sIdx
        BY <1>1, <2>1, <3>2 DEF IInv, SeekInv, Written
      <3> QED
        BY <3>1, <3>2
    <2>4. disk[f] \in Seq(Token) /\ Written(f) \in Nat
      BY <1>1, ReceiverFacts, WrittenNat
    <2>5. Len(disk[f]) \in Nat
      BY <2>4
    <2>6. Len(disk[f]) <= Size[f] /\ (~sStop => Len(disk[f]) <= Written(f))
      BY <1>1 DEF IInv, DiskInv
    <2> QED
      BY <2>2, <2>3, <2>4, <2>5, <2>6
  <1> QED
    BY <1>1, Invariance, PTL

(* A receiver that ends at the end flag of a sender that was not cancelled *)
(* has every file of the range on disk.                                    *)
THEOREM EndFlagIsTruthful == Spec => []EndFlagMeansComplete
  <1>1. IInv => EndFlagMeansComplete
    BY DEF IInv
  <1> QED
    BY <1>1, Invariance, PTL

(* A handle that _send_finalize filed as completed has sent everything.    *)
THEOREM CompletedIsTruthful == Spec => []CompletedMeansSent
  <1>1. IInv => CompletedMeansSent
    BY DEF IInv, BookInv, CompletedMeansSent, LastSent
  <1> QED
    BY <1>1, Invariance, PTL

(* After the end flag no step of any task, user or network adds to the     *)
(* stream.                                                                 *)
THEOREM EndFlagIsLast == Spec => NothingAfterEnd
  <1>1. ASSUME IInv, [Next]_vars
        PROVE  [log # <<>> /\ log[Len(log)] = End => log' = log]_vars
    <2> SUFFICES ASSUME log # <<>>, log[Len(log)] = End PROVE log' = log
      OBVIOUS
    <2>1. Len(log) \in 1..Len(log)
      BY <1>1, SenderFacts
    <2>2. EndAt(Len(log))
      <3>1. ~MoreAt(Len(log)) /\ \A f \in Files : ~ItemAt(Len(log), f)
        BY Tokens DEF MoreAt, ItemAt
      <3>2. \A f \in Files : \A u \in 1..Size[f] : ~DataAt(Len(log), f, u)
        BY Tokens DEF DataAt
      <3> QED
        BY <1>1, <2>1, <3>1, <3>2 DEF IInv, LogInv
    <2>3. sPc = "ended"
      BY <2>2 DEF EndAt
    <2>4. CASE Sending
      BY <2>3, <2>4 DEF Sending, SendFilesToPeer, Connected, ConnectFails, Accepted,
         AcceptFails, SendFlag, SendItem, ReadChunk, SendChunk, SendEnd, SendFails, SendPcs
    <2>5. CASE Receiving
      BY <2>5 DEF Receiving, FileConnection, Refuse, RecvFlag, RecvItem, RecvItemShort,
         RecvData, RecvDataEof, RecvFails
    <2>6. CASE User \/ Break
      BY <2>6 DEF User, PauseSender, ResumeSender, CancelSender, AttachFiles,
         PauseReceiver, ResumeReceiver, CancelReceiver, Break
    <2>7. CASE UNCHANGED vars
      BY <2>7 DEF vars
    <2> QED
      BY <1>1, <2>4, <2>5, <2>6, <2>7 DEF Next, Finished
  <1> QED
    BY <1>1, Invariance, PTL DEF Spec, NothingAfterEnd
=============================================================================
