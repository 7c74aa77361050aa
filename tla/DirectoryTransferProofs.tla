---------------------- MODULE DirectoryTransferProofs ----------------------
(***************************************************************************)
(* Proofs about DirectoryTransfer: what a directory received holds, that   *)
(* nothing in the download directory is overwritten, that a sender which   *)
(* reads the receiver's codes is past a file only when the receiver has    *)
(* it, and that such a sender and its receiver never wait for each other.  *)
(***************************************************************************)
EXTENDS DirectoryTransfer, SequenceTheorems, FiniteSetTheorems, WellFoundedInduction, TLAPS

Items(t) == 1..Len(Tree[t])
SizeAt(t, i) == Tree[t][i].size
PathAt(t, i) == Tree[t][i].path

\* The first n units of item i.
Units(t, i, n) == [u \in 1..n |-> <<t, i, u>>]

-----------------------------------------------------------------------------
(* The download directory: every path is below an entry of the top level,  *)
(* which is one of those that were there or the root of one transfer.      *)

Taken == dirs \cup DOMAIN files
Tops == {<<p[1]>> : p \in DOMAIN SavedFiles} \cup {root[t] : t \in Transfer}

RootInv ==
    /\ \A p \in Taken : Sequence(p) /\ p # <<>> /\ <<p[1]>> \in Taken \cap Tops
    /\ \A p \in DOMAIN files : Sequence(files[p])
    /\ \A t \in Transfer : root[t] # <<>> => root[t] = <<root[t][1]>> /\ root[t] \in dirs
    /\ \A t, u \in Transfer : root[t] # <<>> /\ root[t] = root[u] => t = u
    /\ \A t \in Transfer : rpc[t] = "idle" => root[t] = <<>>
    /\ \A t \in Transfer : rpc[t] \in ReceiverOn => root[t] # <<>>

\* The variables are functions; nothing is said of their values.
Map(f) == f = [t \in Transfer |-> f[t]]
MapInv ==
    /\ Map(spc) /\ Map(item) /\ Map(sent) /\ Map(skipped) /\ Map(gone)
    /\ Map(wire) /\ Map(acks) /\ Map(closed) /\ Map(rpc) /\ Map(root) /\ Map(current)
    /\ \A t \in Transfer : current[t] = [path |-> current[t].path, size |-> current[t].size,
                                         seeked |-> current[t].seeked]
    /\ files = [p \in DOMAIN files |-> files[p]]

-----------------------------------------------------------------------------
(* The tasks *)

SenderOver == {"done", "failed"}
NotBegun == {"idle", "raised", "confirm"}

TaskOK(t) ==
    /\ spc[t] \in {"idle", "confirm"} \cup SenderOn \cup SenderOver
    /\ item[t] \in 0..(Len(Tree[t]) + 1) /\ sent[t] \in Nat /\ acks[t] \in Nat
    /\ gone[t] \subseteq Items(t)
    /\ spc[t] \in SenderOn \ {"end"} => item[t] \in Items(t)
    /\ spc[t] \in {"size", "chunk", "ack"} => Tree[t][item[t]].kind = "file"
    /\ spc[t] = "chunk" => sent[t] < SizeAt(t, item[t])
    /\ spc[t] \in {"code", "parts", "size"} => sent[t] = 0
    /\ spc[t] \in {"idle", "confirm"} => wire[t] = <<>> /\ acks[t] <= 1
    /\ spc[t] = "idle" => rpc[t] = "idle"
    /\ rpc[t] \in NotBegun =>
         /\ acks[t] = 0 /\ wire[t] = <<>>
         /\ spc[t] \in {"idle", "confirm", "failed"} /\ "receiver" \notin closed[t]
    /\ "receiver" \in closed[t] => rpc[t] \in {"ended", "failed"}
    /\ spc[t] \in {"idle", "confirm"} => rpc[t] \in NotBegun \cup {"code", "ended", "failed"}
    /\ rpc[t] \in NotBegun \cup ReceiverOn \cup {"ended", "failed"}

-----------------------------------------------------------------------------
(* The stream: the units of a file follow its size, in order.              *)

\* The k-th element of the stream is, or will be, unit u of item i, if the sender
\* gets as far.
DataAt(t, k, i, u) ==
    IF k <= Len(wire[t]) THEN wire[t][k] = Data(t, i, u)
    ELSE spc[t] \in SenderOver \/ (spc[t] = "chunk" /\ item[t] = i /\ sent[t] + 1 = u)

SizeToken(t, k) ==
    \E i \in Items(t) :
        /\ wire[t][k] = SizeOf(SizeAt(t, i))
        /\ SizeAt(t, i) > 0 => DataAt(t, k + 1, i, 1)
DataToken(t, k) ==
    \E i \in Items(t), u \in Nat \ {0} :
        /\ u <= SizeAt(t, i)
        /\ wire[t][k] = Data(t, i, u)
        /\ u < SizeAt(t, i) => DataAt(t, k + 1, i, u + 1)
TokenOK(t, k) ==
    \/ \E what \in {"file", "dir", "end"} : wire[t][k] = Code(what)
    \/ \E i \in Items(t) : wire[t][k] = Parts(PathAt(t, i))
    \/ SizeToken(t, k)
    \/ DataToken(t, k)

WireOK(t) == Sequence(wire[t]) /\ \A k \in 1..Len(wire[t]) : TokenOK(t, k)

-----------------------------------------------------------------------------
(* The receiver and its files *)

\* The file in hand has the units of one item that came so far; the next one is next.
InHand(t) ==
    LET f == current[t] IN
    /\ f.path \in DOMAIN files /\ f.path[1] = root[t][1]
    /\ f.seeked \in Nat /\ f.seeked < f.size
    /\ \E i \in Items(t) :
        /\ f.size = SizeAt(t, i)
        /\ files[f.path] = Units(t, i, f.seeked)
        /\ DataAt(t, 1, i, f.seeked + 1)

HandOK(t) ==
    /\ rpc[t] = "size" => \E i \in Items(t) : current[t].path = root[t] \o PathAt(t, i)
    /\ rpc[t] = "chunk" => InHand(t)

\* Every file of the transfer is whole, or is the one the receiver is or failed at.
OwnFile(t, p) ==
    \E i \in Items(t), n \in Nat :
        /\ n <= SizeAt(t, i) /\ files[p] = Units(t, i, n)
        /\ n = SizeAt(t, i) \/ (p = current[t].path /\ rpc[t] \in {"chunk", "failed"})

OwnOK(t) == \A p \in DOMAIN files : root[t] # <<>> /\ p[1] = root[t][1] => OwnFile(t, p)

-----------------------------------------------------------------------------
(* A sender that reads the codes *)

Attentive(t) == build[t].asserts /\ spc[t] \in SenderOn

\* What the stream holds of files is of the sender's item.
LiveToken(t, k) ==
    LET i == item[t]
        token == wire[t][k]
    IN
    /\ token.kind = "size" =>
        /\ token.what = SizeAt(t, i) /\ spc[t] \in {"chunk", "ack"}
        /\ token.what = 0 => k = Len(wire[t]) /\ spc[t] = "ack"
    /\ token.kind = "data" =>
        /\ token.what[2] = i /\ spc[t] \in {"chunk", "ack"}
        /\ token.what[3] = SizeAt(t, i) => k = Len(wire[t]) /\ spc[t] = "ack"
    /\ /\ token.kind = "parts"
       /\ IF k = Len(wire[t]) THEN spc[t] = "size" ELSE wire[t][k + 1].kind = "size"
       => token.what = PathAt(t, i)

\* The receiver has item i, in a way that lasts.
Kept(t, i) ==
    \/ Tree[t][i].kind = "dir"
    \/ SizeAt(t, i) = 0 /\ Exists(root[t] \o PathAt(t, i))
    \/ SizeAt(t, i) > 0 /\ Stored(t, i)

LiveHand(t) ==
    LET i == item[t] IN
    /\ rpc[t] = "size" /\ (IF wire[t] = <<>> THEN spc[t] = "size" ELSE wire[t][1].kind = "size")
         => current[t].path = root[t] \o PathAt(t, i)
    /\ rpc[t] = "chunk" => Front(current[t].path) = root[t] \o Front(PathAt(t, i))
    /\ acks[t] > 0 =>
         /\ acks[t] = 1 /\ spc[t] = "ack" /\ wire[t] = <<>>
         /\ rpc[t] \in {"code", "ended", "failed"} /\ Kept(t, i)
    /\ rpc[t] = "ack" => spc[t] = "ack" /\ wire[t] = <<>> /\ Kept(t, i)

LiveOK(t) == Attentive(t) => LiveHand(t) /\ \A k \in 1..Len(wire[t]) : LiveToken(t, k)

KeptOK(t) ==
    build[t].asserts /\ spc[t] \in SenderOn \cup {"done"} =>
        \A i \in 1..(item[t] - 1) \ skipped[t] : Kept(t, i)

TransferOK(t) == TaskOK(t) /\ WireOK(t) /\ HandOK(t) /\ OwnOK(t) /\ LiveOK(t) /\ KeptOK(t)

IInv == MapInv /\ RootInv /\ \A t \in Transfer : TransferOK(t)

-----------------------------------------------------------------------------
(* Sequences *)

\* Sequence says no more than that there is a set of elements.
LEMMA SequenceIs ==
  ASSUME NEW S, NEW s \in Seq(S)
  PROVE  Sequence(s)
BY DEF Sequence

\* A sequence with one element more.
LEMMA Appended ==
  ASSUME NEW s, NEW e, Sequence(s)
  PROVE  /\ Sequence(Append(s, e)) /\ Append(s, e) # <<>>
         /\ Len(s) \in Nat /\ Len(Append(s, e)) = Len(s) + 1
         /\ \A k \in 1..Len(s) : Append(s, e)[k] = s[k]
         /\ Append(s, e)[Len(s) + 1] = e
<1> DEFINE S == {s[i] : i \in 1..Len(s)} \cup {e}
<1>1. s \in Seq(S)
  BY DEF Sequence
<1> HIDE DEF S
<1>2. e \in S
  BY DEF S
<1>3. Append(s, e) \in Seq(S)
  BY <1>1, <1>2
<1>4. Sequence(Append(s, e))
  BY <1>3, SequenceIs
<1>5. Len(s) \in Nat /\ Len(Append(s, e)) = Len(s) + 1 /\ Append(s, e) # <<>>
  BY <1>1, <1>2
<1>6. /\ \A k \in 1..Len(s) : Append(s, e)[k] = s[k]
      /\ Append(s, e)[Len(s) + 1] = e
  BY <1>1, <1>2
<1> QED  BY <1>4, <1>5, <1>6

\* A sequence without its first element.
LEMMA Tailed ==
  ASSUME NEW s, Sequence(s), s # <<>>
  PROVE  /\ Sequence(Tail(s)) /\ Head(s) = s[1]
         /\ Len(s) \in Nat /\ Len(s) > 0 /\ Len(Tail(s)) = Len(s) - 1
         /\ \A k \in 1..(Len(s) - 1) : Tail(s)[k] = s[k + 1]
<1> DEFINE S == {s[i] : i \in 1..Len(s)}
<1>1. s \in Seq(S)
  BY DEF Sequence
<1> HIDE DEF S
<1>2. Tail(s) \in Seq(S)
  BY <1>1
<1>3. Sequence(Tail(s))
  BY <1>2, SequenceIs
<1>4. Head(s) = s[1] /\ Len(s) \in Nat /\ Len(s) > 0 /\ Len(Tail(s)) = Len(s) - 1
  BY <1>1
<1>5. \A k \in 1..(Len(s) - 1) : Tail(s)[k] = s[k + 1]
  BY <1>1
<1> QED  BY <1>3, <1>4, <1>5

\* A sequence is empty if its length is 0.
LEMMA EmptySequence ==
  /\ Sequence(<<>>) /\ Len(<<>>) = 0
  /\ \A s : Sequence(s) => Len(s) \in Nat /\ (s = <<>> <=> Len(s) = 0)
<1>1. \A s : Sequence(s) => Len(s) \in Nat /\ (s = <<>> <=> Len(s) = 0)
  BY DEF Sequence
<1> QED  BY <1>1 DEF Sequence

\* A sequence without its last element is a sequence of the same elements.
LEMMA FrontOfSeq ==
  ASSUME NEW S, NEW s \in Seq(S), s # <<>>
  PROVE  /\ SubSeq(s, 1, Len(s) - 1) \in Seq(S)
         /\ Len(SubSeq(s, 1, Len(s) - 1)) = Len(s) - 1
         /\ \A i \in 1..(Len(s) - 1) : SubSeq(s, 1, Len(s) - 1)[i] = s[i]
<1>1. PICK n \in Nat : Len(s) = n + 1
  <2>1. Len(s) \in Nat /\ Len(s) > 0
    OBVIOUS
  <2> QED  BY <2>1
<1>2. Len(s) - 1 = n
  BY <1>1
<1>3. \A i \in 1..n : s[i] \in S
  BY <1>1
<1>4. /\ SubSeq(s, 1, n) \in Seq(S)
      /\ Len(SubSeq(s, 1, n)) = IF 1 <= n THEN n - 1 + 1 ELSE 0
      /\ \A i \in 1..(n - 1 + 1) : SubSeq(s, 1, n)[i] = s[1 + i - 1]
  <2>1. n \in Int /\ 1 \in Int
    OBVIOUS
  <2> QED  BY <1>3, <2>1, SubSeqProperties
<1>5. Len(SubSeq(s, 1, n)) = n
  BY <1>4
<1>6. ASSUME NEW i \in 1..n  PROVE  SubSeq(s, 1, n)[i] = s[i]
  <2>1. i \in 1..(n - 1 + 1) /\ 1 + i - 1 = i
    OBVIOUS
  <2> QED  BY <1>4, <2>1
<1> QED  BY <1>2, <1>4, <1>5, <1>6

\* A path below another.
LEMMA Joined ==
  ASSUME NEW p, NEW q, Sequence(p), Sequence(q), p # <<>>, q # <<>>
  PROVE  /\ Sequence(p \o q) /\ p \o q # <<>> /\ Len(p \o q) > 1
         /\ (p \o q)[1] = p[1]
         /\ Front(p \o q) = p \o Front(q)
<1> DEFINE S == {p[i] : i \in 1..Len(p)} \cup {q[i] : i \in 1..Len(q)}
<1>1. p \in Seq(S) /\ q \in Seq(S)
  BY DEF Sequence
<1> HIDE DEF S
<1>2. /\ p \o q \in Seq(S) /\ Len(p) \in Nat \ {0} /\ Len(q) \in Nat \ {0}
      /\ Len(p \o q) = Len(p) + Len(q)
      /\ \A i \in 1..(Len(p) + Len(q)) : (p \o q)[i] = IF i <= Len(p) THEN p[i] ELSE q[i - Len(p)]
  BY <1>1
<1>3. Sequence(p \o q) /\ p \o q # <<>> /\ Len(p \o q) > 1 /\ (p \o q)[1] = p[1]
  <2>1. Sequence(p \o q)
    BY <1>2, SequenceIs
  <2>2. Len(p \o q) > 1 /\ (p \o q)[1] = p[1]
    BY <1>2
  <2>3. p \o q # <<>>
    BY <2>2, EmptySequence
  <2> QED  BY <2>1, <2>2, <2>3
<1>4. Front(p \o q) = p \o Front(q)
  <2>1. /\ Front(q) \in Seq(S) /\ Len(Front(q)) = Len(q) - 1
        /\ \A i \in 1..(Len(q) - 1) : Front(q)[i] = q[i]
    BY <1>1, <1>2, FrontOfSeq DEF Front
  <2>2. /\ Front(p \o q) \in Seq(S) /\ Len(Front(p \o q)) = Len(p) + Len(q) - 1
        /\ \A i \in 1..(Len(p) + Len(q) - 1) : Front(p \o q)[i] = (p \o q)[i]
    BY <1>2, <1>3, FrontOfSeq DEF Front
  <2>3. /\ p \o Front(q) \in Seq(S) /\ Len(p \o Front(q)) = Len(p) + Len(q) - 1
        /\ \A i \in 1..(Len(p) + Len(q) - 1) :
             (p \o Front(q))[i] = IF i <= Len(p) THEN p[i] ELSE Front(q)[i - Len(p)]
    <3> DEFINE f == Front(q)
    <3>1. f \in Seq(S) /\ Len(f) = Len(q) - 1
      BY <2>1
    <3> HIDE DEF f
    <3>2. Len(f) \in Nat /\ Len(p) + Len(f) = Len(p) + Len(q) - 1
      BY <1>2, <3>1
    <3>3. /\ p \o f \in Seq(S) /\ Len(p \o f) = Len(p) + Len(f)
          /\ \A i \in 1..(Len(p) + Len(f)) : (p \o f)[i] = IF i <= Len(p) THEN p[i] ELSE f[i - Len(p)]
      BY <1>1, <3>1
    <3> QED  BY <3>2, <3>3 DEF f
  <2>4. ASSUME NEW i \in 1..(Len(p) + Len(q) - 1)
        PROVE  Front(p \o q)[i] = (p \o Front(q))[i]
    <3>1. i \in 1..(Len(p) + Len(q)) /\ i \in Nat
      BY <1>2
    <3>2. CASE i <= Len(p)
      BY <1>2, <2>2, <2>3, <3>1, <3>2
    <3>3. CASE ~(i <= Len(p))
      <4>1. i - Len(p) \in 1..(Len(q) - 1)
        BY <1>2, <3>1, <3>3
      <4>2. Front(p \o q)[i] = q[i - Len(p)]
        BY <1>2, <2>2, <3>1, <3>3
      <4>3. (p \o Front(q))[i] = Front(q)[i - Len(p)]
        BY <2>3, <3>3
      <4> QED  BY <2>1, <4>1, <4>2, <4>3
    <3> QED  BY <3>2, <3>3
  <2> QED  BY <1>2, <2>2, <2>3, <2>4, SeqEqual
<1> QED  BY <1>3, <1>4

\* A path with another last name.
LEMMA Renamed ==
  ASSUME NEW p, NEW name, Sequence(p), Len(p) > 1
  PROVE  /\ Sequence(Append(Front(p), name)) /\ Append(Front(p), name) # <<>>
         /\ Append(Front(p), name)[1] = p[1]
         /\ Front(Append(Front(p), name)) = Front(p)
<1> DEFINE S == {p[i] : i \in 1..Len(p)} \cup {name}
<1>1. p \in Seq(S) /\ Len(p) \in Nat /\ name \in S /\ p # <<>>
  BY EmptySequence DEF Sequence
<1> HIDE DEF S
<1>2. /\ Front(p) \in Seq(S) /\ Len(Front(p)) = Len(p) - 1
      /\ \A i \in 1..(Len(p) - 1) : Front(p)[i] = p[i]
  BY <1>1, FrontOfSeq DEF Front
<1> DEFINE f == Front(p)
<1>3. f \in Seq(S) /\ Len(f) \in Nat /\ Len(f) >= 1 /\ f[1] = p[1]
  BY <1>1, <1>2
<1> HIDE DEF f
<1>4. /\ Append(f, name) \in Seq(S) /\ Append(f, name) # <<>> /\ Append(f, name)[1] = f[1]
      /\ Len(Append(f, name)) = Len(f) + 1 /\ \A i \in 1..Len(f) : Append(f, name)[i] = f[i]
  BY <1>1, <1>3
<1>5. Front(Append(f, name)) = f
  <2>1. /\ Front(Append(f, name)) \in Seq(S) /\ Len(Front(Append(f, name))) = Len(f)
        /\ \A i \in 1..Len(f) : Front(Append(f, name))[i] = Append(f, name)[i]
    <3>1. Len(Append(f, name)) - 1 = Len(f)
      BY <1>3, <1>4
    <3> QED  BY <1>4, <3>1, FrontOfSeq DEF Front
  <2> QED  BY <1>3, <1>4, <2>1, SeqEqual
<1> QED  BY <1>3, <1>4, <1>5, SequenceIs DEF f

\* Units come one after the other.
LEMMA UnitsGrow ==
  ASSUME NEW t, NEW i, NEW n \in Nat
  PROVE  /\ Sequence(Units(t, i, n)) /\ Len(Units(t, i, n)) = n
         /\ Units(t, i, 0) = <<>>
         /\ Append(Units(t, i, n), <<t, i, n + 1>>) = Units(t, i, n + 1)
<1> DEFINE S == {<<t, i, u>> : u \in Nat}
<1>1. \A m \in Nat : Units(t, i, m) \in Seq(S) /\ Len(Units(t, i, m)) = m
  BY DEF Units
<1>2. Units(t, i, 0) = <<>>
  BY <1>1, SequenceIs, EmptySequence
<1>3. Append(Units(t, i, n), <<t, i, n + 1>>) = Units(t, i, n + 1)
  <2> DEFINE s == Units(t, i, n)
             e == <<t, i, n + 1>>
  <2>1. e \in S /\ s \in Seq(S) /\ Len(s) = n /\ \A k \in 1..n : s[k] = <<t, i, k>>
    BY <1>1 DEF Units
  <2> HIDE DEF S, s, e
  <2>2. /\ Append(s, e) \in Seq(S) /\ Len(Append(s, e)) = n + 1
        /\ \A k \in 1..(n + 1) : Append(s, e)[k] = IF k = n + 1 THEN e ELSE s[k]
    BY <2>1
  <2>3. /\ Units(t, i, n + 1) \in Seq(S) /\ Len(Units(t, i, n + 1)) = n + 1
        /\ \A k \in 1..(n + 1) : Units(t, i, n + 1)[k] = <<t, i, k>>
    BY <1>1 DEF Units
  <2>4. \A k \in 1..(n + 1) : Append(s, e)[k] = Units(t, i, n + 1)[k]
    <3> SUFFICES ASSUME NEW k \in 1..(n + 1) PROVE Append(s, e)[k] = <<t, i, k>>
      BY <2>3
    <3>1. CASE k = n + 1
      BY <2>2, <3>1 DEF e
    <3>2. CASE k \in 1..n
      BY <2>1, <2>2, <3>2
    <3>3. k = n + 1 \/ k \in 1..n
      OBVIOUS
    <3> QED  BY <3>1, <3>2, <3>3
  <2>5. Append(s, e) = Units(t, i, n + 1)
    BY <2>2, <2>3, <2>4, SeqEqual
  <2> QED  BY <2>5 DEF s, e
<1> QED  BY <1>1, <1>2, <1>3, SequenceIs

\* Fewer units of an item are a prefix of more.
LEMMA UnitsPrefix ==
  ASSUME NEW t, NEW i, NEW m \in Nat, NEW n \in Nat, m <= n
  PROVE  IsPrefix(Units(t, i, m), Units(t, i, n))
<1> DEFINE S == {<<t, i, u>> : u \in Nat}
           a == Units(t, i, m)
           b == Units(t, i, n)
<1>1. /\ a \in Seq(S) /\ b \in Seq(S) /\ Len(a) = m /\ Len(b) = n
      /\ \A k \in 1..m : a[k] = b[k] /\ a[k] \in S /\ b[k] \in S
  BY DEF Units
<1> HIDE DEF S, a, b
<1>2. /\ SubSeq(a, 1, m) \in Seq(S)
      /\ Len(SubSeq(a, 1, m)) = (IF 1 <= m THEN m - 1 + 1 ELSE 0)
      /\ \A k \in 1..(m - 1 + 1) : SubSeq(a, 1, m)[k] = a[1 + k - 1]
  <2>1. m \in Int /\ 1 \in Int /\ \A k \in 1..m : a[k] \in S
    BY <1>1
  <2> QED  BY <2>1, SubSeqProperties
<1>3. /\ SubSeq(b, 1, m) \in Seq(S)
      /\ Len(SubSeq(b, 1, m)) = (IF 1 <= m THEN m - 1 + 1 ELSE 0)
      /\ \A k \in 1..(m - 1 + 1) : SubSeq(b, 1, m)[k] = b[1 + k - 1]
  <2>1. m \in Int /\ 1 \in Int /\ \A k \in 1..m : b[k] \in S
    BY <1>1
  <2> QED  BY <2>1, SubSeqProperties
<1>4. m - 1 + 1 = m /\ Len(SubSeq(a, 1, m)) = m /\ Len(SubSeq(b, 1, m)) = m
  BY <1>2, <1>3
<1>5. ASSUME NEW k \in 1..m  PROVE  SubSeq(a, 1, m)[k] = SubSeq(b, 1, m)[k]
  <2>1. k \in 1..(m - 1 + 1) /\ 1 + k - 1 = k
    OBVIOUS
  <2> QED  BY <1>1, <1>2, <1>3, <2>1
<1>6. SubSeq(a, 1, m) = SubSeq(b, 1, m)
  BY <1>2, <1>3, <1>4, <1>5, SeqEqual
<1> QED  BY <1>1, <1>6 DEF IsPrefix, a, b

\* The units of a file tell which it is.
LEMMA UnitsDiffer ==
  ASSUME NEW t, NEW i, NEW m \in Nat, NEW u, NEW j, NEW n \in Nat, m > 0,
         Units(t, i, m) = Units(u, j, n)
  PROVE  t = u /\ i = j /\ m = n
<1>1. m = n
  BY UnitsGrow
<1>2. Units(t, i, m)[1] = <<t, i, 1>> /\ Units(u, j, n)[1] = <<u, j, 1>>
  BY <1>1 DEF Units
<1> QED  BY <1>1, <1>2

\* What has a root as a prefix begins with its name.
LEMMA PrefixOfTop ==
  ASSUME NEW a, NEW p, Sequence(p), IsPrefix(<<a>>, p)
  PROVE  p # <<>> /\ p[1] = a
<1> DEFINE S == {p[i] : i \in 1..Len(p)} \cup {a}
           q == <<a>>
<1>1. p \in Seq(S) /\ q \in Seq(S) /\ Len(q) = 1 /\ q[1] = a
  BY DEF Sequence
<1>2. Len(p) >= 1 /\ SubSeq(q, 1, 1) = SubSeq(p, 1, 1)
  BY <1>1 DEF IsPrefix
<1> HIDE DEF S, q
<1>3. \A s \in Seq(S) : Len(s) >= 1 => SubSeq(s, 1, 1)[1] = s[1]
  <2> SUFFICES ASSUME NEW s \in Seq(S), Len(s) >= 1 PROVE SubSeq(s, 1, 1)[1] = s[1]
    OBVIOUS
  <2>1. 1 \in Int /\ \A i \in 1..1 : s[i] \in S
    OBVIOUS
  <2>2. \A i \in 1..(1 - 1 + 1) : SubSeq(s, 1, 1)[i] = s[1 + i - 1]
    BY <2>1, SubSeqProperties
  <2> QED  BY <2>2
<1> QED  BY <1>1, <1>2, <1>3, EmptySequence

\* A file that does not change is a prefix of what it becomes.
LEMMA PrefixOfItself ==
  ASSUME NEW s, Sequence(s)
  PROVE  IsPrefix(s, s)
BY EmptySequence DEF IsPrefix

\* A whole file has all of its units.
LEMMA ContentsUnits == \A t, i : Contents(t, i) = Units(t, i, SizeAt(t, i))
BY DEF Contents, Units, SizeAt

\* What TreeAssumption and PathsAssumption say of an item.
LEMMA ItemTypes ==
  ASSUME NEW t \in Transfer, NEW i \in Items(t)
  PROVE  /\ Len(Tree[t]) \in Nat /\ i \in Nat /\ i >= 1
         /\ SizeAt(t, i) \in Nat /\ Tree[t][i].kind \in {"file", "dir"}
         /\ Sequence(PathAt(t, i)) /\ PathAt(t, i) # <<>>
<1>1. Len(Tree[t]) \in Nat
  BY PathsAssumption, EmptySequence
<1> QED  BY <1>1, PathsAssumption, TreeAssumption DEF Items, SizeAt, PathAt

-----------------------------------------------------------------------------
(* What a step of one transfer does to the download directory and leaves   *)
(* to the other transfers                                                  *)

\* Nothing of transfer u changes but what is on disk.
Same(u) ==
    /\ build'[u] = build[u] /\ spc'[u] = spc[u] /\ item'[u] = item[u] /\ sent'[u] = sent[u]
    /\ skipped'[u] = skipped[u] /\ gone'[u] = gone[u] /\ wire'[u] = wire[u] /\ acks'[u] = acks[u]
    /\ closed'[u] = closed[u] /\ rpc'[u] = rpc[u] /\ root'[u] = root[u] /\ current'[u] = current[u]

\* Only the file in hand of transfer t is changed, and new files go into its root.
DiskStep(t) ==
    /\ dirs \subseteq dirs' /\ DOMAIN files \subseteq DOMAIN files'
    /\ \A p \in DOMAIN files :
        files'[p] # files[p] => rpc[t] = "chunk" /\ p = current[t].path
    /\ \A p \in DOMAIN files' \ DOMAIN files : root[t] # <<>> /\ p[1] = root[t][1]

\* Two transfers never share a directory of the top level.
LEMMA DifferentRoots ==
  ASSUME RootInv, NEW t \in Transfer, NEW u \in Transfer, t # u, root[t] # <<>>, root[u] # <<>>
  PROVE  root[t][1] # root[u][1]
<1>1. root[t] = <<root[t][1]>> /\ root[u] = <<root[u][1]>> /\ root[t] # root[u]
  BY DEF RootInv
<1> QED  BY <1>1

\* A file of another transfer is not touched.
LEMMA NotTouched ==
  ASSUME IInv, NEW t \in Transfer, NEW u \in Transfer, t # u, DiskStep(t),
         root[u] # <<>>, NEW p \in DOMAIN files', p[1] = root[u][1]
  PROVE  p \in DOMAIN files /\ files'[p] = files[p]
<1>1. RootInv /\ HandOK(t)
  BY DEF IInv, TransferOK
<1>2. root[t] # <<>> => p[1] # root[t][1]
  BY <1>1, DifferentRoots
<1>3. p \in DOMAIN files
  BY <1>2 DEF DiskStep
<1>4. ASSUME rpc[t] = "chunk", p = current[t].path  PROVE  FALSE
  <2>1. p[1] = root[t][1] /\ root[t] # <<>>
    BY <1>1, <1>4 DEF HandOK, InHand, RootInv, ReceiverOn
  <2> QED  BY <1>2, <2>1
<1> QED  BY <1>3, <1>4 DEF DiskStep

\* What the receiver has of a file, it keeps.
LEMMA KeptLasts ==
  ASSUME IInv, NEW t \in Transfer, DiskStep(t), NEW u \in Transfer, root'[u] = root[u],
         NEW i \in Items(u), Kept(u, i)
  PROVE  Kept(u, i)'
<1>1. CASE Tree[u][i].kind = "dir"
  BY <1>1 DEF Kept
<1>2. CASE SizeAt(u, i) = 0 /\ Exists(root[u] \o PathAt(u, i))
  BY <1>2 DEF Kept, Exists, DiskStep, SizeAt, PathAt
<1>3. CASE SizeAt(u, i) > 0 /\ Stored(u, i)
  <2>1. PICK p \in DOMAIN files :
          Front(p) = root[u] \o Front(Tree[u][i].path) /\ files[p] = Units(u, i, SizeAt(u, i))
    BY <1>3, ContentsUnits DEF Stored
  <2>2. SizeAt(u, i) \in Nat
    BY ItemTypes
  <2>3. ASSUME rpc[t] = "chunk", p = current[t].path  PROVE  FALSE
    <3>1. InHand(t)
      BY <2>3 DEF IInv, TransferOK, HandOK
    <3>2. PICK j \in Items(t) : files[p] = Units(t, j, current[t].seeked) /\ current[t].size = SizeAt(t, j)
      BY <2>3, <3>1 DEF InHand
    <3>3. current[t].seeked \in Nat /\ current[t].seeked < SizeAt(t, j)
      BY <3>1, <3>2 DEF InHand
    <3>4. t = u /\ i = j /\ SizeAt(u, i) = current[t].seeked
      <4> DEFINE m == SizeAt(u, i)
                 n == current[t].seeked
      <4>1. m \in Nat /\ m > 0 /\ n \in Nat /\ Units(u, i, m) = Units(t, j, n)
        BY <1>3, <2>1, <2>2, <3>2, <3>3
      <4> HIDE DEF m, n
      <4>2. u = t /\ i = j /\ m = n
        BY <4>1, UnitsDiffer
      <4> QED  BY <4>2 DEF m, n
    <3> QED  BY <2>2, <3>3, <3>4
  <2>4. p \in DOMAIN files' /\ files'[p] = files[p]
    BY <2>3 DEF DiskStep
  <2>5. Stored(u, i)'
    BY <2>1, <2>4, ContentsUnits DEF Stored, Contents, Units, SizeAt
  <2> QED  BY <1>3, <2>5 DEF Kept, SizeAt
<1> QED  BY <1>1, <1>2, <1>3 DEF Kept

\* The transfers that do not take the step stay as they should be.
LEMMA OthersOK ==
  ASSUME IInv, NEW t \in Transfer, NEW u \in Transfer, t # u, Same(u), DiskStep(t)
  PROVE  TransferOK(u)'
<1>1. TransferOK(u) /\ RootInv
  BY DEF IInv
<1>2. TaskOK(u)'
  BY <1>1 DEF TransferOK, TaskOK, Same, Items, SizeAt
<1>3. \A k, i, n : DataAt(u, k, i, n)' <=> DataAt(u, k, i, n)
  BY DEF DataAt, Same
<1>4. WireOK(u)'
  BY <1>1, <1>3 DEF TransferOK, WireOK, TokenOK, SizeToken, DataToken, Same, Items, SizeAt, PathAt
<1>5. HandOK(u)'
  <2>1. rpc[u] = "size" => \E i \in Items(u) : current'[u].path = root'[u] \o PathAt(u, i)
    BY <1>1 DEF TransferOK, HandOK, Same
  <2>2. ASSUME rpc[u] = "chunk"  PROVE  InHand(u)'
    <3>1. InHand(u)
      BY <1>1, <2>2 DEF TransferOK, HandOK
    <3>2. root[u] # <<>>
      BY <1>1, <2>2 DEF RootInv, ReceiverOn
    <3>3. current[u].path \in DOMAIN files' /\ files'[current[u].path] = files[current[u].path]
      BY <3>1, <3>2, NotTouched DEF InHand, DiskStep
    <3> QED  BY <1>3, <3>1, <3>3 DEF InHand, Same, Items, SizeAt
  <2> QED  BY <2>1, <2>2 DEF HandOK, Same, Items, PathAt
<1>6. OwnOK(u)'
  <2> SUFFICES ASSUME NEW p \in DOMAIN files', root[u] # <<>>, p[1] = root[u][1]
               PROVE  OwnFile(u, p)'
    BY DEF OwnOK, Same
  <2>1. p \in DOMAIN files /\ files'[p] = files[p]
    BY NotTouched
  <2>2. OwnFile(u, p)
    BY <1>1, <2>1 DEF TransferOK, OwnOK
  <2> QED  BY <2>1, <2>2 DEF OwnFile, Same, Items, SizeAt
<1>7. LiveOK(u)'
  <2> SUFFICES ASSUME Attentive(u) PROVE LiveHand(u)' /\ \A k \in 1..Len(wire[u]) : LiveToken(u, k)'
    BY DEF LiveOK, Attentive, Same
  <2>1. LiveHand(u) /\ \A k \in 1..Len(wire[u]) : LiveToken(u, k)
    BY <1>1 DEF TransferOK, LiveOK
  <2>2. \A k \in 1..Len(wire[u]) : LiveToken(u, k)'
    BY <2>1 DEF LiveToken, Same, SizeAt, PathAt
  <2>3. Kept(u, item[u]) /\ spc[u] = "ack" => Kept(u, item[u])'
    BY <1>1, KeptLasts DEF TransferOK, TaskOK, Same, SenderOn
  <2>4. LiveHand(u)'
    BY <2>1, <2>3 DEF LiveHand, Same, PathAt
  <2> QED  BY <2>2, <2>4
<1>8. KeptOK(u)'
  <2> SUFFICES ASSUME build[u].asserts, spc[u] \in SenderOn \cup {"done"},
                      NEW i \in 1..(item[u] - 1) \ skipped[u]
               PROVE  Kept(u, i)'
    BY DEF KeptOK, Same
  <2>1. Kept(u, i)
    BY <1>1 DEF TransferOK, KeptOK
  <2>2. i \in Items(u)
    BY <1>1, PathsAssumption, EmptySequence DEF TransferOK, TaskOK, Items
  <2> QED  BY <2>1, <2>2, KeptLasts DEF Same
<1> QED  BY <1>2, <1>4, <1>5, <1>6, <1>7, <1>8 DEF TransferOK

-----------------------------------------------------------------------------
(* The sender *)

\* The first number from a on that is not in S.
LEMMA Least ==
  ASSUME NEW a \in Int, NEW b \in Int, NEW S, \E j \in a..b : j \notin S
  PROVE  \E j \in a..b : j \notin S /\ \A k \in a..(j - 1) : k \in S
<1> DEFINE T == {n \in Nat : a + n <= b /\ a + n \notin S}
<1>1. T \subseteq Nat /\ T # {}
  <2>1. PICK j \in a..b : j \notin S
    OBVIOUS
  <2>2. j - a \in Nat /\ a + (j - a) = j
    BY <2>1
  <2>3. j - a \in T
    BY <2>1, <2>2
  <2> QED  BY <2>3
<1> DEFINE R == OpToRel(<, Nat)
<1>2. IsWellFoundedOn(R, Nat)
  BY NatLessThanWellFounded
<1>3. \E x \in T : \A y \in T : ~(<<y, x>> \in R)
  <2> HIDE DEF T, R
  <2> QED  BY <1>1, <1>2, WFMin
<1>4. PICK x \in T : \A y \in T : ~(y < x)
  BY <1>3 DEF OpToRel
<1>5. ASSUME NEW k \in a..(a + x - 1), k \notin S  PROVE FALSE
  <2>1. k - a \in T /\ k - a < x
    BY <1>5
  <2> QED  BY <1>4, <2>1
<1> QED  BY <1>4, <1>5

\* What is left to show of a step of the sender of t: the parts about t.
LEMMA SenderStep ==
  ASSUME IInv, NEW t \in Transfer, MapInv', UNCHANGED <<build, rVars>>,
         \A u \in Transfer \ {t} : Same(u),
         TaskOK(t)', WireOK(t)', HandOK(t)', LiveOK(t)', KeptOK(t)'
  PROVE  IInv'
<1>1. RootInv' <=> RootInv
  BY DEF RootInv, rVars, Taken, Tops
<1>2. OwnOK(t)'
  BY DEF IInv, TransferOK, OwnOK, OwnFile, rVars, Items, SizeAt
<1>3. DiskStep(t)
  BY DEF DiskStep, rVars
<1>4. \A u \in Transfer \ {t} : TransferOK(u)'
  BY <1>3, OthersOK
<1> QED  BY <1>1, <1>2, <1>4 DEF IInv, TransferOK

\* What the stream is to bring next, it still is.
NextKept(t) ==
    \A k \in 1..(Len(wire[t]) + 1) : \A i, u : DataAt(t, k, i, u) => DataAt(t, k, i, u)'

\* A step that adds nothing to the stream, unless the sender was about to.
LEMMA NothingSent ==
  ASSUME NEW t \in Transfer, TaskOK(t), wire'[t] = wire[t],
         spc'[t] = "failed" \/ spc[t] \notin SenderOver \cup {"chunk"}
  PROVE  NextKept(t)
BY DEF NextKept, DataAt, SenderOver

\* An element that is added to the stream is at its end.
LEMMA TokenSent ==
  ASSUME NEW t \in Transfer, NEW token, WireOK(t), Send(t, token), Map(wire), spc[t] \in SenderOn,
         spc[t] = "chunk" => token = Data(t, item[t], sent[t] + 1)
  PROVE  /\ NextKept(t)
         /\ Sequence(wire'[t]) /\ wire'[t] # <<>>
         /\ Len(wire[t]) \in Nat /\ Len(wire'[t]) = Len(wire[t]) + 1
         /\ \A k \in 1..Len(wire[t]) : wire'[t][k] = wire[t][k]
         /\ wire'[t][Len(wire[t]) + 1] = token
<1>1. Sequence(wire[t]) /\ wire'[t] = Append(wire[t], token)
  BY DEF WireOK, Send, Map
<1>2. /\ Sequence(wire'[t]) /\ wire'[t] # <<>>
      /\ Len(wire[t]) \in Nat /\ Len(wire'[t]) = Len(wire[t]) + 1
      /\ \A k \in 1..Len(wire[t]) : wire'[t][k] = wire[t][k]
      /\ wire'[t][Len(wire[t]) + 1] = token
  <2> DEFINE s == wire[t]
             r == wire'[t]
  <2>1. Sequence(s) /\ r = Append(s, token)
    BY <1>1
  <2> HIDE DEF s, r
  <2>2. /\ Sequence(r) /\ r # <<>> /\ Len(s) \in Nat /\ Len(r) = Len(s) + 1
        /\ (\A k \in 1..Len(s) : r[k] = s[k]) /\ r[Len(s) + 1] = token
    BY <2>1, Appended, Zenon
  <2> QED  BY <2>2 DEF s, r
<1>3. NextKept(t)
  BY <1>2 DEF NextKept, DataAt, SenderOver, SenderOn
<1> QED  BY <1>2, <1>3

\* A token of the stream is as good as it was, wherever it is now.
LEMMA TokenKept ==
  ASSUME NEW t, NEW k, NEW m, TokenOK(t, k), wire'[t][m] = wire[t][k],
         \A i, u : DataAt(t, k + 1, i, u) => DataAt(t, m + 1, i, u)'
  PROVE  TokenOK(t, m)'
<1>1. SizeToken(t, k) => SizeToken(t, m)'
  BY DEF SizeToken, Items, SizeAt
<1>2. DataToken(t, k) => DataToken(t, m)'
  BY DEF DataToken, Items, SizeAt
<1> QED  BY <1>1, <1>2 DEF TokenOK, Items, PathAt

\* The file in hand is as good as before if what is to come next still is.
LEMMA HandKept ==
  ASSUME NEW t \in Transfer, HandOK(t), WireOK(t), NextKept(t), UNCHANGED rVars
  PROVE  HandOK(t)'
<1>1. rpc[t] = "size" => \E i \in Items(t) : current'[t].path = root'[t] \o PathAt(t, i)
  BY DEF HandOK, rVars
<1>2. ASSUME rpc[t] = "chunk"  PROVE  InHand(t)'
  <2>1. InHand(t)
    BY <1>2 DEF HandOK
  <2>2. 1 \in 1..(Len(wire[t]) + 1)
    BY EmptySequence DEF WireOK
  <2>3. \A i, u : DataAt(t, 1, i, u) => DataAt(t, 1, i, u)'
    BY <2>2 DEF NextKept
  <2> QED  BY <2>1, <2>3 DEF InHand, rVars, Items, SizeAt
<1> QED  BY <1>1, <1>2 DEF HandOK, rVars, Items, PathAt

\* So are the elements that were in the stream.
LEMMA WireKept ==
  ASSUME NEW t \in Transfer, WireOK(t), NextKept(t), Sequence(wire'[t]),
         \A k \in 1..Len(wire[t]) : wire'[t][k] = wire[t][k],
         \/ Len(wire'[t]) = Len(wire[t])
         \/ Len(wire'[t]) = Len(wire[t]) + 1 /\ TokenOK(t, Len(wire[t]))'
  PROVE  WireOK(t)'
<1>1. Len(wire[t]) \in Nat
  BY EmptySequence DEF WireOK
<1>2. ASSUME NEW k \in 1..Len(wire[t])  PROVE  TokenOK(t, k)'
  <2>1. k + 1 \in 1..(Len(wire[t]) + 1) /\ TokenOK(t, k)
    BY <1>1 DEF WireOK
  <2>2. \A i, u : DataAt(t, k + 1, i, u) => DataAt(t, k + 1, i, u)'
    BY <2>1 DEF NextKept
  <2> QED  BY <2>1, <2>2, TokenKept
<1>3. CASE Len(wire'[t]) = Len(wire[t])
  BY <1>2, <1>3 DEF WireOK
<1>4. CASE Len(wire'[t]) = Len(wire[t]) + 1 /\ TokenOK(t, Len(wire[t]))'
  <2> SUFFICES ASSUME NEW k \in 1..(Len(wire[t]) + 1) PROVE TokenOK(t, k)'
    BY <1>4 DEF WireOK
  <2>1. k \in 1..Len(wire[t]) \/ k = Len(wire[t]) + 1
    BY <1>1
  <2>2. CASE k = Len(wire[t]) + 1
    <3>1. k = Len(wire'[t])
      BY <1>4, <2>2
    <3> QED  BY <1>4, <3>1
  <2> QED  BY <1>2, <2>1, <2>2
<1> QED  BY <1>3, <1>4

\* NextItem chooses an item, or the position after the last.
LEMMA NextItemFound ==
  ASSUME NEW t \in Transfer, TaskOK(t), NEW i \in 1..(Len(Tree[t]) + 1)
  PROVE  NextItem(t, i) \in i..(Len(Tree[t]) + 1)
<1>1. Len(Tree[t]) \in Nat
  BY PathsAssumption, EmptySequence
<1> DEFINE b == Len(Tree[t]) + 1
<1>2. b \in i..b /\ b \notin gone[t] /\ i \in Int /\ b \in Int
  BY <1>1 DEF TaskOK, Items
<1> HIDE DEF b
<1>3. \E j \in i..b : j \notin gone[t] /\ \A k \in i..(j - 1) : k \in gone[t]
  BY <1>2, Least
<1> QED  BY <1>3 DEF NextItem, b

\* The head of send_files' loop moves on, or ends the task.
LEMMA LoopHeadStep ==
  ASSUME NEW t \in Transfer, MapInv, TaskOK(t), NEW i \in 1..(Len(Tree[t]) + 1), LoopHead(t, i)
  PROVE  /\ Len(Tree[t]) \in Nat
         /\ item'[t] \in i..(Len(Tree[t]) + 1) /\ sent'[t] = 0
         /\ skipped'[t] = skipped[t] \cup i..(item'[t] - 1)
         /\ spc'[t] \in {"failed", "end", "code"} /\ (spc'[t] = "code" => item'[t] \in Items(t))
         /\ closed'[t] \subseteq closed[t] \cup {"sender"}
         /\ Map(item)' /\ Map(sent)' /\ Map(skipped)' /\ Map(spc)' /\ Map(closed)'
         /\ \A u \in Transfer \ {t} :
              /\ item'[u] = item[u] /\ sent'[u] = sent[u] /\ skipped'[u] = skipped[u]
              /\ spc'[u] = spc[u] /\ closed'[u] = closed[u]
<1>1. Len(Tree[t]) \in Nat
  BY PathsAssumption, EmptySequence
<1> DEFINE j == NextItem(t, i)
<1>2. j \in i..(Len(Tree[t]) + 1)
  BY NextItemFound
<1> HIDE DEF j
<1>3. Map(item) /\ Map(sent) /\ Map(skipped) /\ Map(spc) /\ Map(closed)
  BY DEF MapInv
<1>4. /\ item' = [item EXCEPT ![t] = j]
      /\ skipped' = [skipped EXCEPT ![t] = @ \cup i..(j - 1)]
      /\ sent' = [sent EXCEPT ![t] = 0]
  BY DEF LoopHead, j
<1>5. \/ /\ spc' = [spc EXCEPT ![t] = "failed"]
         /\ closed' = [closed EXCEPT ![t] = @ \cup {"sender"}]
      \/ /\ spc' = [spc EXCEPT ![t] = IF j > Len(Tree[t]) THEN "end" ELSE "code"]
         /\ closed' = closed
  BY DEF LoopHead, SenderEnds, j
<1>6. /\ item'[t] = j /\ sent'[t] = 0 /\ skipped'[t] = skipped[t] \cup i..(item'[t] - 1)
      /\ Map(item)' /\ Map(sent)' /\ Map(skipped)'
      /\ \A u \in Transfer \ {t} :
              item'[u] = item[u] /\ sent'[u] = sent[u] /\ skipped'[u] = skipped[u]
  BY <1>3, <1>4 DEF Map
<1>7. /\ Map(spc)' /\ Map(closed)' /\ closed'[t] \subseteq closed[t] \cup {"sender"}
      /\ \A u \in Transfer \ {t} : spc'[u] = spc[u] /\ closed'[u] = closed[u]
      /\ spc'[t] \in {"failed", "end", "code"} /\ (spc'[t] = "code" => ~(j > Len(Tree[t])))
  BY <1>3, <1>5 DEF Map
<1>8. spc'[t] = "code" => item'[t] \in Items(t)
  BY <1>1, <1>2, <1>6, <1>7 DEF Items
<1> QED  BY <1>1, <1>2, <1>6, <1>7, <1>8

\* Being past an item changes nothing of what is kept.
LEMMA LoopKept ==
  ASSUME NEW t \in Transfer, TaskOK(t), KeptOK(t), UNCHANGED <<build, rVars>>, spc[t] \in SenderOn,
         build[t].asserts => Kept(t, item[t]),
         item'[t] \in (item[t] + 1)..(Len(Tree[t]) + 1),
         skipped'[t] = skipped[t] \cup (item[t] + 1)..(item'[t] - 1)
  PROVE  KeptOK(t)'
<1> SUFFICES ASSUME build[t].asserts, NEW i \in 1..(item'[t] - 1) \ skipped'[t]
             PROVE  Kept(t, i)'
  BY DEF KeptOK
<1>1. i \in 1..(item[t] - 1) \ skipped[t] \/ i = item[t]
  BY DEF TaskOK
<1>2. Kept(t, i)
  BY <1>1 DEF KeptOK
<1> QED  BY <1>2 DEF Kept, Stored, Exists, Contents, SizeAt, PathAt, rVars

\* While a sender that reads the codes is not at a file, no file is under way.
LEMMA BetweenFiles ==
  ASSUME NEW t \in Transfer, TransferOK(t), Attentive(t), spc[t] \notin {"chunk", "ack"}
  PROVE  /\ \A k \in 1..Len(wire[t]) : wire[t][k].kind \notin {"size", "data"}
         /\ acks[t] = 0 /\ rpc[t] \notin {"chunk", "ack"}
<1>1. LiveHand(t) /\ \A k \in 1..Len(wire[t]) : LiveToken(t, k)
  BY DEF TransferOK, LiveOK
<1>2. \A k \in 1..Len(wire[t]) : wire[t][k].kind \notin {"size", "data"}
  BY <1>1 DEF LiveToken
<1>3. rpc[t] # "ack" /\ acks[t] = 0
  BY <1>1 DEF LiveHand, TransferOK, TaskOK
<1>4. ASSUME rpc[t] = "chunk"  PROVE  FALSE
  <2>1. PICK i, u : DataAt(t, 1, i, u)
    BY <1>4 DEF TransferOK, HandOK, InHand
  <2>2. Len(wire[t]) \in Nat
    BY EmptySequence DEF TransferOK, WireOK
  <2>3. CASE Len(wire[t]) >= 1
    BY <1>2, <2>1, <2>2, <2>3 DEF DataAt, Data
  <2>4. CASE Len(wire[t]) = 0
    BY <2>1, <2>4 DEF DataAt, Attentive, SenderOn, SenderOver
  <2> QED  BY <2>2, <2>3, <2>4
<1> QED  BY <1>2, <1>3, <1>4

\* send_directory connects.
LEMMA SendDirectoryStep ==
  ASSUME IInv, NEW t \in Transfer, SendDirectory(t)
  PROVE  IInv'
<1>1. MapInv /\ TransferOK(t)
  BY DEF IInv
<1>2. /\ spc[t] = "idle" /\ spc' = [spc EXCEPT ![t] = "confirm"]
      /\ UNCHANGED <<build, item, sent, gone, skipped, wire, acks, closed, rVars>>
  BY DEF SendDirectory
<1>3. MapInv' /\ spc'[t] = "confirm" /\ \A u \in Transfer \ {t} : Same(u)
  BY <1>1, <1>2 DEF MapInv, Map, Same, rVars
<1>4. TaskOK(t)'
  BY <1>1, <1>2, <1>3 DEF TransferOK, TaskOK, rVars, SenderOn, NotBegun, Items
<1>5. NextKept(t)
  BY <1>1, <1>2, NothingSent DEF TransferOK, SenderOver
<1>6. WireOK(t)'
  BY <1>1, <1>2, <1>5, WireKept DEF TransferOK, WireOK
<1>7. HandOK(t)'
  BY <1>1, <1>2, <1>5, HandKept DEF TransferOK
<1>8. LiveOK(t)' /\ KeptOK(t)'
  BY <1>3 DEF LiveOK, KeptOK, Attentive, SenderOn
<1> QED  BY <1>2, <1>3, <1>4, <1>6, <1>7, <1>8, SenderStep

\* The sender gives up, wherever it was.
LEMMA SenderFails ==
  ASSUME IInv, NEW t \in Transfer, SenderEnds(t, "failed"),
         UNCHANGED <<build, item, sent, gone, skipped, wire, acks, rVars>>
  PROVE  IInv'
<1>1. MapInv /\ TransferOK(t)
  BY DEF IInv
<1>2. /\ MapInv' /\ spc'[t] = "failed" /\ closed'[t] = closed[t] \cup {"sender"}
      /\ \A u \in Transfer \ {t} : Same(u)
  BY <1>1 DEF SenderEnds, MapInv, Map, Same, rVars
<1>3. TaskOK(t)'
  BY <1>1, <1>2 DEF TransferOK, TaskOK, rVars, SenderOn, SenderOver, NotBegun, Items
<1>4. NextKept(t)
  BY <1>1, <1>2, NothingSent DEF TransferOK
<1>5. WireOK(t)'
  BY <1>1, <1>4, WireKept DEF TransferOK, WireOK
<1>6. HandOK(t)'
  BY <1>1, <1>4, HandKept DEF TransferOK
<1>7. LiveOK(t)' /\ KeptOK(t)'
  BY <1>2 DEF LiveOK, KeptOK, Attentive, SenderOn
<1> QED  BY <1>2, <1>3, <1>5, <1>6, <1>7, SenderStep

\* _get_confirmation, with which the loop begins.
LEMMA GetConfirmationStep ==
  ASSUME IInv, NEW t \in Transfer, GetConfirmation(t)
  PROVE  IInv'
<1>1. MapInv /\ TransferOK(t) /\ TaskOK(t)
  BY DEF IInv, TransferOK
<1>2. /\ spc[t] = "confirm" /\ (acks[t] > 0 \/ "receiver" \in closed[t])
      /\ acks' = [acks EXCEPT ![t] = IF @ > 0 THEN @ - 1 ELSE 0]
      /\ LoopHead(t, 1) /\ UNCHANGED <<build, gone, wire, rVars>>
  BY DEF GetConfirmation
<1>3. 1 \in 1..(Len(Tree[t]) + 1)
  BY PathsAssumption, EmptySequence
<1>4. /\ Len(Tree[t]) \in Nat
      /\ item'[t] \in 1..(Len(Tree[t]) + 1) /\ sent'[t] = 0
      /\ skipped'[t] = skipped[t] \cup 1..(item'[t] - 1)
      /\ spc'[t] \in {"failed", "end", "code"} /\ (spc'[t] = "code" => item'[t] \in Items(t))
      /\ closed'[t] \subseteq closed[t] \cup {"sender"}
      /\ Map(item)' /\ Map(sent)' /\ Map(skipped)' /\ Map(spc)' /\ Map(closed)'
      /\ \A u \in Transfer \ {t} :
           /\ item'[u] = item[u] /\ sent'[u] = sent[u] /\ skipped'[u] = skipped[u]
           /\ spc'[u] = spc[u] /\ closed'[u] = closed[u]
  BY <1>1, <1>2, <1>3, LoopHeadStep
<1>5. Map(acks)' /\ acks'[t] = 0 /\ \A u \in Transfer \ {t} : acks'[u] = acks[u]
  <2>1. acks'[t] = (IF acks[t] > 0 THEN acks[t] - 1 ELSE 0) /\ Map(acks)'
        /\ \A u \in Transfer \ {t} : acks'[u] = acks[u]
    BY <1>1, <1>2 DEF MapInv, Map
  <2> QED  BY <1>1, <1>2, <2>1 DEF TaskOK
<1>6. MapInv'
  BY <1>1, <1>2, <1>4, <1>5 DEF MapInv, Map, rVars
<1>7. \A u \in Transfer \ {t} : Same(u)
  BY <1>2, <1>4, <1>5 DEF Same, rVars
<1>8. wire[t] = <<>> /\ rpc[t] \in {"code", "ended", "failed"}
  BY <1>1, <1>2 DEF TaskOK, NotBegun
<1>9. TaskOK(t)'
  BY <1>1, <1>2, <1>4, <1>5, <1>8 DEF TaskOK, rVars, SenderOn, SenderOver, NotBegun, Items, ReceiverOn
<1>10. NextKept(t)
  BY <1>1, <1>2, NothingSent DEF SenderOver
<1>11. WireOK(t)'
  BY <1>1, <1>2, <1>10, WireKept DEF TransferOK, WireOK
<1>12. HandOK(t)'
  BY <1>1, <1>2, <1>10, HandKept DEF TransferOK
<1>13. LiveOK(t)'
  <2>1. rpc'[t] \in {"code", "ended", "failed"} /\ wire'[t] = <<>> /\ ~(acks'[t] > 0)
    BY <1>2, <1>5, <1>8 DEF rVars
  <2>2. LiveHand(t)'
    BY <2>1 DEF LiveHand
  <2>3. 1..Len(wire'[t]) = {}
    BY <2>1, EmptySequence
  <2> QED  BY <2>2, <2>3 DEF LiveOK
<1>14. KeptOK(t)'
  BY <1>4 DEF KeptOK
<1> QED  BY <1>2, <1>6, <1>7, <1>9, <1>11, <1>12, <1>13, <1>14, SenderStep

\* The code of an item.
LEMMA SendCodeStep ==
  ASSUME IInv, NEW t \in Transfer, SendCode(t)
  PROVE  IInv'
<1>1. MapInv /\ TransferOK(t) /\ TaskOK(t) /\ WireOK(t)
  BY DEF IInv, TransferOK
<1> DEFINE token == Code(Tree[t][item[t]].kind)
<1>2. /\ spc[t] = "code" /\ spc' = [spc EXCEPT ![t] = "parts"] /\ Send(t, token)
      /\ UNCHANGED <<build, item, sent, gone, skipped, acks, closed, rVars>>
  BY DEF SendCode
<1>3. item[t] \in Items(t) /\ Tree[t][item[t]].kind \in {"file", "dir"}
  BY <1>1, <1>2, ItemTypes DEF TaskOK, SenderOn
<1>4. token.kind = "code" /\ \E what \in {"file", "dir", "end"} : token = Code(what)
  BY <1>3 DEF Code
<1> HIDE DEF token
<1>5. /\ NextKept(t)
      /\ Sequence(wire'[t]) /\ wire'[t] # <<>>
      /\ Len(wire[t]) \in Nat /\ Len(wire'[t]) = Len(wire[t]) + 1
      /\ \A k \in 1..Len(wire[t]) : wire'[t][k] = wire[t][k]
      /\ wire'[t][Len(wire[t]) + 1] = token
  BY <1>1, <1>2, TokenSent DEF MapInv, SenderOn
<1>6. MapInv' /\ spc'[t] = "parts" /\ \A u \in Transfer \ {t} : Same(u)
  BY <1>1, <1>2 DEF MapInv, Map, Same, rVars, Send
<1>7. TaskOK(t)'
  BY <1>1, <1>2, <1>6 DEF TaskOK, rVars, SenderOn, SenderOver, NotBegun, Items
<1>8. WireOK(t)'
  <2>1. TokenOK(t, Len(wire[t]))'
    BY <1>4, <1>5 DEF TokenOK
  <2> QED  BY <1>1, <1>5, <2>1, WireKept
<1>9. HandOK(t)'
  BY <1>1, <1>2, <1>5, HandKept DEF TransferOK
<1>10. LiveOK(t)'
  <2> SUFFICES ASSUME Attentive(t) PROVE LiveHand(t)' /\ \A k \in 1..Len(wire'[t]) : LiveToken(t, k)'
    BY <1>2 DEF LiveOK, Attentive, SenderOn
  <2>1. /\ \A k \in 1..Len(wire[t]) : wire[t][k].kind \notin {"size", "data"}
        /\ acks[t] = 0 /\ rpc[t] \notin {"chunk", "ack"}
    BY <1>1, <1>2, BetweenFiles
  <2>2. \A k \in 1..Len(wire'[t]) : wire'[t][k].kind \notin {"size", "data"}
    BY <1>4, <1>5, <2>1
  <2>3. LiveHand(t)'
    <3>1. /\ rpc'[t] \notin {"chunk", "ack"} /\ ~(acks'[t] > 0)
          /\ wire'[t] # <<>> /\ wire'[t][1].kind # "size"
      BY <1>2, <1>5, <2>1, <2>2 DEF rVars
    <3> QED  BY <3>1 DEF LiveHand
  <2>4. ASSUME NEW k \in 1..Len(wire'[t])  PROVE  LiveToken(t, k)'
    <3>1. k # Len(wire'[t]) => k + 1 \in 1..Len(wire'[t])
      BY <1>5
    <3> QED  BY <1>6, <2>2, <3>1 DEF LiveToken
  <2> QED  BY <2>3, <2>4
<1>11. KeptOK(t)'
  BY <1>1, <1>2, <1>6 DEF TransferOK, KeptOK, Kept, Stored, Exists, Contents, SizeAt, PathAt, rVars, SenderOn
<1> QED  BY <1>2, <1>6, <1>7, <1>8, <1>9, <1>10, <1>11, SenderStep

\* The path of an item.
LEMMA SendPartsStep ==
  ASSUME IInv, NEW t \in Transfer, SendParts(t)
  PROVE  IInv'
<1>1. MapInv /\ TransferOK(t) /\ TaskOK(t) /\ WireOK(t) /\ KeptOK(t)
  BY DEF IInv, TransferOK
<1> DEFINE token == Parts(Tree[t][item[t]].path)
<1>2. /\ spc[t] = "parts" /\ Send(t, token)
      /\ IF Tree[t][item[t]].kind = "dir"
         THEN LoopHead(t, item[t] + 1)
         ELSE /\ spc' = [spc EXCEPT ![t] = "size"]
              /\ UNCHANGED <<item, sent, skipped, closed>>
      /\ UNCHANGED <<build, gone, acks, rVars>>
  BY DEF SendParts
<1>3. item[t] \in Items(t) /\ Tree[t][item[t]].kind \in {"file", "dir"} /\ sent[t] = 0
  BY <1>1, <1>2, ItemTypes DEF TaskOK, SenderOn
<1>4. token.kind = "parts" /\ token.what = PathAt(t, item[t]) /\ token = Parts(PathAt(t, item[t]))
  BY DEF Parts, PathAt
<1> HIDE DEF token
<1>5. /\ NextKept(t)
      /\ Sequence(wire'[t]) /\ wire'[t] # <<>>
      /\ Len(wire[t]) \in Nat /\ Len(wire'[t]) = Len(wire[t]) + 1
      /\ \A k \in 1..Len(wire[t]) : wire'[t][k] = wire[t][k]
      /\ wire'[t][Len(wire[t]) + 1] = token
  BY <1>1, <1>2, TokenSent DEF MapInv, SenderOn
<1>6. Map(wire)' /\ \A u \in Transfer \ {t} : wire'[u] = wire[u]
  BY <1>1, <1>2 DEF MapInv, Map, Send
<1>7. WireOK(t)'
  <2>1. TokenOK(t, Len(wire[t]))'
    BY <1>3, <1>4, <1>5 DEF TokenOK, Items, PathAt
  <2> QED  BY <1>1, <1>5, <2>1, WireKept
<1>8. HandOK(t)'
  BY <1>1, <1>2, <1>5, HandKept DEF TransferOK
<1>9. ASSUME Attentive(t)
      PROVE  /\ \A k \in 1..Len(wire'[t]) : wire'[t][k].kind \notin {"size", "data"}
             /\ LiveHand(t)'
  <2>1. /\ \A k \in 1..Len(wire[t]) : wire[t][k].kind \notin {"size", "data"}
        /\ acks[t] = 0 /\ rpc[t] \notin {"chunk", "ack"}
    BY <1>1, <1>2, <1>9, BetweenFiles
  <2>2. \A k \in 1..Len(wire'[t]) : wire'[t][k].kind \notin {"size", "data"}
    BY <1>4, <1>5, <2>1
  <2>3. /\ rpc'[t] \notin {"chunk", "ack"} /\ ~(acks'[t] > 0)
        /\ wire'[t] # <<>> /\ wire'[t][1].kind # "size"
    BY <1>2, <1>5, <2>1, <2>2 DEF rVars
  <2> QED  BY <2>2, <2>3 DEF LiveHand
<1>10. rpc[t] \notin NotBegun
  BY <1>1, <1>2 DEF TaskOK
<1>11. CASE Tree[t][item[t]].kind = "dir"
  <2>1. item[t] + 1 \in 1..(Len(Tree[t]) + 1) /\ LoopHead(t, item[t] + 1)
    BY <1>2, <1>3, <1>11, ItemTypes DEF Items
  <2>2. /\ Len(Tree[t]) \in Nat
        /\ item'[t] \in (item[t] + 1)..(Len(Tree[t]) + 1) /\ sent'[t] = 0
        /\ skipped'[t] = skipped[t] \cup (item[t] + 1)..(item'[t] - 1)
        /\ spc'[t] \in {"failed", "end", "code"} /\ (spc'[t] = "code" => item'[t] \in Items(t))
        /\ closed'[t] \subseteq closed[t] \cup {"sender"}
        /\ Map(item)' /\ Map(sent)' /\ Map(skipped)' /\ Map(spc)' /\ Map(closed)'
        /\ \A u \in Transfer \ {t} :
             /\ item'[u] = item[u] /\ sent'[u] = sent[u] /\ skipped'[u] = skipped[u]
             /\ spc'[u] = spc[u] /\ closed'[u] = closed[u]
    BY <1>1, <2>1, LoopHeadStep
  <2>3. MapInv'
    BY <1>1, <1>2, <1>6, <2>2 DEF MapInv, Map, rVars
  <2>4. \A u \in Transfer \ {t} : Same(u)
    BY <1>2, <1>6, <2>2 DEF Same, rVars
  <2>5. TaskOK(t)'
    BY <1>1, <1>2, <1>3, <1>10, <2>2 DEF TaskOK, rVars, SenderOn, SenderOver, NotBegun, Items, ReceiverOn
  <2>6. LiveOK(t)'
    <3> SUFFICES ASSUME Attentive(t)
                 PROVE  LiveHand(t)' /\ \A k \in 1..Len(wire'[t]) : LiveToken(t, k)'
      BY <1>2 DEF LiveOK, Attentive, SenderOn
    <3>1. ASSUME NEW k \in 1..Len(wire'[t])  PROVE  LiveToken(t, k)'
      <4>1. k # Len(wire'[t]) => k + 1 \in 1..Len(wire'[t])
        BY <1>5
      <4> QED  BY <1>9, <2>2, <4>1 DEF LiveToken
    <3> QED  BY <1>9, <3>1
  <2>7. KeptOK(t)'
    <3>1. Kept(t, item[t])
      BY <1>11 DEF Kept
    <3> QED  BY <1>1, <1>2, <2>2, <3>1, LoopKept DEF SenderOn
  <2> QED  BY <1>2, <1>7, <1>8, <2>3, <2>4, <2>5, <2>6, <2>7, SenderStep
<1>12. CASE Tree[t][item[t]].kind # "dir"
  <2>1. spc' = [spc EXCEPT ![t] = "size"] /\ UNCHANGED <<item, sent, skipped, closed>>
    BY <1>2, <1>12
  <2>2. MapInv' /\ spc'[t] = "size" /\ \A u \in Transfer \ {t} : Same(u)
    BY <1>1, <1>2, <1>6, <2>1 DEF MapInv, Map, Same, rVars
  <2>3. TaskOK(t)'
    BY <1>1, <1>2, <1>3, <1>10, <1>12, <2>1, <2>2 DEF TaskOK, rVars, SenderOn, SenderOver, NotBegun, Items
  <2>4. LiveOK(t)'
    <3> SUFFICES ASSUME Attentive(t)
                 PROVE  LiveHand(t)' /\ \A k \in 1..Len(wire'[t]) : LiveToken(t, k)'
      BY <1>2 DEF LiveOK, Attentive, SenderOn
    <3>1. ASSUME NEW k \in 1..Len(wire'[t])  PROVE  LiveToken(t, k)'
      <4>1. k # Len(wire'[t]) => k + 1 \in 1..Len(wire'[t])
        BY <1>5
      <4>2. k = Len(wire'[t]) => wire'[t][k].what = PathAt(t, item'[t])
        BY <1>4, <1>5, <2>1
      <4> QED  BY <1>9, <4>1, <4>2 DEF LiveToken, PathAt
    <3> QED  BY <1>9, <3>1
  <2>5. KeptOK(t)'
    BY <1>1, <1>2, <2>1, <2>2 DEF KeptOK, Kept, Stored, Exists, Contents, SizeAt, PathAt, rVars, SenderOn
  <2> QED  BY <1>2, <1>7, <1>8, <2>2, <2>3, <2>4, <2>5, SenderStep
<1> QED  BY <1>11, <1>12

\* The assert that reads the receiver's code: the file is kept.
LEMMA RecvAckStep ==
  ASSUME IInv, NEW t \in Transfer, RecvAck(t)
  PROVE  IInv'
<1>1. MapInv /\ TransferOK(t) /\ TaskOK(t) /\ WireOK(t) /\ KeptOK(t) /\ LiveOK(t)
  BY DEF IInv, TransferOK
<1>2. /\ spc[t] = "ack" /\ acks[t] > 0 /\ acks' = [acks EXCEPT ![t] = @ - 1]
      /\ LoopHead(t, item[t] + 1) /\ UNCHANGED <<build, gone, wire, rVars>>
  BY DEF RecvAck
<1>3. item[t] \in Items(t)
  BY <1>1, <1>2 DEF TaskOK, SenderOn
<1>4. item[t] + 1 \in 1..(Len(Tree[t]) + 1)
  BY <1>3, ItemTypes DEF Items
<1>5. /\ Len(Tree[t]) \in Nat
      /\ item'[t] \in (item[t] + 1)..(Len(Tree[t]) + 1) /\ sent'[t] = 0
      /\ skipped'[t] = skipped[t] \cup (item[t] + 1)..(item'[t] - 1)
      /\ spc'[t] \in {"failed", "end", "code"} /\ (spc'[t] = "code" => item'[t] \in Items(t))
      /\ closed'[t] \subseteq closed[t] \cup {"sender"}
      /\ Map(item)' /\ Map(sent)' /\ Map(skipped)' /\ Map(spc)' /\ Map(closed)'
      /\ \A u \in Transfer \ {t} :
           /\ item'[u] = item[u] /\ sent'[u] = sent[u] /\ skipped'[u] = skipped[u]
           /\ spc'[u] = spc[u] /\ closed'[u] = closed[u]
  BY <1>1, <1>2, <1>4, LoopHeadStep
<1>6. Map(acks)' /\ acks'[t] = acks[t] - 1 /\ \A u \in Transfer \ {t} : acks'[u] = acks[u]
  BY <1>1, <1>2 DEF MapInv, Map
<1>7. MapInv'
  BY <1>1, <1>2, <1>5, <1>6 DEF MapInv, Map, rVars
<1>8. \A u \in Transfer \ {t} : Same(u)
  BY <1>2, <1>5, <1>6 DEF Same, rVars
<1>9. rpc[t] \notin NotBegun
  BY <1>1, <1>2 DEF TaskOK
<1>10. TaskOK(t)'
  BY <1>1, <1>2, <1>5, <1>6, <1>9 DEF TaskOK, rVars, SenderOn, SenderOver, NotBegun, Items, ReceiverOn
<1>11. NextKept(t)
  BY <1>1, <1>2, NothingSent DEF SenderOver
<1>12. WireOK(t)'
  BY <1>1, <1>2, <1>11, WireKept DEF WireOK
<1>13. HandOK(t)'
  BY <1>1, <1>2, <1>11, HandKept DEF TransferOK
<1>14. ASSUME build[t].asserts
       PROVE  acks[t] = 1 /\ wire[t] = <<>> /\ rpc[t] \in {"code", "ended", "failed"} /\ Kept(t, item[t])
  BY <1>1, <1>2, <1>14 DEF LiveOK, LiveHand, Attentive, SenderOn
<1>15. LiveOK(t)'
  <2> SUFFICES ASSUME build[t].asserts
               PROVE  LiveHand(t)' /\ \A k \in 1..Len(wire'[t]) : LiveToken(t, k)'
    BY <1>2 DEF LiveOK, Attentive
  <2>1. rpc'[t] \in {"code", "ended", "failed"} /\ wire'[t] = <<>> /\ ~(acks'[t] > 0)
    BY <1>2, <1>6, <1>14 DEF rVars
  <2>2. LiveHand(t)'
    BY <2>1 DEF LiveHand
  <2>3. 1..Len(wire'[t]) = {}
    BY <2>1, EmptySequence
  <2> QED  BY <2>2, <2>3
<1>16. KeptOK(t)'
  BY <1>1, <1>2, <1>5, <1>14, LoopKept DEF SenderOn
<1> QED  BY <1>2, <1>7, <1>8, <1>10, <1>12, <1>13, <1>15, <1>16, SenderStep

\* The code that ends the transfer.
LEMMA SendEndStep ==
  ASSUME IInv, NEW t \in Transfer, SendEnd(t)
  PROVE  IInv'
<1>1. MapInv /\ TransferOK(t) /\ TaskOK(t) /\ WireOK(t)
  BY DEF IInv, TransferOK
<1>2. /\ spc[t] = "end" /\ Send(t, Code("end")) /\ SenderEnds(t, "done")
      /\ UNCHANGED <<build, item, sent, gone, skipped, acks, rVars>>
  BY DEF SendEnd
<1>3. /\ NextKept(t)
      /\ Sequence(wire'[t]) /\ wire'[t] # <<>>
      /\ Len(wire[t]) \in Nat /\ Len(wire'[t]) = Len(wire[t]) + 1
      /\ \A k \in 1..Len(wire[t]) : wire'[t][k] = wire[t][k]
      /\ wire'[t][Len(wire[t]) + 1] = Code("end")
  BY <1>1, <1>2, TokenSent DEF MapInv, SenderOn
<1>4. /\ MapInv' /\ spc'[t] = "done" /\ closed'[t] = closed[t] \cup {"sender"}
      /\ \A u \in Transfer \ {t} : Same(u)
  BY <1>1, <1>2 DEF MapInv, Map, Same, rVars, Send, SenderEnds
<1>5. TaskOK(t)'
  BY <1>1, <1>2, <1>4 DEF TaskOK, rVars, SenderOn, SenderOver, NotBegun, Items
<1>6. WireOK(t)'
  <2>1. TokenOK(t, Len(wire[t]))'
    BY <1>3 DEF TokenOK
  <2> QED  BY <1>1, <1>3, <2>1, WireKept
<1>7. HandOK(t)'
  BY <1>1, <1>2, <1>3, HandKept DEF TransferOK
<1>8. LiveOK(t)'
  BY <1>4 DEF LiveOK, Attentive, SenderOn
<1>9. KeptOK(t)'
  BY <1>1, <1>2, <1>4 DEF TransferOK, KeptOK, Kept, Stored, Exists, Contents, SizeAt, PathAt, rVars, SenderOn
<1> QED  BY <1>2, <1>4, <1>5, <1>6, <1>7, <1>8, <1>9, SenderStep

\* A sender's step takes nothing from the receiver's disk.
LEMMA KeptSame ==
  ASSUME NEW t \in Transfer, KeptOK(t), UNCHANGED <<build, rVars>>,
         item'[t] = item[t], skipped'[t] = skipped[t], spc[t] \in SenderOn
  PROVE  KeptOK(t)'
<1> SUFFICES ASSUME build[t].asserts, NEW i \in 1..(item[t] - 1) \ skipped[t]
             PROVE  Kept(t, i)'
  BY DEF KeptOK
<1>1. Kept(t, i)
  BY DEF KeptOK
<1> QED  BY <1>1 DEF Kept, Stored, Exists, Contents, SizeAt, PathAt, rVars

\* After the last unit of a file the sender awaits the code, or goes on if it reads none.
LEMMA FileSentStep ==
  ASSUME NEW t \in Transfer, MapInv, TransferOK(t), spc[t] \in {"size", "chunk"}, FileSent(t),
         UNCHANGED <<build, gone, acks, rVars>>, Map(wire)',
         \A u \in Transfer \ {t} : wire'[u] = wire[u]
  PROVE  /\ MapInv' /\ TaskOK(t)' /\ KeptOK(t)'
         /\ \A u \in Transfer \ {t} : Same(u)
         /\ build[t].asserts => spc'[t] = "ack" /\ item'[t] = item[t]
         /\ ~build[t].asserts => spc'[t] \notin {"chunk", "ack"}
<1>1. TaskOK(t) /\ KeptOK(t) /\ item[t] \in Items(t) /\ rpc[t] \notin NotBegun
  BY DEF TransferOK, TaskOK, SenderOn
<1>2. CASE build[t].asserts
  <2>1. /\ spc' = [spc EXCEPT ![t] = "ack"] /\ sent' = [sent EXCEPT ![t] = 0]
        /\ UNCHANGED <<item, skipped, closed>>
    BY <1>2 DEF FileSent
  <2>2. /\ MapInv' /\ spc'[t] = "ack" /\ sent'[t] = 0
        /\ \A u \in Transfer \ {t} : Same(u)
    BY <2>1 DEF MapInv, Map, Same, rVars
  <2>3. TaskOK(t)'
    BY <1>1, <2>1, <2>2 DEF TaskOK, rVars, SenderOn, SenderOver, NotBegun, Items
  <2>4. KeptOK(t)'
    BY <1>1, <2>1, KeptSame DEF SenderOn
  <2> QED  BY <1>2, <2>1, <2>2, <2>3, <2>4
<1>3. CASE ~build[t].asserts
  <2>1. item[t] + 1 \in 1..(Len(Tree[t]) + 1) /\ LoopHead(t, item[t] + 1)
    BY <1>1, <1>3, ItemTypes DEF Items, FileSent
  <2>2. /\ Len(Tree[t]) \in Nat
        /\ item'[t] \in (item[t] + 1)..(Len(Tree[t]) + 1) /\ sent'[t] = 0
        /\ skipped'[t] = skipped[t] \cup (item[t] + 1)..(item'[t] - 1)
        /\ spc'[t] \in {"failed", "end", "code"} /\ (spc'[t] = "code" => item'[t] \in Items(t))
        /\ closed'[t] \subseteq closed[t] \cup {"sender"}
        /\ Map(item)' /\ Map(sent)' /\ Map(skipped)' /\ Map(spc)' /\ Map(closed)'
        /\ \A u \in Transfer \ {t} :
             /\ item'[u] = item[u] /\ sent'[u] = sent[u] /\ skipped'[u] = skipped[u]
             /\ spc'[u] = spc[u] /\ closed'[u] = closed[u]
    BY <1>1, <2>1, LoopHeadStep
  <2>3. MapInv'
    BY <2>2 DEF MapInv, Map, rVars
  <2>4. \A u \in Transfer \ {t} : Same(u)
    BY <2>2 DEF Same, rVars
  <2>5. TaskOK(t)'
    BY <1>1, <2>2 DEF TaskOK, rVars, SenderOn, SenderOver, NotBegun, Items, ReceiverOn
  <2>6. KeptOK(t)'
    BY <1>3 DEF KeptOK
  <2> QED  BY <1>3, <2>2, <2>3, <2>4, <2>5, <2>6
<1> QED  BY <1>2, <1>3

\* The size of a file.
LEMMA SendSizeStep ==
  ASSUME IInv, NEW t \in Transfer, SendSize(t)
  PROVE  IInv'
<1>1. MapInv /\ TransferOK(t) /\ TaskOK(t) /\ WireOK(t) /\ KeptOK(t) /\ LiveOK(t)
  BY DEF IInv, TransferOK
<1> DEFINE token == SizeOf(Tree[t][item[t]].size)
           size == SizeAt(t, item[t])
<1>2. /\ spc[t] = "size" /\ Send(t, token) /\ UNCHANGED <<build, gone, acks, rVars>>
      /\ IF Tree[t][item[t]].size = 0
         THEN FileSent(t)
         ELSE spc' = [spc EXCEPT ![t] = "chunk"] /\ UNCHANGED <<item, sent, skipped, closed>>
  BY DEF SendSize
<1>3. item[t] \in Items(t) /\ size \in Nat /\ Tree[t][item[t]].kind = "file" /\ sent[t] = 0
  BY <1>1, <1>2, ItemTypes DEF TaskOK, SenderOn
<1>4. token.kind = "size" /\ token.what = size /\ token = SizeOf(size) /\ size = Tree[t][item[t]].size
  BY DEF SizeOf, SizeAt
<1> HIDE DEF token, size
<1>5. /\ NextKept(t)
      /\ Sequence(wire'[t]) /\ wire'[t] # <<>>
      /\ Len(wire[t]) \in Nat /\ Len(wire'[t]) = Len(wire[t]) + 1
      /\ \A k \in 1..Len(wire[t]) : wire'[t][k] = wire[t][k]
      /\ wire'[t][Len(wire[t]) + 1] = token
  BY <1>1, <1>2, TokenSent DEF MapInv, SenderOn
<1>6. Map(wire)' /\ \A u \in Transfer \ {t} : wire'[u] = wire[u]
  BY <1>1, <1>2 DEF MapInv, Map, Send
<1>7. /\ MapInv' /\ TaskOK(t)' /\ KeptOK(t)'
      /\ \A u \in Transfer \ {t} : Same(u)
      /\ size = 0 /\ build[t].asserts => spc'[t] = "ack" /\ item'[t] = item[t]
      /\ size = 0 /\ ~build[t].asserts => spc'[t] \notin {"chunk", "ack"}
      /\ size > 0 => spc'[t] = "chunk" /\ item'[t] = item[t] /\ sent'[t] = 0
  <2>1. CASE size = 0
    <3>1. FileSent(t)
      BY <1>2, <1>4, <2>1
    <3> QED  BY <1>1, <1>2, <1>6, <2>1, <3>1, FileSentStep
  <2>2. CASE size # 0
    <3>1. spc' = [spc EXCEPT ![t] = "chunk"] /\ UNCHANGED <<item, sent, skipped, closed>>
      BY <1>2, <1>4, <2>2
    <3>2. MapInv' /\ spc'[t] = "chunk" /\ \A u \in Transfer \ {t} : Same(u)
      BY <1>1, <1>2, <1>6, <3>1 DEF MapInv, Map, Same, rVars
    <3>3. TaskOK(t)'
      BY <1>1, <1>2, <1>3, <2>2, <3>1, <3>2
      DEF TaskOK, rVars, SenderOn, SenderOver, NotBegun, Items, size, SizeAt
    <3>4. KeptOK(t)'
      BY <1>1, <1>2, <3>1, KeptSame DEF SenderOn
    <3> QED  BY <1>3, <2>2, <3>1, <3>2, <3>3, <3>4
  <2> QED  BY <2>1, <2>2
<1>8. WireOK(t)'
  <2>1. SizeToken(t, Len(wire[t]))'
    <3> DEFINE k == Len(wire'[t])
               i == item[t]
    <3>1. i \in Items(t) /\ wire'[t][k] = SizeOf(SizeAt(t, i))
      BY <1>3, <1>4, <1>5 DEF size
    <3>2. SizeAt(t, i) > 0 => wire'[t] # <<>> /\ ~(k + 1 <= Len(wire'[t]))
                             /\ spc'[t] = "chunk" /\ item'[t] = i /\ sent'[t] + 1 = 1
      BY <1>3, <1>5, <1>7 DEF size
    <3> QED  BY <3>1, <3>2 DEF SizeToken, DataAt, Items, SizeAt
  <2>2. TokenOK(t, Len(wire[t]))'
    BY <2>1 DEF TokenOK
  <2> QED  BY <1>1, <1>5, <2>2, WireKept
<1>9. HandOK(t)'
  BY <1>1, <1>2, <1>5, HandKept DEF TransferOK
<1>10. LiveOK(t)'
  <2> SUFFICES ASSUME build[t].asserts
               PROVE  LiveHand(t)' /\ \A k \in 1..Len(wire'[t]) : LiveToken(t, k)'
    BY <1>2 DEF LiveOK, Attentive
  <2>1. Attentive(t) /\ LiveHand(t) /\ \A k \in 1..Len(wire[t]) : LiveToken(t, k)
    BY <1>1, <1>2 DEF LiveOK, Attentive, SenderOn
  <2>2. /\ \A k \in 1..Len(wire[t]) : wire[t][k].kind \notin {"size", "data"}
        /\ acks[t] = 0 /\ rpc[t] \notin {"chunk", "ack"}
    BY <1>1, <1>2, <2>1, BetweenFiles
  <2>3. /\ item'[t] = item[t] /\ spc'[t] \in {"chunk", "ack"} /\ (size = 0 => spc'[t] = "ack")
    BY <1>3, <1>7
  <2>4. LiveHand(t)'
    <3>1. rpc'[t] = rpc[t] /\ rpc'[t] \notin {"chunk", "ack"} /\ ~(acks'[t] > 0) /\ wire'[t] # <<>>
      BY <1>2, <1>5, <2>2 DEF rVars
    <3>2. ASSUME rpc[t] = "size", wire'[t][1].kind = "size"
          PROVE  current'[t].path = root'[t] \o PathAt(t, item[t])
      <4>1. Len(wire[t]) = 0
        BY <1>5, <2>2, <3>2
      <4>2. wire[t] = <<>>
        BY <1>1, <4>1, EmptySequence DEF WireOK
      <4> QED  BY <1>2, <2>1, <3>2, <4>2 DEF LiveHand, rVars
    <3> QED  BY <2>3, <3>1, <3>2 DEF LiveHand, PathAt
  <2>5. ASSUME NEW k \in 1..Len(wire'[t])  PROVE  LiveToken(t, k)'
    <3>1. CASE k = Len(wire[t]) + 1
      BY <1>4, <1>5, <2>3, <3>1 DEF LiveToken, size, SizeAt
    <3>2. CASE k = Len(wire[t])
      <4>1. wire'[t][k] = wire[t][k] /\ wire'[t][k].kind \notin {"size", "data"}
            /\ (wire[t][k].kind = "parts" => wire[t][k].what = PathAt(t, item[t]))
        BY <1>2, <1>5, <2>1, <2>2, <3>2 DEF LiveToken
      <4> QED  BY <2>3, <4>1 DEF LiveToken, PathAt
    <3>3. CASE k \in 1..(Len(wire[t]) - 1)
      <4>1. k \in 1..Len(wire[t]) /\ k + 1 \in 1..Len(wire[t]) /\ k # Len(wire'[t])
        BY <1>5, <3>3
      <4>2. wire'[t][k].kind \notin {"size", "data"} /\ wire'[t][k + 1].kind \notin {"size", "data"}
        BY <1>5, <2>2, <4>1
      <4> QED  BY <4>1, <4>2 DEF LiveToken
    <3> QED  BY <1>5, <3>1, <3>2, <3>3
  <2> QED  BY <2>4, <2>5
<1> QED  BY <1>2, <1>7, <1>8, <1>9, <1>10, SenderStep

\* A chunk of a file.
LEMMA SendChunkStep ==
  ASSUME IInv, NEW t \in Transfer, SendChunk(t)
  PROVE  IInv'
<1>1. MapInv /\ TransferOK(t) /\ TaskOK(t) /\ WireOK(t) /\ KeptOK(t) /\ LiveOK(t)
  BY DEF IInv, TransferOK
<1> DEFINE token == Data(t, item[t], sent[t] + 1)
           size == SizeAt(t, item[t])
<1>2. /\ spc[t] = "chunk" /\ Send(t, token) /\ UNCHANGED <<build, gone, acks, rVars>>
      /\ IF sent[t] + 1 = Tree[t][item[t]].size
         THEN FileSent(t)
         ELSE /\ sent' = [sent EXCEPT ![t] = @ + 1]
              /\ UNCHANGED <<spc, item, skipped, closed>>
  BY DEF SendChunk
<1>3. /\ item[t] \in Items(t) /\ size \in Nat /\ Tree[t][item[t]].kind = "file"
      /\ sent[t] \in Nat /\ sent[t] < size
  BY <1>1, <1>2, ItemTypes DEF TaskOK, SenderOn
<1>4. /\ token.kind = "data" /\ token.what[2] = item[t] /\ token.what[3] = sent[t] + 1
      /\ token = Data(t, item[t], sent[t] + 1) /\ size = Tree[t][item[t]].size
  BY DEF Data, SizeAt
<1> HIDE DEF token, size
<1>5. /\ NextKept(t)
      /\ Sequence(wire'[t]) /\ wire'[t] # <<>>
      /\ Len(wire[t]) \in Nat /\ Len(wire'[t]) = Len(wire[t]) + 1
      /\ \A k \in 1..Len(wire[t]) : wire'[t][k] = wire[t][k]
      /\ wire'[t][Len(wire[t]) + 1] = token
  BY <1>1, <1>2, <1>4, TokenSent DEF MapInv, SenderOn
<1>6. Map(wire)' /\ \A u \in Transfer \ {t} : wire'[u] = wire[u]
  BY <1>1, <1>2 DEF MapInv, Map, Send
<1>7. /\ MapInv' /\ TaskOK(t)' /\ KeptOK(t)'
      /\ \A u \in Transfer \ {t} : Same(u)
      /\ sent[t] + 1 = size /\ build[t].asserts => spc'[t] = "ack" /\ item'[t] = item[t]
      /\ sent[t] + 1 = size /\ ~build[t].asserts => spc'[t] \notin {"chunk", "ack"}
      /\ sent[t] + 1 # size => spc'[t] = "chunk" /\ item'[t] = item[t] /\ sent'[t] = sent[t] + 1
  <2>1. CASE sent[t] + 1 = size
    <3>1. FileSent(t)
      BY <1>2, <1>4, <2>1
    <3> QED  BY <1>1, <1>2, <1>6, <2>1, <3>1, FileSentStep
  <2>2. CASE sent[t] + 1 # size
    <3>1. sent' = [sent EXCEPT ![t] = @ + 1] /\ UNCHANGED <<spc, item, skipped, closed>>
      BY <1>2, <1>4, <2>2
    <3>2. MapInv' /\ sent'[t] = sent[t] + 1 /\ \A u \in Transfer \ {t} : Same(u)
      BY <1>1, <1>2, <1>6, <3>1 DEF MapInv, Map, Same, rVars
    <3>3. TaskOK(t)'
      BY <1>1, <1>2, <1>3, <2>2, <3>1, <3>2
      DEF TaskOK, rVars, SenderOn, SenderOver, NotBegun, Items, size, SizeAt
    <3>4. KeptOK(t)'
      BY <1>1, <1>2, <3>1, KeptSame DEF SenderOn
    <3> QED  BY <1>2, <2>2, <3>1, <3>2, <3>3, <3>4
  <2> QED  BY <2>1, <2>2
<1>8. WireOK(t)'
  <2>1. DataToken(t, Len(wire[t]))'
    <3> DEFINE k == Len(wire'[t])
               i == item[t]
               u == sent[t] + 1
    <3>1. /\ i \in Items(t) /\ u \in Nat \ {0} /\ u <= SizeAt(t, i) /\ wire'[t][k] = Data(t, i, u)
      BY <1>3, <1>4, <1>5 DEF size
    <3>2. u < SizeAt(t, i) => ~(k + 1 <= Len(wire'[t]))
                             /\ spc'[t] = "chunk" /\ item'[t] = i /\ sent'[t] + 1 = u + 1
      BY <1>3, <1>5, <1>7 DEF size
    <3> HIDE DEF u, i
    <3> QED  BY <3>1, <3>2 DEF DataToken, DataAt, Items, SizeAt
  <2>2. TokenOK(t, Len(wire[t]))'
    BY <2>1 DEF TokenOK
  <2> QED  BY <1>1, <1>5, <2>2, WireKept
<1>9. HandOK(t)'
  BY <1>1, <1>2, <1>5, HandKept DEF TransferOK
<1>10. LiveOK(t)'
  <2> SUFFICES ASSUME build[t].asserts
               PROVE  LiveHand(t)' /\ \A k \in 1..Len(wire'[t]) : LiveToken(t, k)'
    BY <1>2 DEF LiveOK, Attentive
  <2>1. Attentive(t) /\ LiveHand(t) /\ \A k \in 1..Len(wire[t]) : LiveToken(t, k)
    BY <1>1, <1>2 DEF LiveOK, Attentive, SenderOn
  <2>2. /\ item'[t] = item[t] /\ spc'[t] \in {"chunk", "ack"} /\ (sent[t] + 1 = size => spc'[t] = "ack")
    BY <1>7
  <2>3. LiveHand(t)'
    <3>1. /\ rpc'[t] = rpc[t] /\ rpc'[t] # "ack" /\ ~(acks'[t] > 0) /\ wire'[t] # <<>>
          /\ current' = current /\ root' = root
      BY <1>2, <1>5, <2>1 DEF rVars, LiveHand
    <3>2. ASSUME rpc[t] = "size", wire'[t][1].kind = "size"
          PROVE  current[t].path = root[t] \o PathAt(t, item[t])
      <4>1. Len(wire[t]) # 0 /\ wire[t][1].kind = "size"
        BY <1>4, <1>5, <3>2
      <4>2. wire[t] # <<>>
        BY <4>1, EmptySequence
      <4> QED  BY <2>1, <3>2, <4>1, <4>2 DEF LiveHand
    <3>3. rpc[t] = "chunk" => Front(current[t].path) = root[t] \o Front(PathAt(t, item[t]))
      BY <2>1 DEF LiveHand
    <3> QED  BY <2>2, <3>1, <3>2, <3>3 DEF LiveHand, PathAt
  <2>4. ASSUME NEW k \in 1..Len(wire'[t])  PROVE  LiveToken(t, k)'
    <3>1. CASE k = Len(wire[t]) + 1
      BY <1>4, <1>5, <2>2, <3>1 DEF LiveToken, size, SizeAt
    <3>2. CASE k \in 1..Len(wire[t])
      <4>1. LiveToken(t, k) /\ wire'[t][k] = wire[t][k] /\ k # Len(wire'[t])
        BY <1>5, <2>1, <3>2
      <4>2. /\ wire[t][k].kind = "size" => wire[t][k].what = SizeAt(t, item[t]) /\ wire[t][k].what # 0
            /\ wire[t][k].kind = "data" => /\ wire[t][k].what[2] = item[t]
                                          /\ wire[t][k].what[3] # SizeAt(t, item[t])
        BY <1>2, <4>1 DEF LiveToken
      <4>3. wire[t][k].kind = "parts" /\ wire'[t][k + 1].kind = "size" => wire[t][k].what = PathAt(t, item[t])
        <5>1. CASE k = Len(wire[t])
          BY <1>4, <1>5, <5>1
        <5>2. CASE k # Len(wire[t])
          <6>1. k + 1 \in 1..Len(wire[t])
            BY <1>5, <3>2, <5>2
          <6> QED  BY <1>5, <4>1, <5>2, <6>1 DEF LiveToken
        <5> QED  BY <5>1, <5>2
      <4> QED  BY <2>2, <4>1, <4>2, <4>3 DEF LiveToken, SizeAt, PathAt
    <3> QED  BY <1>5, <3>1, <3>2
  <2> QED  BY <2>3, <2>4
<1> QED  BY <1>2, <1>7, <1>8, <1>9, <1>10, SenderStep

\* A reset of the connection, and a file that is deleted on the sender's disk.
LEMMA OutsideStep ==
  ASSUME IInv, UNCHANGED <<build, sVars, wire, acks, closed, rVars>>, Map(gone)',
         \A t \in Transfer : gone'[t] \subseteq Items(t)
  PROVE  IInv'
<1>1. MapInv'
  BY DEF IInv, MapInv, Map, sVars, rVars
<1>2. RootInv'
  BY DEF IInv, RootInv, rVars, Taken, Tops
<1>3. ASSUME NEW t \in Transfer  PROVE  TransferOK(t)'
  <2>1. TransferOK(t)
    BY DEF IInv
  <2>2. TaskOK(t)'
    BY <2>1 DEF TransferOK, TaskOK, sVars, rVars, Items, SizeAt
  <2>3. \A k, i, n : DataAt(t, k, i, n)' <=> DataAt(t, k, i, n)
    BY DEF DataAt, sVars
  <2>4. WireOK(t)'
    BY <2>1, <2>3 DEF TransferOK, WireOK, TokenOK, SizeToken, DataToken, Items, SizeAt, PathAt
  <2>5. HandOK(t)'
    BY <2>1, <2>3 DEF TransferOK, HandOK, InHand, rVars, Items, SizeAt, PathAt
  <2>6. OwnOK(t)'
    BY <2>1 DEF TransferOK, OwnOK, OwnFile, rVars, Items, SizeAt
  <2>7. \A i : Kept(t, i) => Kept(t, i)'
    BY DEF Kept, Stored, Exists, Contents, SizeAt, PathAt, rVars
  <2>8. LiveOK(t)'
    BY <2>1, <2>7 DEF TransferOK, LiveOK, Attentive, LiveHand, LiveToken, sVars, rVars, SizeAt, PathAt
  <2>9. KeptOK(t)'
    BY <2>1, <2>7 DEF TransferOK, KeptOK, sVars
  <2> QED  BY <2>2, <2>4, <2>5, <2>6, <2>8, <2>9 DEF TransferOK
<1> QED  BY <1>1, <1>2, <1>3 DEF IInv

\* A file is deleted on the sender's disk.
LEMMA DeleteFileStep ==
  ASSUME IInv, NEW t \in Transfer, NEW i \in 1..Len(Tree[t]), DeleteFile(t, i)
  PROVE  IInv'
<1>1. /\ gone' = [gone EXCEPT ![t] = @ \cup {i}] /\ Map(gone)
      /\ UNCHANGED <<build, sVars, wire, acks, closed, rVars>>
  BY DEF DeleteFile, IInv, MapInv
<1>2. Map(gone)' /\ gone'[t] = gone[t] \cup {i} /\ \A u \in Transfer \ {t} : gone'[u] = gone[u]
  BY <1>1 DEF Map
<1>3. \A u \in Transfer : gone[u] \subseteq Items(u)
  BY DEF IInv, TransferOK, TaskOK
<1> QED  BY <1>1, <1>2, <1>3, OutsideStep DEF Items

-----------------------------------------------------------------------------
(* The receiver *)

\* What is left to show of a step of the receiver of t: the parts about t.
LEMMA ReceiverStep ==
  ASSUME IInv, NEW t \in Transfer, MapInv', RootInv', DiskStep(t),
         UNCHANGED <<build, sVars, gone>>, \A u \in Transfer \ {t} : Same(u),
         root'[t] = root[t] \/ rpc[t] \in NotBegun,
         TaskOK(t)', WireOK(t)', HandOK(t)', OwnOK(t)', LiveOK(t)'
  PROVE  IInv'
<1>1. TransferOK(t)
  BY DEF IInv
<1>2. KeptOK(t)'
  <2> SUFFICES ASSUME build[t].asserts, spc[t] \in SenderOn \cup {"done"},
                      NEW i \in 1..(item[t] - 1) \ skipped[t]
               PROVE  Kept(t, i)'
    BY DEF KeptOK, sVars
  <2>1. rpc[t] \notin NotBegun
    BY <1>1 DEF TransferOK, TaskOK, SenderOn
  <2>2. Kept(t, i)
    BY <1>1 DEF TransferOK, KeptOK
  <2>3. i \in Items(t)
    BY <1>1, PathsAssumption, EmptySequence DEF TransferOK, TaskOK, Items
  <2> QED  BY <2>1, <2>2, <2>3, KeptLasts
<1>3. \A u \in Transfer \ {t} : TransferOK(u)'
  BY OthersOK
<1> QED  BY <1>2, <1>3 DEF IInv, TransferOK

\* The download directory is left alone.
LEMMA DiskKept ==
  ASSUME IInv, UNCHANGED <<root, dirs, files>>, NEW t \in Transfer,
         rpc'[t] = "idle" => rpc[t] = "idle", rpc'[t] \in ReceiverOn => rpc[t] \in ReceiverOn,
         \A u \in Transfer \ {t} : rpc'[u] = rpc[u]
  PROVE  RootInv' /\ DiskStep(t)
<1>1. DiskStep(t)
  BY DEF DiskStep
<1>2. RootInv'
  BY DEF IInv, RootInv, Taken, Tops
<1> QED  BY <1>1, <1>2

\* The files of the transfer are as good as before if none changes.
LEMMA OwnKept ==
  ASSUME NEW t \in Transfer, OwnOK(t), UNCHANGED <<root, files>>,
         \/ rpc[t] \notin {"chunk", "failed"}
         \/ current'[t] = current[t] /\ rpc'[t] \in {"chunk", "failed"}
  PROVE  OwnOK(t)'
<1> SUFFICES ASSUME NEW p \in DOMAIN files, root[t] # <<>>, p[1] = root[t][1]
             PROVE  OwnFile(t, p)'
  BY DEF OwnOK
<1>1. OwnFile(t, p)
  BY DEF OwnOK
<1> QED  BY <1>1 DEF OwnFile, Items, SizeAt

\* The stream after its first element is read.
LEMMA TokenRead ==
  ASSUME NEW t \in Transfer, WireOK(t), Map(wire), wire[t] # <<>>,
         wire' = [wire EXCEPT ![t] = Tail(@)], UNCHANGED sVars
  PROVE  /\ WireOK(t)' /\ TokenOK(t, 1) /\ Head(wire[t]) = wire[t][1]
         /\ Len(wire[t]) \in Nat /\ Len(wire[t]) >= 1 /\ Len(wire'[t]) = Len(wire[t]) - 1
         /\ wire'[t] = <<>> <=> Len(wire[t]) = 1
         /\ \A k \in 1..(Len(wire[t]) - 1) : wire'[t][k] = wire[t][k + 1]
         /\ \A i, u : DataAt(t, 2, i, u) => DataAt(t, 1, i, u)'
         /\ Map(wire)' /\ \A u \in Transfer \ {t} : wire'[u] = wire[u]
<1>1. /\ wire'[t] = Tail(wire[t]) /\ Map(wire)'
      /\ \A u \in Transfer \ {t} : wire'[u] = wire[u]
  BY DEF Map
<1>2. /\ Sequence(wire'[t]) /\ Head(wire[t]) = wire[t][1]
      /\ Len(wire[t]) \in Nat /\ Len(wire[t]) >= 1 /\ Len(wire'[t]) = Len(wire[t]) - 1
      /\ \A k \in 1..(Len(wire[t]) - 1) : wire'[t][k] = wire[t][k + 1]
  <2> DEFINE s == wire[t]
             r == wire'[t]
  <2>1. Sequence(s) /\ s # <<>> /\ r = Tail(s)
    BY <1>1 DEF WireOK
  <2> HIDE DEF s, r
  <2>2. /\ Sequence(r) /\ Head(s) = s[1] /\ Len(s) \in Nat /\ Len(s) > 0 /\ Len(r) = Len(s) - 1
        /\ \A k \in 1..(Len(s) - 1) : r[k] = s[k + 1]
    BY <2>1, Tailed, Zenon
  <2>3. Len(s) >= 1
    BY <2>2
  <2> QED  BY <2>2, <2>3 DEF s, r
<1>3. TokenOK(t, 1)
  BY <1>2 DEF WireOK
<1>4. ASSUME NEW k \in Nat \ {0}  PROVE  \A i, u : DataAt(t, k + 1, i, u) => DataAt(t, k, i, u)'
  <2>1. CASE k + 1 <= Len(wire[t])
    <3>1. k <= Len(wire'[t]) /\ wire'[t][k] = wire[t][k + 1]
      BY <1>2, <2>1
    <3> QED  BY <2>1, <3>1 DEF DataAt
  <2>2. CASE ~(k + 1 <= Len(wire[t]))
    <3>1. ~(k <= Len(wire'[t]))
      BY <1>2, <2>2
    <3> QED  BY <2>2, <3>1 DEF DataAt, sVars
  <2> QED  BY <2>1, <2>2
<1>5. \A i, u : DataAt(t, 2, i, u) => DataAt(t, 1, i, u)'
  <2>1. 1 \in Nat \ {0} /\ 1 + 1 = 2
    OBVIOUS
  <2> QED  BY <1>4, <2>1
<1>6. ASSUME NEW k \in 1..Len(wire'[t])  PROVE  TokenOK(t, k)'
  <2>1. k + 1 \in 1..Len(wire[t]) /\ k + 1 \in Nat \ {0} /\ wire'[t][k] = wire[t][k + 1]
    BY <1>2
  <2>2. TokenOK(t, k + 1)
    BY <2>1 DEF WireOK
  <2>3. \A i, u : DataAt(t, (k + 1) + 1, i, u) => DataAt(t, k + 1, i, u)'
    BY <1>4, <2>1
  <2> QED  BY <2>1, <2>2, <2>3, TokenKept
<1>7. WireOK(t)'
  BY <1>2, <1>6 DEF WireOK
<1>8. wire'[t] = <<>> <=> Len(wire[t]) = 1
  <2>1. wire'[t] = <<>> <=> Len(wire'[t]) = 0
    BY <1>2, EmptySequence
  <2> QED  BY <1>2, <2>1
<1> QED  BY <1>1, <1>2, <1>3, <1>5, <1>7, <1>8

\* What an element of the stream carries, by its kind.
LEMMA TokenOfKind ==
  ASSUME NEW t \in Transfer, NEW k, TokenOK(t, k)
  PROVE  /\ wire[t][k].kind = "parts" => \E i \in Items(t) : wire[t][k].what = PathAt(t, i)
         /\ wire[t][k].kind = "size" => SizeToken(t, k)
         /\ wire[t][k].kind = "data" => DataToken(t, k)
<1> DEFINE token == wire[t][k]
<1>1. CASE \E what \in {"file", "dir", "end"} : token = Code(what)
  <2>1. token.kind = "code"
    BY <1>1 DEF Code
  <2> QED  BY <2>1
<1>2. CASE \E i \in Items(t) : token = Parts(PathAt(t, i))
  <2>1. token.kind = "parts" /\ \E i \in Items(t) : token.what = PathAt(t, i)
    BY <1>2 DEF Parts
  <2> QED  BY <2>1
<1>3. CASE SizeToken(t, k)
  <2>1. token.kind = "size"
    BY <1>3 DEF SizeToken, SizeOf
  <2> QED  BY <1>3, <2>1
<1>4. CASE DataToken(t, k)
  <2>1. token.kind = "data"
    BY <1>4 DEF DataToken, Data
  <2> QED  BY <1>4, <2>1
<1> QED  BY <1>1, <1>2, <1>3, <1>4 DEF TokenOK

\* What is left in the stream is still of the sender's item.
LEMMA LiveTokensRead ==
  ASSUME NEW t \in Transfer, UNCHANGED sVars, Len(wire[t]) \in Nat, Len(wire[t]) >= 1,
         Len(wire'[t]) = Len(wire[t]) - 1,
         \A k \in 1..(Len(wire[t]) - 1) : wire'[t][k] = wire[t][k + 1],
         \A k \in 1..Len(wire[t]) : LiveToken(t, k)
  PROVE  \A k \in 1..Len(wire'[t]) : LiveToken(t, k)'
<1> SUFFICES ASSUME NEW k \in 1..Len(wire'[t]) PROVE LiveToken(t, k)'
  OBVIOUS
<1>1. /\ k + 1 \in 1..Len(wire[t]) /\ wire'[t][k] = wire[t][k + 1]
      /\ (k = Len(wire'[t]) <=> k + 1 = Len(wire[t]))
      /\ (k # Len(wire'[t]) => wire'[t][k + 1] = wire[t][(k + 1) + 1])
  OBVIOUS
<1>2. LiveToken(t, k + 1)
  BY <1>1
<1> QED  BY <1>1, <1>2 DEF LiveToken, sVars, SizeAt, PathAt

\* The receiver confirms.
LEMMA ConfirmStep ==
  ASSUME IInv, NEW t \in Transfer, Confirm(t)
  PROVE  IInv'
<1>1. MapInv /\ TransferOK(t) /\ TaskOK(t)
  BY DEF IInv, TransferOK
<1>2. /\ rpc[t] = "confirm" /\ rpc' = [rpc EXCEPT ![t] = "code"] /\ acks' = [acks EXCEPT ![t] = @ + 1]
      /\ UNCHANGED <<build, sVars, gone, wire, closed, root, current, dirs, files>>
  BY DEF Confirm, SendBack
<1>3. /\ MapInv' /\ rpc'[t] = "code" /\ acks'[t] = acks[t] + 1
      /\ \A u \in Transfer \ {t} : Same(u) /\ rpc'[u] = rpc[u]
  BY <1>1, <1>2 DEF MapInv, Map, Same, sVars
<1>4. acks[t] = 0 /\ wire[t] = <<>> /\ spc[t] \in {"idle", "confirm", "failed"}
  BY <1>1, <1>2 DEF TaskOK, NotBegun
<1>5. RootInv' /\ DiskStep(t)
  BY <1>2, <1>3, DiskKept DEF ReceiverOn
<1>6. TaskOK(t)'
  BY <1>1, <1>2, <1>3, <1>4 DEF TaskOK, sVars, SenderOn, SenderOver, NotBegun, Items, ReceiverOn
<1>7. \A k, i, n : DataAt(t, k, i, n)' <=> DataAt(t, k, i, n)
  BY <1>2 DEF DataAt, sVars
<1>8. WireOK(t)'
  BY <1>1, <1>2, <1>7 DEF TransferOK, WireOK, TokenOK, SizeToken, DataToken, Items, SizeAt, PathAt
<1>9. HandOK(t)' /\ LiveOK(t)'
  BY <1>2, <1>3, <1>4 DEF HandOK, LiveOK, Attentive, SenderOn, sVars
<1>10. OwnOK(t)'
  BY <1>1, <1>2, OwnKept DEF TransferOK
<1> QED  BY <1>2, <1>3, <1>5, <1>6, <1>8, <1>9, <1>10, ReceiverStep

\* A code that announces an item.
LEMMA RecvCodeStep ==
  ASSUME IInv, NEW t \in Transfer, RecvCode(t)
  PROVE  IInv'
<1>1. MapInv /\ TransferOK(t) /\ TaskOK(t) /\ WireOK(t) /\ LiveOK(t)
  BY DEF IInv, TransferOK
<1>2. /\ rpc[t] = "code" /\ wire[t] # <<>> /\ wire' = [wire EXCEPT ![t] = Tail(@)]
      /\ rpc' = [rpc EXCEPT ![t] = IF Head(wire[t]).what = "dir" THEN "path" ELSE "parts"]
      /\ UNCHANGED <<build, sVars, gone, acks, closed, root, current, dirs, files>>
  BY DEF RecvCode, Recv
<1>3. /\ WireOK(t)' /\ Len(wire[t]) \in Nat /\ Len(wire[t]) >= 1 /\ Len(wire'[t]) = Len(wire[t]) - 1
      /\ \A k \in 1..(Len(wire[t]) - 1) : wire'[t][k] = wire[t][k + 1]
      /\ Map(wire)' /\ \A u \in Transfer \ {t} : wire'[u] = wire[u]
  BY <1>1, <1>2, TokenRead DEF MapInv
<1>4. /\ MapInv' /\ rpc'[t] \in {"path", "parts"}
      /\ \A u \in Transfer \ {t} : Same(u) /\ rpc'[u] = rpc[u]
  BY <1>1, <1>2, <1>3 DEF MapInv, Map, Same, sVars
<1>5. RootInv' /\ DiskStep(t)
  BY <1>2, <1>4, DiskKept DEF ReceiverOn
<1>6. TaskOK(t)'
  BY <1>1, <1>2, <1>4 DEF TaskOK, sVars, SenderOn, SenderOver, NotBegun, Items, ReceiverOn
<1>7. HandOK(t)'
  BY <1>4 DEF HandOK
<1>8. OwnOK(t)'
  BY <1>1, <1>2, OwnKept DEF TransferOK
<1>9. LiveOK(t)'
  <2> SUFFICES ASSUME Attentive(t)
               PROVE  LiveHand(t)' /\ \A k \in 1..Len(wire'[t]) : LiveToken(t, k)'
    BY <1>2 DEF LiveOK, Attentive, sVars
  <2>1. LiveHand(t) /\ \A k \in 1..Len(wire[t]) : LiveToken(t, k)
    BY <1>1 DEF LiveOK
  <2>2. LiveHand(t)'
    BY <1>2, <1>4, <2>1 DEF LiveHand
  <2> QED  BY <1>2, <1>3, <2>1, <2>2, LiveTokensRead
<1> QED  BY <1>2, <1>3, <1>4, <1>5, <1>6, <1>7, <1>8, <1>9, ReceiverStep

\* The code that goes back after a file.
LEMMA SendAckStep ==
  ASSUME IInv, NEW t \in Transfer, SendAck(t)
  PROVE  IInv'
<1>1. MapInv /\ TransferOK(t) /\ TaskOK(t) /\ LiveOK(t)
  BY DEF IInv, TransferOK
<1>2. /\ rpc[t] = "ack" /\ rpc' = [rpc EXCEPT ![t] = "code"] /\ acks' = [acks EXCEPT ![t] = @ + 1]
      /\ UNCHANGED <<build, sVars, gone, wire, closed, root, current, dirs, files>>
  BY DEF SendAck, SendBack
<1>3. /\ MapInv' /\ rpc'[t] = "code" /\ acks'[t] = acks[t] + 1
      /\ \A u \in Transfer \ {t} : Same(u) /\ rpc'[u] = rpc[u]
  BY <1>1, <1>2 DEF MapInv, Map, Same, sVars
<1>4. RootInv' /\ DiskStep(t)
  BY <1>2, <1>3, DiskKept DEF ReceiverOn
<1>5. TaskOK(t)'
  BY <1>1, <1>2, <1>3 DEF TaskOK, sVars, SenderOn, SenderOver, NotBegun, Items, ReceiverOn
<1>6. \A k, i, n : DataAt(t, k, i, n)' <=> DataAt(t, k, i, n)
  BY <1>2 DEF DataAt, sVars
<1>7. WireOK(t)'
  BY <1>1, <1>2, <1>6 DEF TransferOK, WireOK, TokenOK, SizeToken, DataToken, Items, SizeAt, PathAt
<1>8. HandOK(t)'
  BY <1>3 DEF HandOK
<1>9. OwnOK(t)'
  BY <1>1, <1>2, OwnKept DEF TransferOK
<1>10. LiveOK(t)'
  <2> SUFFICES ASSUME Attentive(t)
               PROVE  LiveHand(t)' /\ \A k \in 1..Len(wire'[t]) : LiveToken(t, k)'
    BY <1>2 DEF LiveOK, Attentive, sVars
  <2>1. spc[t] = "ack" /\ wire[t] = <<>> /\ Kept(t, item[t]) /\ acks[t] = 0
    BY <1>1, <1>2 DEF LiveOK, LiveHand, TaskOK
  <2>2. Kept(t, item[t])'
    BY <1>2, <2>1 DEF Kept, Stored, Exists, Contents, SizeAt, PathAt, sVars
  <2>3. LiveHand(t)'
    <3>1. acks'[t] = 1 /\ spc'[t] = "ack" /\ wire'[t] = <<>> /\ rpc'[t] = "code"
      BY <1>2, <1>3, <2>1 DEF sVars
    <3> QED  BY <2>2, <3>1 DEF LiveHand
  <2>4. 1..Len(wire'[t]) = {}
    BY <1>2, <2>1, EmptySequence
  <2> QED  BY <2>3, <2>4
<1> QED  BY <1>2, <1>3, <1>4, <1>5, <1>7, <1>8, <1>9, <1>10, ReceiverStep

\* The receiver is through, or gives up: nothing is written any more.
LEMMA ReceiverOff ==
  ASSUME IInv, NEW t \in Transfer, NEW how \in {"ended", "failed"}, ReceiverEnds(t, how),
         rpc[t] \in ReceiverOn, how = "ended" => rpc[t] = "code",
         UNCHANGED <<build, sVars, gone, acks, root, current, dirs, files>>, Map(wire)', WireOK(t)',
         \A u \in Transfer \ {t} : wire'[u] = wire[u],
         wire[t] = <<>> => wire'[t] = <<>>,
         Attentive(t) => \A k \in 1..Len(wire'[t]) : LiveToken(t, k)'
  PROVE  IInv'
<1>1. MapInv /\ TransferOK(t) /\ TaskOK(t) /\ LiveOK(t)
  BY DEF IInv, TransferOK
<1>2. /\ MapInv' /\ rpc'[t] = how /\ closed'[t] = closed[t] \cup {"receiver"}
      /\ \A u \in Transfer \ {t} : Same(u) /\ rpc'[u] = rpc[u]
  BY <1>1 DEF ReceiverEnds, MapInv, Map, Same, sVars
<1>3. RootInv' /\ DiskStep(t)
  BY <1>2, DiskKept DEF ReceiverOn
<1>4. TaskOK(t)'
  BY <1>1, <1>2 DEF TaskOK, sVars, SenderOn, SenderOver, NotBegun, Items, ReceiverOn
<1>5. HandOK(t)'
  BY <1>2 DEF HandOK
<1>6. OwnOK(t)'
  BY <1>1, <1>2, OwnKept DEF TransferOK, ReceiverOn
<1>7. LiveOK(t)'
  <2> SUFFICES ASSUME Attentive(t) PROVE LiveHand(t)'
    BY DEF LiveOK, Attentive, sVars
  <2>1. LiveHand(t)
    BY <1>1 DEF LiveOK
  <2>2. Kept(t, item[t]) => Kept(t, item[t])'
    BY DEF Kept, Stored, Exists, Contents, SizeAt, PathAt, sVars
  <2> QED  BY <1>2, <2>1, <2>2 DEF LiveHand, sVars
<1> QED  BY <1>2, <1>3, <1>4, <1>5, <1>6, <1>7, ReceiverStep

\* The end code, or the end of the stream.
LEMMA DirectoryReceivedStep ==
  ASSUME IInv, NEW t \in Transfer, DirectoryReceived(t)
  PROVE  IInv'
<1>1. MapInv /\ TransferOK(t) /\ WireOK(t) /\ LiveOK(t)
  BY DEF IInv, TransferOK
<1>2. /\ rpc[t] = "code" /\ ReceiverEnds(t, "ended")
      /\ UNCHANGED <<build, sVars, gone, acks, root, current, dirs, files>>
  BY DEF DirectoryReceived
<1>3. CASE wire[t] # <<>> /\ wire' = [wire EXCEPT ![t] = Tail(@)]
  <2>1. /\ WireOK(t)' /\ Len(wire[t]) \in Nat /\ Len(wire[t]) >= 1 /\ Len(wire'[t]) = Len(wire[t]) - 1
        /\ \A k \in 1..(Len(wire[t]) - 1) : wire'[t][k] = wire[t][k + 1]
        /\ Map(wire)' /\ \A u \in Transfer \ {t} : wire'[u] = wire[u]
    BY <1>1, <1>2, <1>3, TokenRead DEF MapInv
  <2>2. Attentive(t) => \A k \in 1..Len(wire'[t]) : LiveToken(t, k)'
    BY <1>1, <1>2, <2>1, LiveTokensRead DEF LiveOK
  <2> QED  BY <1>2, <1>3, <2>1, <2>2, ReceiverOff DEF ReceiverOn
<1>4. CASE UNCHANGED wire
  <2>1. \A k, i, n : DataAt(t, k, i, n)' <=> DataAt(t, k, i, n)
    BY <1>2, <1>4 DEF DataAt, sVars
  <2>2. WireOK(t)'
    BY <1>1, <1>4, <2>1 DEF WireOK, TokenOK, SizeToken, DataToken, Items, SizeAt, PathAt
  <2>3. Attentive(t) => \A k \in 1..Len(wire'[t]) : LiveToken(t, k)'
    BY <1>1, <1>2, <1>4 DEF LiveOK, LiveToken, sVars, SizeAt, PathAt
  <2> QED  BY <1>1, <1>2, <1>4, <2>2, <2>3, ReceiverOff DEF ReceiverOn, MapInv, Map
<1> QED  BY <1>3, <1>4 DEF DirectoryReceived, Recv

\* A recv or a send of the receiver raises.
LEMMA ReceiverRaisesStep ==
  ASSUME IInv, NEW t \in Transfer, ReceiverRaises(t)
  PROVE  IInv'
<1>1. MapInv /\ TransferOK(t) /\ WireOK(t) /\ LiveOK(t)
  BY DEF IInv, TransferOK
<1>2. /\ rpc[t] \in ReceiverOn /\ ReceiverEnds(t, "failed")
      /\ UNCHANGED <<build, sVars, gone, wire, acks, root, current, dirs, files>>
  BY DEF ReceiverRaises
<1>3. \A k, i, n : DataAt(t, k, i, n)' <=> DataAt(t, k, i, n)
  BY <1>2 DEF DataAt, sVars
<1>4. WireOK(t)'
  BY <1>1, <1>2, <1>3 DEF WireOK, TokenOK, SizeToken, DataToken, Items, SizeAt, PathAt
<1>5. Attentive(t) => \A k \in 1..Len(wire'[t]) : LiveToken(t, k)'
  BY <1>1, <1>2 DEF LiveOK, LiveToken, sVars, SizeAt, PathAt
<1> QED  BY <1>1, <1>2, <1>4, <1>5, ReceiverOff DEF MapInv, Map

\* The path of a file.
LEMMA RecvPartsStep ==
  ASSUME IInv, NEW t \in Transfer, RecvParts(t)
  PROVE  IInv'
<1>1. MapInv /\ TransferOK(t) /\ TaskOK(t) /\ WireOK(t) /\ LiveOK(t)
  BY DEF IInv, TransferOK
<1> DEFINE path == root[t] \o Head(wire[t]).what
<1>2. /\ rpc[t] = "parts" /\ wire[t] # <<>> /\ wire' = [wire EXCEPT ![t] = Tail(@)]
      /\ Head(wire[t]).kind = "parts"
      /\ current' = [current EXCEPT ![t] = [NoFile EXCEPT !.path = path]]
      /\ rpc' = [rpc EXCEPT ![t] = "size"]
      /\ UNCHANGED <<build, sVars, gone, acks, closed, root, dirs, files>>
  BY DEF RecvParts, Recv
<1> HIDE DEF path
<1>3. /\ WireOK(t)' /\ TokenOK(t, 1) /\ Head(wire[t]) = wire[t][1]
      /\ Len(wire[t]) \in Nat /\ Len(wire[t]) >= 1 /\ Len(wire'[t]) = Len(wire[t]) - 1
      /\ (wire'[t] = <<>> <=> Len(wire[t]) = 1)
      /\ \A k \in 1..(Len(wire[t]) - 1) : wire'[t][k] = wire[t][k + 1]
      /\ Map(wire)' /\ \A u \in Transfer \ {t} : wire'[u] = wire[u]
  BY <1>1, <1>2, TokenRead DEF MapInv
<1>4. /\ MapInv' /\ rpc'[t] = "size" /\ current'[t].path = path
      /\ \A u \in Transfer \ {t} : Same(u) /\ rpc'[u] = rpc[u]
  BY <1>1, <1>2, <1>3 DEF MapInv, Map, Same, sVars, NoFile
<1>5. RootInv' /\ DiskStep(t)
  BY <1>2, <1>4, DiskKept DEF ReceiverOn
<1>6. TaskOK(t)'
  BY <1>1, <1>2, <1>4 DEF TaskOK, sVars, SenderOn, SenderOver, NotBegun, Items, ReceiverOn
<1>7. HandOK(t)'
  <2>1. PICK i \in Items(t) : Head(wire[t]).what = PathAt(t, i)
    BY <1>2, <1>3, TokenOfKind
  <2>2. current'[t].path = root'[t] \o PathAt(t, i)
    BY <1>2, <1>4, <2>1 DEF path
  <2> QED  BY <1>4, <2>2 DEF HandOK, Items, PathAt
<1>8. OwnOK(t)'
  BY <1>1, <1>2, OwnKept DEF TransferOK
<1>9. LiveOK(t)'
  <2> SUFFICES ASSUME Attentive(t)
               PROVE  LiveHand(t)' /\ \A k \in 1..Len(wire'[t]) : LiveToken(t, k)'
    BY <1>2 DEF LiveOK, Attentive, sVars
  <2>1. LiveHand(t) /\ \A k \in 1..Len(wire[t]) : LiveToken(t, k)
    BY <1>1 DEF LiveOK
  <2>2. ~(acks'[t] > 0)
    BY <1>2, <2>1 DEF LiveHand
  <2>3. ASSUME IF wire'[t] = <<>> THEN spc[t] = "size" ELSE wire'[t][1].kind = "size"
        PROVE  current'[t].path = root[t] \o PathAt(t, item[t])
    <3>1. LiveToken(t, 1) /\ wire[t][1].kind = "parts"
      BY <1>2, <1>3, <2>1
    <3>2. IF 1 = Len(wire[t]) THEN spc[t] = "size" ELSE wire[t][1 + 1].kind = "size"
      BY <1>3, <2>3
    <3>3. wire[t][1].what = PathAt(t, item[t])
      BY <3>1, <3>2 DEF LiveToken
    <3> QED  BY <1>3, <1>4, <3>3 DEF path
  <2>4. LiveHand(t)'
    BY <1>2, <1>4, <2>2, <2>3 DEF LiveHand, PathAt, sVars
  <2> QED  BY <1>2, <1>3, <2>1, <2>4, LiveTokensRead
<1> QED  BY <1>2, <1>3, <1>4, <1>5, <1>6, <1>7, <1>8, <1>9, ReceiverStep

\* A new path in the root of transfer t.
LEMMA NewPath ==
  ASSUME IInv, NEW t \in Transfer, UNCHANGED root, root[t] # <<>>,
         NEW p, Sequence(p), p # <<>>, p[1] = root[t][1],
         dirs \subseteq dirs', Taken' = Taken \cup {p},
         \A q \in DOMAIN files' : Sequence(files'[q]),
         rpc'[t] # "idle", \A u \in Transfer \ {t} : rpc'[u] = rpc[u]
  PROVE  RootInv'
<1>1. RootInv
  BY DEF IInv
<1>2. <<p[1]>> = root[t] /\ root[t] \in dirs
  BY <1>1 DEF RootInv
<1>3. Tops' = Tops /\ root[t] \in Taken' \cap Tops'
  BY <1>2 DEF Tops, Taken
<1>4. \A q \in Taken' : Sequence(q) /\ q # <<>> /\ <<q[1]>> \in Taken' \cap Tops'
  BY <1>1, <1>2, <1>3 DEF RootInv
<1> QED  BY <1>1, <1>4 DEF RootInv

\* The path of a directory, and mkdir.
LEMMA RecvPathStep ==
  ASSUME IInv, NEW t \in Transfer, RecvPath(t)
  PROVE  IInv'
<1>1. MapInv /\ TransferOK(t) /\ TaskOK(t) /\ WireOK(t) /\ LiveOK(t) /\ RootInv
  BY DEF IInv, TransferOK
<1> DEFINE p == root[t] \o Head(wire[t]).what
<1>2. /\ rpc[t] = "path" /\ wire[t] # <<>> /\ wire' = [wire EXCEPT ![t] = Tail(@)]
      /\ Head(wire[t]).kind = "parts"
      /\ UNCHANGED <<build, sVars, gone, acks, root, current, files>>
      /\ IF Exists(p)
         THEN ReceiverEnds(t, "failed") /\ UNCHANGED dirs
         ELSE dirs' = dirs \cup {p} /\ rpc' = [rpc EXCEPT ![t] = "code"] /\ UNCHANGED closed
  BY DEF RecvPath, Recv
<1>3. /\ WireOK(t)' /\ TokenOK(t, 1) /\ Head(wire[t]) = wire[t][1]
      /\ Len(wire[t]) \in Nat /\ Len(wire[t]) >= 1 /\ Len(wire'[t]) = Len(wire[t]) - 1
      /\ \A k \in 1..(Len(wire[t]) - 1) : wire'[t][k] = wire[t][k + 1]
      /\ Map(wire)' /\ \A u \in Transfer \ {t} : wire'[u] = wire[u]
  BY <1>1, <1>2, TokenRead DEF MapInv
<1>4. root[t] # <<>> /\ Sequence(root[t])
  BY <1>1, <1>2 DEF RootInv, ReceiverOn, Taken
<1>5. Sequence(p) /\ p # <<>> /\ p[1] = root[t][1]
  <2>1. PICK i \in Items(t) : Head(wire[t]).what = PathAt(t, i)
    BY <1>2, <1>3, TokenOfKind
  <2>2. Sequence(PathAt(t, i)) /\ PathAt(t, i) # <<>>
    BY ItemTypes
  <2> QED  BY <1>4, <2>1, <2>2, Joined
<1>6. Attentive(t) => \A k \in 1..Len(wire'[t]) : LiveToken(t, k)'
  BY <1>1, <1>2, <1>3, LiveTokensRead DEF LiveOK
<1>7. CASE Exists(p)
  BY <1>2, <1>3, <1>6, <1>7, ReceiverOff DEF ReceiverOn
<1>8. CASE ~Exists(p)
  <2>1. dirs' = dirs \cup {p} /\ rpc' = [rpc EXCEPT ![t] = "code"] /\ UNCHANGED closed
    BY <1>2, <1>8
  <2> HIDE DEF p
  <2>2. /\ MapInv' /\ rpc'[t] = "code"
        /\ \A u \in Transfer \ {t} : Same(u) /\ rpc'[u] = rpc[u]
    BY <1>1, <1>2, <1>3, <2>1 DEF MapInv, Map, Same, sVars
  <2>3. DiskStep(t)
    BY <1>2, <2>1 DEF DiskStep
  <2>4. RootInv'
    <3>1. Taken' = Taken \cup {p} /\ \A q \in DOMAIN files' : Sequence(files'[q])
      BY <1>1, <1>2, <2>1 DEF Taken, RootInv
    <3> QED  BY <1>2, <1>4, <1>5, <2>1, <2>2, <3>1, NewPath
  <2>5. TaskOK(t)'
    BY <1>1, <1>2, <2>1, <2>2 DEF TaskOK, sVars, SenderOn, SenderOver, NotBegun, Items, ReceiverOn
  <2>6. HandOK(t)'
    BY <2>2 DEF HandOK
  <2>7. OwnOK(t)'
    BY <1>1, <1>2, OwnKept DEF TransferOK
  <2>8. LiveOK(t)'
    <3> SUFFICES ASSUME Attentive(t) PROVE LiveHand(t)'
      BY <1>2, <1>6 DEF LiveOK, Attentive, sVars
    <3> QED  BY <1>1, <1>2, <2>2 DEF LiveOK, LiveHand
  <2> QED  BY <1>2, <1>3, <2>2, <2>3, <2>4, <2>5, <2>6, <2>7, <2>8, ReceiverStep
<1> QED  BY <1>7, <1>8

\* validatename changes at most the last name of a path.
LEMMA ValidPath ==
  ASSUME NEW t \in Transfer, NEW q, Sequence(q), Len(q) > 1
  PROVE  /\ Sequence(ValidName(t, q)) /\ ValidName(t, q) # <<>>
         /\ ValidName(t, q)[1] = q[1] /\ Front(ValidName(t, q)) = Front(q)
<1>1. ValidName(t, q) = q \/ \E name : ValidName(t, q) = Append(Front(q), name)
  BY DEF ValidName
<1>2. q # <<>>
  BY EmptySequence
<1>3. CASE ValidName(t, q) = q
  BY <1>2, <1>3
<1>4. CASE \E name : ValidName(t, q) = Append(Front(q), name)
  <2>1. PICK name : ValidName(t, q) = Append(Front(q), name)
    BY <1>4
  <2>2. /\ Sequence(Append(Front(q), name)) /\ Append(Front(q), name) # <<>>
        /\ Append(Front(q), name)[1] = q[1] /\ Front(Append(Front(q), name)) = Front(q)
    BY Renamed
  <2> QED  BY <2>1, <2>2, Zenon
<1> QED  BY <1>1, <1>3, <1>4

\* What becomes of a file whose size has come: a new one, an empty one, or none.
LEMMA FileOpened ==
  ASSUME NEW t \in Transfer, NEW p, NEW n \in Nat, Map(rpc), Map(closed),
         IF n = 0 THEN Touch(t, p) ELSE OpenNew(t, p)
  PROVE  /\ \/ UNCHANGED files
            \/ ~Exists(p) /\ DOMAIN files' = DOMAIN files \cup {p} /\ files'[p] = <<>>
               /\ files' = [q \in DOMAIN files' |-> files'[q]]
               /\ \A q \in DOMAIN files : q # p => files'[q] = files[q]
         /\ \/ n = 0 /\ rpc'[t] = "ack" /\ UNCHANGED closed /\ p \in dirs \cup DOMAIN files'
            \/ n > 0 /\ rpc'[t] = "chunk" /\ UNCHANGED closed /\ p \in DOMAIN files' /\ files'[p] = <<>>
            \/ rpc'[t] = "failed" /\ closed'[t] = closed[t] \cup {"receiver"}
         /\ Map(rpc)' /\ Map(closed)'
         /\ \A u \in Transfer \ {t} : rpc'[u] = rpc[u] /\ closed'[u] = closed[u]
<1>1. Create(p) => /\ DOMAIN files' = DOMAIN files \cup {p} /\ files'[p] = <<>>
                   /\ files' = [q \in DOMAIN files' |-> files'[q]]
                   /\ \A q \in DOMAIN files : q # p => files'[q] = files[q]
  BY DEF Create
<1>2. CASE n = 0
  <2>1. /\ (IF Exists(p) THEN UNCHANGED files ELSE Create(p))
        /\ rpc' = [rpc EXCEPT ![t] = "ack"] /\ UNCHANGED closed
    BY <1>2 DEF Touch
  <2> QED  BY <1>1, <1>2, <2>1 DEF Map, Exists
<1>3. CASE n # 0
  <2>1. CASE Exists(p)
    <3>1. rpc' = [rpc EXCEPT ![t] = "failed"] /\ closed' = [closed EXCEPT ![t] = @ \cup {"receiver"}]
          /\ UNCHANGED files
      BY <1>3, <2>1 DEF OpenNew, ReceiverEnds
    <3> QED  BY <3>1 DEF Map
  <2>2. CASE ~Exists(p)
    <3>1. Create(p) /\ rpc' = [rpc EXCEPT ![t] = "chunk"] /\ UNCHANGED closed
      BY <1>3, <2>2 DEF OpenNew
    <3>2. n > 0
      BY <1>3
    <3>3. /\ rpc'[t] = "chunk" /\ Map(rpc)' /\ Map(closed)'
          /\ \A u \in Transfer \ {t} : rpc'[u] = rpc[u] /\ closed'[u] = closed[u]
      BY <3>1 DEF Map
    <3> QED  BY <1>1, <2>2, <3>1, <3>2, <3>3
  <2> QED  BY <2>1, <2>2
<1> QED  BY <1>2, <1>3

\* The size of a file, which is touched or opened.
LEMMA RecvSizeStep ==
  ASSUME IInv, NEW t \in Transfer, RecvSize(t)
  PROVE  IInv'
<1>1. MapInv /\ TransferOK(t) /\ TaskOK(t) /\ WireOK(t) /\ LiveOK(t) /\ RootInv /\ HandOK(t) /\ OwnOK(t)
  BY DEF IInv, TransferOK
<1> DEFINE n == Head(wire[t]).what
           cp == current[t].path
           p == IF n = 0 THEN cp ELSE ValidName(t, cp)
<1>2. /\ rpc[t] = "size" /\ wire[t] # <<>> /\ wire' = [wire EXCEPT ![t] = Tail(@)]
      /\ Head(wire[t]).kind = "size"
      /\ current' = [current EXCEPT ![t] = [path |-> p, size |-> n, seeked |-> 0]]
      /\ (IF n = 0 THEN Touch(t, p) ELSE OpenNew(t, p))
      /\ UNCHANGED <<build, sVars, gone, acks, root, dirs>>
  BY DEF RecvSize, Recv
<1>3. /\ WireOK(t)' /\ TokenOK(t, 1) /\ Head(wire[t]) = wire[t][1]
      /\ Len(wire[t]) \in Nat /\ Len(wire[t]) >= 1 /\ Len(wire'[t]) = Len(wire[t]) - 1
      /\ (wire'[t] = <<>> <=> Len(wire[t]) = 1)
      /\ \A k \in 1..(Len(wire[t]) - 1) : wire'[t][k] = wire[t][k + 1]
      /\ \A i, u : DataAt(t, 2, i, u) => DataAt(t, 1, i, u)'
      /\ Map(wire)' /\ \A u \in Transfer \ {t} : wire'[u] = wire[u]
  BY <1>1, <1>2, TokenRead DEF MapInv
<1>4. PICK i \in Items(t) : n = SizeAt(t, i) /\ (n > 0 => DataAt(t, 1, i, 1)')
  <2>1. SizeToken(t, 1)
    BY <1>2, <1>3, TokenOfKind
  <2>2. PICK i \in Items(t) : wire[t][1] = SizeOf(SizeAt(t, i)) /\ (SizeAt(t, i) > 0 => DataAt(t, 2, i, 1))
    BY <2>1 DEF SizeToken
  <2> QED  BY <1>3, <2>2 DEF SizeOf
<1>5. n \in Nat
  BY <1>4, ItemTypes
<1>6. root[t] # <<>> /\ Sequence(root[t])
  BY <1>1, <1>2 DEF RootInv, ReceiverOn, Taken
<1>7. Sequence(cp) /\ cp # <<>> /\ Len(cp) > 1 /\ cp[1] = root[t][1]
  <2>1. PICK j \in Items(t) : cp = root[t] \o PathAt(t, j)
    BY <1>1, <1>2 DEF HandOK
  <2>2. Sequence(PathAt(t, j)) /\ PathAt(t, j) # <<>>
    BY ItemTypes
  <2> QED  BY <1>6, <2>1, <2>2, Joined
<1> HIDE DEF n, cp
<1>8. Sequence(p) /\ p # <<>> /\ p[1] = root[t][1] /\ Front(p) = Front(cp) /\ (n = 0 => p = cp)
  BY <1>7, ValidPath
<1> HIDE DEF p
<1>9. /\ \/ UNCHANGED files
         \/ ~Exists(p) /\ DOMAIN files' = DOMAIN files \cup {p} /\ files'[p] = <<>>
            /\ files' = [q \in DOMAIN files' |-> files'[q]]
            /\ \A q \in DOMAIN files : q # p => files'[q] = files[q]
      /\ \/ n = 0 /\ rpc'[t] = "ack" /\ UNCHANGED closed /\ p \in dirs \cup DOMAIN files'
         \/ n > 0 /\ rpc'[t] = "chunk" /\ UNCHANGED closed /\ p \in DOMAIN files' /\ files'[p] = <<>>
         \/ rpc'[t] = "failed" /\ closed'[t] = closed[t] \cup {"receiver"}
      /\ Map(rpc)' /\ Map(closed)'
      /\ \A u \in Transfer \ {t} : rpc'[u] = rpc[u] /\ closed'[u] = closed[u]
  BY <1>1, <1>2, <1>5, FileOpened DEF MapInv
<1>10. /\ Map(current)' /\ current'[t] = [path |-> p, size |-> n, seeked |-> 0]
       /\ \A u \in Transfer \ {t} : current'[u] = current[u]
  BY <1>1, <1>2 DEF MapInv, Map
<1>11. current'[t].path = p /\ current'[t].size = n /\ current'[t].seeked = 0
  BY <1>10
<1>12. files' = [q \in DOMAIN files' |-> files'[q]]
  BY <1>1, <1>9 DEF MapInv
<1>13. MapInv'
  <2>1. \A u \in Transfer : current'[u] = [path |-> current'[u].path, size |-> current'[u].size,
                                           seeked |-> current'[u].seeked]
    BY <1>1, <1>10 DEF MapInv
  <2> QED  BY <1>1, <1>2, <1>3, <1>9, <1>10, <1>12, <2>1 DEF MapInv, Map, sVars
<1>14. \A u \in Transfer \ {t} : Same(u)
  BY <1>2, <1>3, <1>9, <1>10 DEF Same, sVars
<1>15. \A q \in DOMAIN files : q \in DOMAIN files' /\ files'[q] = files[q]
  BY <1>9 DEF Exists
<1>16. \A q \in DOMAIN files' \ DOMAIN files : q = p /\ files'[q] = <<>>
  BY <1>9
<1>17. DiskStep(t)
  BY <1>2, <1>6, <1>8, <1>15, <1>16 DEF DiskStep
<1>18. RootInv'
  <2>1. \A q \in DOMAIN files' : Sequence(files'[q])
    BY <1>1, <1>15, <1>16, EmptySequence DEF RootInv
  <2>2. CASE DOMAIN files' = DOMAIN files
    <3>1. Taken' = Taken /\ Tops' = Tops /\ rpc'[t] # "idle"
      BY <1>2, <1>9, <2>2 DEF Taken, Tops
    <3>2. \A u \in Transfer : /\ rpc'[u] = "idle" => root'[u] = <<>>
                              /\ rpc'[u] \in ReceiverOn => root'[u] # <<>>
      BY <1>1, <1>2, <1>6, <1>9, <3>1 DEF RootInv
    <3>3. \A q \in Taken' : Sequence(q) /\ q # <<>> /\ <<q[1]>> \in Taken' \cap Tops'
      BY <1>1, <3>1 DEF RootInv
    <3>4. /\ \A u \in Transfer : root'[u] # <<>> => root'[u] = <<root'[u][1]>> /\ root'[u] \in dirs'
          /\ \A u, v \in Transfer : root'[u] # <<>> /\ root'[u] = root'[v] => u = v
      BY <1>1, <1>2 DEF RootInv
    <3> QED  BY <2>1, <3>2, <3>3, <3>4 DEF RootInv
  <2>3. CASE DOMAIN files' = DOMAIN files \cup {p}
    <3>1. Taken' = Taken \cup {p} /\ rpc'[t] # "idle"
      BY <1>2, <1>9, <2>3 DEF Taken
    <3> QED  BY <1>2, <1>6, <1>8, <1>9, <2>1, <3>1, NewPath
  <2> QED  BY <1>9, <2>2, <2>3
<1>19. TaskOK(t)'
  BY <1>1, <1>2, <1>9 DEF TaskOK, sVars, SenderOn, SenderOver, NotBegun, Items, ReceiverOn
<1>20. HandOK(t)'
  <2> SUFFICES ASSUME rpc'[t] = "chunk" PROVE InHand(t)'
    BY <1>9 DEF HandOK
  <2>1. n > 0 /\ p \in DOMAIN files' /\ files'[p] = Units(t, i, 0)
    BY <1>9, UnitsGrow
  <2>2. DataAt(t, 1, i, 0 + 1)'
    BY <1>4, <2>1
  <2> QED  BY <1>2, <1>4, <1>8, <1>11, <2>1, <2>2 DEF InHand, Items, SizeAt
<1>21. OwnOK(t)'
  <2> SUFFICES ASSUME NEW q \in DOMAIN files', q[1] = root[t][1]
               PROVE  OwnFile(t, q)'
    BY <1>2 DEF OwnOK
  <2>1. CASE q \in DOMAIN files
    <3>1. files'[q] = files[q] /\ OwnFile(t, q)
      BY <1>1, <1>6, <1>15, <2>1 DEF OwnOK
    <3> QED  BY <1>2, <3>1 DEF OwnFile, Items, SizeAt
  <2>2. CASE q \notin DOMAIN files
    <3>1. q = p /\ files'[q] = Units(t, i, 0)
      BY <1>16, <2>2, UnitsGrow
    <3>2. 0 = SizeAt(t, i) \/ (q = current'[t].path /\ rpc'[t] \in {"chunk", "failed"})
      BY <1>4, <1>5, <1>9, <1>11, <3>1
    <3>3. 0 <= SizeAt(t, i) /\ 0 \in Nat
      BY <1>4, <1>5
    <3> QED  BY <3>1, <3>2, <3>3 DEF OwnFile, Items, SizeAt
  <2> QED  BY <2>1, <2>2
<1>22. LiveOK(t)'
  <2> SUFFICES ASSUME Attentive(t)
               PROVE  LiveHand(t)' /\ \A k \in 1..Len(wire'[t]) : LiveToken(t, k)'
    BY <1>2 DEF LiveOK, Attentive, sVars
  <2>1. LiveHand(t) /\ \A k \in 1..Len(wire[t]) : LiveToken(t, k)
    BY <1>1 DEF LiveOK
  <2>2. n = SizeAt(t, item[t]) /\ (n = 0 => Len(wire[t]) = 1 /\ spc[t] = "ack") /\ spc[t] \in {"chunk", "ack"}
    <3>1. LiveToken(t, 1) /\ wire[t][1].kind = "size" /\ wire[t][1].what = n
      BY <1>2, <1>3, <2>1 DEF n
    <3> QED  BY <3>1 DEF LiveToken
  <2>3. cp = root[t] \o PathAt(t, item[t])
    BY <1>2, <1>3, <2>1 DEF LiveHand, cp
  <2>4. item[t] \in Items(t)
    BY <1>1, <2>2 DEF TaskOK, SenderOn
  <2>5. Sequence(PathAt(t, item[t])) /\ PathAt(t, item[t]) # <<>>
    BY <2>4, ItemTypes
  <2>6. Front(p) = root[t] \o Front(PathAt(t, item[t]))
    BY <1>6, <1>8, <2>3, <2>5, Joined
  <2>7. rpc'[t] = "ack" => spc[t] = "ack" /\ wire'[t] = <<>> /\ Kept(t, item[t])'
    <3> SUFFICES ASSUME rpc'[t] = "ack" PROVE spc[t] = "ack" /\ wire'[t] = <<>> /\ Kept(t, item[t])'
      OBVIOUS
    <3>1. n = 0 /\ p \in dirs \cup DOMAIN files'
      BY <1>9
    <3>2. Exists(root[t] \o PathAt(t, item[t]))'
      BY <1>2, <1>8, <2>3, <3>1 DEF Exists, PathAt, sVars
    <3> QED  BY <1>2, <1>3, <2>2, <3>1, <3>2 DEF Kept, SizeAt, PathAt, sVars
  <2>8. ~(acks'[t] > 0)
    BY <1>2, <2>1 DEF LiveHand
  <2>9. LiveHand(t)'
    BY <1>2, <1>9, <1>11, <2>6, <2>7, <2>8 DEF LiveHand, PathAt, sVars
  <2> QED  BY <1>2, <1>3, <2>1, <2>9, LiveTokensRead
<1> QED  BY <1>2, <1>3, <1>13, <1>14, <1>17, <1>18, <1>19, <1>20, <1>21, <1>22, ReceiverStep

\* A chunk, which goes to the end of the file in hand.
LEMMA RecvChunkStep ==
  ASSUME IInv, NEW t \in Transfer, RecvChunk(t)
  PROVE  IInv'
<1>1. MapInv /\ TransferOK(t) /\ TaskOK(t) /\ WireOK(t) /\ LiveOK(t) /\ RootInv /\ HandOK(t) /\ OwnOK(t)
  BY DEF IInv, TransferOK
<1> DEFINE p == current[t].path
           unit == Head(wire[t]).what
<1>0. PICK n : n = current[t].seeked
  OBVIOUS
<1>2. /\ rpc[t] = "chunk" /\ wire[t] # <<>> /\ wire' = [wire EXCEPT ![t] = Tail(@)]
      /\ Head(wire[t]).kind = "data"
      /\ files' = [files EXCEPT ![p] = Append(@, unit)]
      /\ current' = [current EXCEPT ![t].seeked = @ + 1]
      /\ rpc' = [rpc EXCEPT ![t] = IF n + 1 = current[t].size THEN "ack" ELSE "chunk"]
      /\ UNCHANGED <<build, sVars, gone, acks, closed, root, dirs>>
  BY <1>0 DEF RecvChunk, Recv
<1>3. /\ WireOK(t)' /\ TokenOK(t, 1) /\ Head(wire[t]) = wire[t][1]
      /\ Len(wire[t]) \in Nat /\ Len(wire[t]) >= 1 /\ Len(wire'[t]) = Len(wire[t]) - 1
      /\ (wire'[t] = <<>> <=> Len(wire[t]) = 1)
      /\ \A k \in 1..(Len(wire[t]) - 1) : wire'[t][k] = wire[t][k + 1]
      /\ \A i, u : DataAt(t, 2, i, u) => DataAt(t, 1, i, u)'
      /\ Map(wire)' /\ \A u \in Transfer \ {t} : wire'[u] = wire[u]
  BY <1>1, <1>2, TokenRead DEF MapInv
<1>4. InHand(t)
  BY <1>1, <1>2 DEF HandOK
<1>5. /\ p \in DOMAIN files /\ p[1] = root[t][1] /\ n \in Nat
  BY <1>0, <1>4 DEF InHand
<1>6. PICK i \in Items(t) :
        /\ current[t].size = SizeAt(t, i) /\ n < SizeAt(t, i)
        /\ files[p] = Units(t, i, n) /\ wire[t][1] = Data(t, i, n + 1)
  BY <1>0, <1>3, <1>4 DEF InHand, DataAt
<1>7. SizeAt(t, i) \in Nat /\ unit = <<t, i, n + 1>>
  BY <1>3, <1>6, ItemTypes DEF Data
<1>8. n + 1 < SizeAt(t, i) => DataAt(t, 1, i, n + 1 + 1)'
  <2>1. PICK j \in Items(t), u \in Nat \ {0} :
          wire[t][1] = Data(t, j, u) /\ (u < SizeAt(t, j) => DataAt(t, 2, j, u + 1))
    <3>1. DataToken(t, 1)
      BY <1>2, <1>3, TokenOfKind
    <3> QED  BY <3>1 DEF DataToken
  <2>2. j = i /\ u = n + 1
    BY <1>6, <2>1 DEF Data
  <2> QED  BY <1>3, <2>1, <2>2
<1>9. /\ Map(current)' /\ current'[t].path = p /\ current'[t].size = current[t].size
      /\ current'[t].seeked = n + 1
      /\ current'[t] = [path |-> current'[t].path, size |-> current'[t].size,
                        seeked |-> current'[t].seeked]
      /\ \A u \in Transfer \ {t} : current'[u] = current[u]
  <2> DEFINE r == current[t]
  <2>1. Map(current) /\ r = [path |-> p, size |-> r.size, seeked |-> n]
    BY <1>0, <1>1 DEF MapInv
  <2>2. /\ Map(current)' /\ current'[t] = [r EXCEPT !.seeked = @ + 1]
        /\ \A u \in Transfer \ {t} : current'[u] = current[u]
    BY <1>2, <2>1 DEF Map
  <2>3. current'[t] = [path |-> p, size |-> r.size, seeked |-> n + 1]
    BY <2>1, <2>2
  <2> QED  BY <2>2, <2>3
<1> HIDE DEF p, unit
<1>10. /\ DOMAIN files' = DOMAIN files /\ files'[p] = Units(t, i, n + 1)
       /\ files' = [q \in DOMAIN files' |-> files'[q]]
       /\ \A q \in DOMAIN files : q # p => files'[q] = files[q]
  <2>1. /\ DOMAIN files' = DOMAIN files /\ files'[p] = Append(files[p], unit)
        /\ files' = [q \in DOMAIN files' |-> files'[q]]
        /\ \A q \in DOMAIN files : q # p => files'[q] = files[q]
    BY <1>1, <1>2, <1>5 DEF MapInv
  <2>2. Append(Units(t, i, n), <<t, i, n + 1>>) = Units(t, i, n + 1)
    BY <1>5, UnitsGrow
  <2> QED  BY <1>6, <1>7, <2>1, <2>2
<1>11. /\ Map(rpc)' /\ rpc'[t] = (IF n + 1 = SizeAt(t, i) THEN "ack" ELSE "chunk")
       /\ \A u \in Transfer \ {t} : rpc'[u] = rpc[u]
  BY <1>1, <1>2, <1>6 DEF MapInv, Map
<1>12. MapInv'
  <2>1. \A u \in Transfer : current'[u] = [path |-> current'[u].path, size |-> current'[u].size,
                                           seeked |-> current'[u].seeked]
    BY <1>1, <1>9 DEF MapInv
  <2> QED  BY <1>1, <1>2, <1>3, <1>9, <1>10, <1>11, <2>1 DEF MapInv, Map, sVars
<1>13. \A u \in Transfer \ {t} : Same(u)
  BY <1>2, <1>3, <1>9, <1>11 DEF Same, sVars
<1>14. DiskStep(t)
  BY <1>2, <1>10 DEF DiskStep, p
<1>15. RootInv'
  <2>1. n + 1 \in Nat /\ Sequence(Units(t, i, n + 1))
    BY <1>5, UnitsGrow
  <2>2. \A q \in DOMAIN files' : Sequence(files'[q])
    BY <1>1, <1>10, <2>1 DEF RootInv
  <2>3. Taken' = Taken /\ Tops' = Tops
    BY <1>2, <1>10 DEF Taken, Tops
  <2>4. root[t] # <<>> /\ rpc'[t] # "idle"
    BY <1>1, <1>2, <1>11 DEF RootInv, ReceiverOn
  <2>5. \A u \in Transfer : /\ rpc'[u] = "idle" => root'[u] = <<>>
                            /\ rpc'[u] \in ReceiverOn => root'[u] # <<>>
    BY <1>1, <1>2, <1>11, <2>4 DEF RootInv
  <2>6. \A q \in Taken' : Sequence(q) /\ q # <<>> /\ <<q[1]>> \in Taken' \cap Tops'
    BY <1>1, <2>3 DEF RootInv
  <2>7. /\ \A u \in Transfer : root'[u] # <<>> => root'[u] = <<root'[u][1]>> /\ root'[u] \in dirs'
        /\ \A u, v \in Transfer : root'[u] # <<>> /\ root'[u] = root'[v] => u = v
    BY <1>1, <1>2 DEF RootInv
  <2> QED  BY <2>2, <2>5, <2>6, <2>7 DEF RootInv
<1>16. TaskOK(t)'
  BY <1>1, <1>2, <1>11 DEF TaskOK, sVars, SenderOn, SenderOver, NotBegun, Items, ReceiverOn
<1>17. HandOK(t)'
  <2> SUFFICES ASSUME rpc'[t] = "chunk" PROVE InHand(t)'
    BY <1>11 DEF HandOK
  <2>1. n + 1 < SizeAt(t, i) /\ n + 1 \in Nat
    BY <1>5, <1>6, <1>7, <1>11
  <2>2. DataAt(t, 1, i, n + 1 + 1)'
    BY <1>8, <2>1
  <2>3. PICK m : m = n + 1
    OBVIOUS
  <2>4. /\ current'[t].path \in DOMAIN files' /\ current'[t].path[1] = root'[t][1]
        /\ current'[t].seeked = m /\ m \in Nat /\ m < current'[t].size
        /\ current'[t].size = Tree[t][i].size
        /\ files'[current'[t].path] = Units(t, i, m)
    BY <1>2, <1>5, <1>6, <1>9, <1>10, <2>1, <2>3 DEF SizeAt
  <2>5. DataAt(t, 1, i, m + 1)'
    BY <2>2, <2>3
  <2> QED  BY <2>4, <2>5 DEF InHand, Items, SizeAt
<1>18. OwnOK(t)'
  <2> SUFFICES ASSUME NEW q \in DOMAIN files', q[1] = root[t][1], root[t] # <<>>
               PROVE  OwnFile(t, q)'
    BY <1>2 DEF OwnOK
  <2>1. CASE q # p
    <3>1. files'[q] = files[q] /\ OwnFile(t, q) /\ q # current[t].path
      BY <1>1, <1>10, <2>1 DEF OwnOK, p
    <3> QED  BY <3>1 DEF OwnFile, Items, SizeAt
  <2>2. CASE q = p
    <3> DEFINE m == n + 1
    <3>1. m \in Nat /\ m <= SizeAt(t, i) /\ files'[q] = Units(t, i, m)
      BY <1>5, <1>6, <1>7, <1>10, <2>2
    <3>2. m = SizeAt(t, i) \/ (q = current'[t].path /\ rpc'[t] \in {"chunk", "failed"})
      BY <1>9, <1>11, <2>2
    <3> HIDE DEF m
    <3> QED  BY <3>1, <3>2 DEF OwnFile, Items, SizeAt
  <2> QED  BY <2>1, <2>2
<1>19. LiveOK(t)'
  <2> SUFFICES ASSUME Attentive(t)
               PROVE  LiveHand(t)' /\ \A k \in 1..Len(wire'[t]) : LiveToken(t, k)'
    BY <1>2 DEF LiveOK, Attentive, sVars
  <2>1. LiveHand(t) /\ \A k \in 1..Len(wire[t]) : LiveToken(t, k)
    BY <1>1 DEF LiveOK
  <2>2. i = item[t] /\ (n + 1 = SizeAt(t, i) => Len(wire[t]) = 1 /\ spc[t] = "ack")
    <3>1. LiveToken(t, 1) /\ wire[t][1].kind = "data" /\ wire[t][1].what = <<t, i, n + 1>>
      BY <1>3, <1>6, <2>1 DEF Data
    <3> QED  BY <3>1 DEF LiveToken
  <2>3. Front(p) = root[t] \o Front(PathAt(t, item[t]))
    BY <1>2, <2>1 DEF LiveHand, p
  <2>4. rpc'[t] = "ack" => spc[t] = "ack" /\ wire'[t] = <<>> /\ Kept(t, item[t])'
    <3> SUFFICES ASSUME rpc'[t] = "ack" PROVE spc[t] = "ack" /\ wire'[t] = <<>> /\ Kept(t, item[t])'
      OBVIOUS
    <3>1. n + 1 = SizeAt(t, i) /\ SizeAt(t, i) > 0
      BY <1>5, <1>6, <1>7, <1>11
    <3>2. files'[p] = Contents(t, i)
      BY <1>10, <3>1, ContentsUnits
    <3>3. Stored(t, i)'
      BY <1>2, <1>5, <1>10, <2>2, <2>3, <3>2 DEF Stored, Contents, PathAt
    <3> QED  BY <1>2, <1>3, <2>2, <3>1, <3>3 DEF Kept, SizeAt, sVars
  <2>5. ~(acks'[t] > 0)
    BY <1>2, <2>1 DEF LiveHand
  <2>6. LiveHand(t)'
    BY <1>2, <1>9, <1>11, <2>3, <2>4, <2>5 DEF LiveHand, PathAt, sVars
  <2> QED  BY <1>2, <1>3, <2>1, <2>6, LiveTokensRead
<1> QED  BY <1>2, <1>3, <1>12, <1>13, <1>14, <1>15, <1>16, <1>17, <1>18, <1>19, ReceiverStep

\* As many entries of the top level as there are numbers to choose from would
\* be one more than there can be.
LEMMA NumbersLeft ==
  ASSUME IInv, NEW t \in Transfer, root[t] = <<>>, NEW name, Sequence(name)
  PROVE  \E n \in 1..(Cardinality(Transfer) + Cardinality(DOMAIN SavedFiles)) :
            ~Exists(<<Append(name, n)>>)
<1> DEFINE A == DOMAIN SavedFiles
           B == Transfer \ {t}
           N == Cardinality(Transfer) + Cardinality(A)
           a == [p \in A |-> <<p[1]>>]
           SA == {<<p[1]>> : p \in A}
           b == [u \in B |-> root[u]]
           SB == {root[u] : u \in B}
<1>1. /\ IsFiniteSet(A) /\ Cardinality(A) \in Nat /\ IsFiniteSet(Transfer) /\ Cardinality(Transfer) \in Nat
      /\ IsFiniteSet(B) /\ Cardinality(B) = Cardinality(Transfer) - 1
  BY PathsAssumption, FS_CardinalityType, FS_RemoveElement
<1>2. IsFiniteSet(SA) /\ Cardinality(SA) \in Nat /\ Cardinality(SA) <= Cardinality(A)
  <2>1. a \in Surjection(A, SA)
    BY DEF Surjection
  <2> QED  BY <1>1, <2>1, FS_Surjection, FS_CardinalityType
<1>3. IsFiniteSet(SB) /\ Cardinality(SB) \in Nat /\ Cardinality(SB) <= Cardinality(B)
  <2>1. b \in Surjection(B, SB)
    BY DEF Surjection
  <2> QED  BY <1>1, <2>1, FS_Surjection, FS_CardinalityType
<1> DEFINE T == SA \cup SB
<1>4. IsFiniteSet(T) /\ Cardinality(T) < N
  <2> HIDE DEF SA, SB, A, B
  <2>1. IsFiniteSet(T) /\ Cardinality(T) = Cardinality(SA) + Cardinality(SB) - Cardinality(SA \cap SB)
    BY <1>2, <1>3, FS_Union
  <2>2. Cardinality(SA \cap SB) \in Nat
    BY <1>2, FS_Subset, FS_CardinalityType
  <2> QED  BY <1>1, <1>2, <1>3, <2>1, <2>2
<1>5. N \in Nat /\ IsFiniteSet(1..N) /\ Cardinality(1..N) = N
  <2>1. N \in Nat
    BY <1>1
  <2> HIDE DEF N
  <2>2. 1 \in Int /\ N \in Int
    BY <2>1
  <2>3. IsFiniteSet(1..N) /\ Cardinality(1..N) = IF 1 > N THEN 0 ELSE N - 1 + 1
    BY <2>2, FS_Interval
  <2> QED  BY <2>1, <2>3
<1> DEFINE f == [n \in 1..N |-> <<Append(name, n)>>]
<1> SUFFICES ASSUME \A n \in 1..N : Exists(<<Append(name, n)>>)  PROVE FALSE
  OBVIOUS
<1>6. \A n \in 1..N : <<Append(name, n)>> \in T
  <2> SUFFICES ASSUME NEW n \in 1..N PROVE <<Append(name, n)>> \in T
    OBVIOUS
  <2> DEFINE q == <<Append(name, n)>>
  <2>1. q \in Taken /\ <<q[1]>> = q
    BY DEF Exists, Taken
  <2>2. q \in Tops
    BY <2>1 DEF IInv, RootInv
  <2>3. q # root[t]
    OBVIOUS
  <2> QED  BY <2>2, <2>3 DEF Tops
<1>7. f \in [1..N -> T]
  BY <1>6
<1>8. PICK x \in 1..N, y \in 1..N : x # y /\ f[x] = f[y]
  <2> HIDE DEF N, T, f
  <2> QED  BY <1>4, <1>5, <1>7, FS_PigeonHole
<1>9. Append(name, x) = Append(name, y)
  BY <1>8
<1>10. Append(name, x)[Len(name) + 1] = x /\ Append(name, y)[Len(name) + 1] = y
  BY Appended
<1> QED  BY <1>8, <1>9, <1>10

\* The name of the directory is new.
LEMMA FreshName ==
  ASSUME IInv, NEW t \in Transfer, root[t] = <<>>
  PROVE  /\ ~Exists(<<IncrementedName(DirName[t])>>)
<1> DEFINE name == DirName[t]
           N == Cardinality(Transfer) + Cardinality(DOMAIN SavedFiles)
           S == {n \in Int : Exists(<<Append(name, n)>>)}
           Fits(n) == /\ ~Exists(<<Append(name, n)>>)
                      /\ \A k \in 1..(n - 1) : Exists(<<Append(name, k)>>)
<1>1. CASE ~Exists(<<name>>)
  BY <1>1 DEF IncrementedName
<1>2. CASE Exists(<<name>>)
  <2>1. \E n \in 1..N : ~Exists(<<Append(name, n)>>)
    BY NumbersLeft, PathsAssumption
  <2>2. N \in Int
    BY PathsAssumption, FS_CardinalityType
  <2>3. \E n \in 1..N : n \notin S
    BY <2>1
  <2>4. \E n \in 1..N : n \notin S /\ \A k \in 1..(n - 1) : k \in S
    <3> HIDE DEF N, S
    <3>1. PICK one \in Int : one = 1
      OBVIOUS
    <3>2. \E n \in one..N : n \notin S
      BY <2>3, <3>1
    <3>3. \E n \in one..N : n \notin S /\ \A k \in one..(n - 1) : k \in S
      BY <2>2, <3>2, Least
    <3> QED  BY <3>1, <3>3
  <2>5. \E n \in 1..N : Fits(n)
    <3>1. PICK n \in 1..N : n \notin S /\ \A k \in 1..(n - 1) : k \in S
      BY <2>4
    <3>2. n \in Int
      BY <2>2
    <3>3. Fits(n)
      BY <3>1, <3>2
    <3> HIDE DEF Fits, N
    <3> QED  BY <3>3
  <2>6. IncrementedName(name) = Append(name, CHOOSE n \in 1..N : Fits(n))
    BY <1>2 DEF IncrementedName
  <2>7. Fits(CHOOSE n \in 1..N : Fits(n))
    <3> HIDE DEF Fits, N
    <3> QED  BY <2>5
  <2> QED  BY <2>6, <2>7
<1> QED  BY <1>1, <1>2

\* Up to the first await of the handler: it raises, or makes a directory that was
\* not there.
LEMMA HandleConnectionStep ==
  ASSUME IInv, NEW t \in Transfer, HandleConnection(t)
  PROVE  IInv'
<1>1. MapInv /\ TransferOK(t) /\ TaskOK(t) /\ RootInv
  BY DEF IInv, TransferOK
<1>2. /\ rpc[t] = "idle" /\ spc[t] = "confirm"
      /\ UNCHANGED <<build, sVars, gone, wire, acks, closed, current, files>>
  BY DEF HandleConnection
<1>3. root[t] = <<>> /\ wire[t] = <<>> /\ acks[t] = 0 /\ "receiver" \notin closed[t]
  BY <1>1, <1>2 DEF RootInv, TaskOK, NotBegun
<1>4. \A k, i, n : DataAt(t, k, i, n)' <=> DataAt(t, k, i, n)
  BY <1>2 DEF DataAt, sVars
<1>5. WireOK(t)'
  BY <1>1, <1>2, <1>4 DEF TransferOK, WireOK, TokenOK, SizeToken, DataToken, Items, SizeAt, PathAt
<1>6. LiveOK(t)'
  BY <1>2 DEF LiveOK, Attentive, SenderOn, sVars
<1>7. CASE rpc' = [rpc EXCEPT ![t] = "raised"] /\ UNCHANGED <<root, dirs>>
  <2>1. /\ MapInv' /\ rpc'[t] = "raised"
        /\ \A u \in Transfer \ {t} : Same(u) /\ rpc'[u] = rpc[u]
    BY <1>1, <1>2, <1>7 DEF MapInv, Map, Same, sVars
  <2>2. RootInv' /\ DiskStep(t)
    BY <1>2, <1>7, <2>1, DiskKept DEF ReceiverOn
  <2>3. TaskOK(t)'
    BY <1>1, <1>2, <2>1 DEF TaskOK, sVars, SenderOn, SenderOver, NotBegun, Items, ReceiverOn
  <2>4. HandOK(t)'
    BY <2>1 DEF HandOK
  <2>5. OwnOK(t)'
    BY <1>3, <1>7 DEF OwnOK
  <2> QED  BY <1>2, <1>5, <1>6, <1>7, <2>1, <2>2, <2>3, <2>4, <2>5, ReceiverStep
<1> DEFINE d == IncrementedName(DirName[t])
<1>8. CASE /\ rpc' = [rpc EXCEPT ![t] = IF optimized THEN "confirm" ELSE "raised"]
           /\ root' = [root EXCEPT ![t] = <<d>>] /\ dirs' = dirs \cup {<<d>>}
  <2>1. PICK new : new = d
    OBVIOUS
  <2>2. <<new>> \notin dirs /\ <<new>> \notin DOMAIN files
    BY <1>3, <2>1, FreshName DEF Exists
  <2>3. root' = [root EXCEPT ![t] = <<new>>] /\ dirs' = dirs \cup {<<new>>}
    BY <1>8, <2>1
  <2> HIDE DEF d
  <2>4. /\ rpc'[t] \in {"confirm", "raised"} /\ root'[t] = <<new>>
        /\ \A u \in Transfer \ {t} : Same(u) /\ rpc'[u] = rpc[u] /\ root'[u] = root[u]
    BY <1>1, <1>2, <1>8, <2>3 DEF MapInv, Map, Same, sVars
  <2>5. MapInv'
    BY <1>1, <1>2, <1>8, <2>3 DEF MapInv, Map, sVars
  <2>6. DiskStep(t)
    BY <1>2, <2>3 DEF DiskStep
  <2>7. \A p \in Taken : p[1] # new
    BY <1>1, <2>2 DEF RootInv, Taken
  <2>8. RootInv'
    <3>1. Taken' = Taken \cup {<<new>>} /\ Tops \ {<<>>} \subseteq Tops' /\ <<new>> \in Tops'
      <4>1. Taken' = Taken \cup {<<new>>}
        BY <1>2, <2>3 DEF Taken
      <4>2. \A u \in Transfer : root[u] # <<>> => root'[u] = root[u]
        BY <1>3, <2>4
      <4> QED  BY <2>4, <4>1, <4>2 DEF Tops
    <3>2. Sequence(<<new>>) /\ <<new>> # <<>> /\ <<new>>[1] = new
      BY DEF Sequence
    <3>3. \A q \in Taken' : Sequence(q) /\ q # <<>> /\ <<q[1]>> \in Taken' \cap Tops'
      <4> SUFFICES ASSUME NEW q \in Taken'
                   PROVE  Sequence(q) /\ q # <<>> /\ <<q[1]>> \in Taken' \cap Tops'
        OBVIOUS
      <4>1. CASE q = <<new>>
        BY <3>1, <3>2, <4>1
      <4>2. CASE q \in Taken
        <5>1. Sequence(q) /\ q # <<>> /\ <<q[1]>> \in Taken \cap Tops /\ <<q[1]>> # <<>>
          BY <1>1, <4>2 DEF RootInv
        <5> QED  BY <3>1, <5>1
      <4> QED  BY <3>1, <4>1, <4>2
    <3>4. \A q \in DOMAIN files' : Sequence(files'[q])
      BY <1>1, <1>2 DEF RootInv
    <3>5. \A u \in Transfer : root'[u] # <<>> => root'[u] = <<root'[u][1]>> /\ root'[u] \in dirs'
      BY <1>1, <2>3, <2>4, <3>2 DEF RootInv
    <3>6. \A u \in Transfer : root[u] # <<new>>
      BY <1>1, <2>2, <3>2 DEF RootInv
    <3>7. \A u, v \in Transfer : root'[u] # <<>> /\ root'[u] = root'[v] => u = v
      BY <1>1, <2>4, <3>6 DEF RootInv
    <3>8. \A u \in Transfer : rpc'[u] = "idle" => root'[u] = <<>>
      BY <1>1, <2>4 DEF RootInv
    <3>9. \A u \in Transfer : rpc'[u] \in ReceiverOn => root'[u] # <<>>
      BY <1>1, <2>4, <3>2 DEF RootInv
    <3> QED  BY <3>3, <3>4, <3>5, <3>7, <3>8, <3>9 DEF RootInv
  <2>9. TaskOK(t)'
    BY <1>1, <1>2, <1>3, <2>4 DEF TaskOK, sVars, SenderOn, SenderOver, NotBegun, Items, ReceiverOn
  <2>10. HandOK(t)'
    BY <2>4 DEF HandOK
  <2>11. OwnOK(t)'
    BY <1>2, <2>4, <2>7 DEF OwnOK, Taken
  <2> QED  BY <1>2, <1>5, <1>6, <2>4, <2>5, <2>6, <2>8, <2>9, <2>10, <2>11, ReceiverStep DEF NotBegun
<1> QED  BY <1>7, <1>8 DEF HandleConnection

-----------------------------------------------------------------------------
(* All of it *)

\* Nothing is sent, and the download directory holds what it held.
LEMMA InitOK == Init => IInv
<1> SUFFICES ASSUME Init PROVE IInv
  OBVIOUS
<1>1. MapInv
  <2>1. /\ Map(spc) /\ Map(item) /\ Map(sent) /\ Map(skipped) /\ Map(gone)
        /\ Map(wire) /\ Map(acks) /\ Map(closed) /\ Map(rpc) /\ Map(root) /\ Map(current)
    BY DEF Init, Map
  <2>2. \A t \in Transfer : current[t] = [path |-> current[t].path, size |-> current[t].size,
                                          seeked |-> current[t].seeked]
    BY DEF Init, NoFile
  <2>3. files = [p \in DOMAIN files |-> files[p]]
    BY PathsAssumption DEF Init
  <2> QED  BY <2>1, <2>2, <2>3 DEF MapInv
<1>2. RootInv
  <2>1. \A t \in Transfer : root[t] = <<>> /\ rpc[t] = "idle"
    BY DEF Init
  <2>2. \A p \in DOMAIN files : Sequence(p) /\ p # <<>> /\ Sequence(files[p]) /\ <<p[1]>> \in Tops
    BY PathsAssumption DEF Init, Tops
  <2>3. ASSUME NEW p \in DOMAIN files  PROVE  <<p[1]>> \in Taken
    <3>1. Len(p) \in Nat /\ Len(p) # 0
      BY <2>2, EmptySequence
    <3>2. CASE Len(p) > 1
      BY <3>2 DEF Init, Taken
    <3>3. CASE Len(p) = 1
      <4> DEFINE S == {p[i] : i \in 1..Len(p)}
                 a == p[1]
                 q == <<a>>
      <4>0. 1 \in 1..Len(p)
        BY <3>1, <3>3
      <4>1. p \in Seq(S) /\ a \in S
        BY <2>2, <4>0 DEF Sequence
      <4> HIDE DEF S, a
      <4>2. q \in Seq(S) /\ Len(q) = 1 /\ q[1] = a
        BY <4>1
      <4>3. p[1] = a /\ \A i \in 1..1 : i = 1
        BY DEF a
      <4> HIDE DEF q
      <4>4. \A i \in 1..Len(p) : p[i] = q[i]
        BY <3>3, <4>2, <4>3
      <4>5. p = q
        BY <3>3, <4>1, <4>2, <4>4, SeqEqual
      <4> QED  BY <4>5 DEF Taken, q, a
    <3>4. Len(p) > 1 \/ Len(p) = 1
      BY <3>1
    <3> QED  BY <3>2, <3>3, <3>4
  <2>4. ASSUME NEW p \in dirs  PROVE  Sequence(p) /\ p # <<>> /\ <<p[1]>> \in Taken \cap Tops
    <3>1. PICK q \in DOMAIN files : p = <<q[1]>>
      BY DEF Init
    <3>2. Sequence(p) /\ p # <<>> /\ <<p[1]>> = p
      BY <3>1 DEF Sequence
    <3> QED  BY <2>2, <2>3, <3>1, <3>2
  <2>5. \A p \in Taken : Sequence(p) /\ p # <<>> /\ <<p[1]>> \in Taken \cap Tops
    BY <2>2, <2>3, <2>4 DEF Taken
  <2> QED  BY <2>1, <2>2, <2>5 DEF RootInv, ReceiverOn
<1>3. ASSUME NEW t \in Transfer  PROVE  TransferOK(t)
  <2>1. /\ spc[t] = "idle" /\ item[t] = 0 /\ sent[t] = 0 /\ gone[t] = {} /\ wire[t] = <<>>
        /\ acks[t] = 0 /\ closed[t] = {} /\ rpc[t] = "idle" /\ root[t] = <<>>
    BY DEF Init
  <2>2. Len(Tree[t]) \in Nat
    BY PathsAssumption, EmptySequence
  <2>3. TaskOK(t)
    BY <2>1, <2>2 DEF TaskOK, SenderOn, NotBegun, Items
  <2>4. WireOK(t)
    BY <2>1, EmptySequence DEF WireOK
  <2>5. HandOK(t) /\ OwnOK(t) /\ LiveOK(t) /\ KeptOK(t)
    BY <2>1 DEF HandOK, OwnOK, LiveOK, KeptOK, Attentive, SenderOn
  <2> QED  BY <2>3, <2>4, <2>5 DEF TransferOK
<1> QED  BY <1>1, <1>2, <1>3 DEF IInv

\* Every action keeps the invariant.
LEMMA StepOK == IInv /\ [Next]_vars => IInv'
<1> SUFFICES ASSUME IInv, [Next]_vars PROVE IInv'
  OBVIOUS
<1>0. Map(gone) /\ \A t \in Transfer : gone[t] \subseteq Items(t)
  BY DEF IInv, MapInv, TransferOK, TaskOK
<1>1. CASE UNCHANGED vars
  BY <1>0, <1>1, OutsideStep DEF vars, sVars, rVars, Map, Items
<1>2. ASSUME NEW t \in Transfer, SendDirectory(t)  PROVE IInv'
  BY <1>2, SendDirectoryStep
<1>3. ASSUME NEW t \in Transfer, ConnectFails(t) \/ SenderRaises(t)  PROVE IInv'
  BY <1>3, SenderFails DEF ConnectFails, SenderRaises
<1>4. ASSUME NEW t \in Transfer, Sender(t)  PROVE IInv'
  BY <1>3, <1>4, GetConfirmationStep, SendCodeStep, SendPartsStep, SendSizeStep, SendChunkStep,
     RecvAckStep, SendEndStep DEF Sender
<1>5. ASSUME NEW t \in Transfer, Receiver(t)  PROVE IInv'
  BY <1>5, HandleConnectionStep, ConfirmStep, RecvCodeStep, DirectoryReceivedStep, RecvPathStep,
     RecvPartsStep, RecvSizeStep, RecvChunkStep, SendAckStep, ReceiverRaisesStep DEF Receiver
<1>6. ASSUME NEW t \in Transfer, Break(t)  PROVE IInv'
  BY <1>0, <1>6, OutsideStep DEF Break, Map, Items
<1>7. ASSUME NEW t \in Transfer, NEW i \in 1..Len(Tree[t]), DeleteFile(t, i)  PROVE IInv'
  BY <1>7, DeleteFileStep
<1> QED  BY <1>1, <1>2, <1>3, <1>4, <1>5, <1>6, <1>7 DEF Next

(* The inductive invariant holds in every reachable state: where the two   *)
(* tasks of a transfer stand to the stream between them, and whose the     *)
(* entries of the download directory are.                                  *)
THEOREM Invariance == Spec => []IInv
BY InitOK, StepOK, PTL DEF Spec

(* rename_directory_with_increment gives every transfer a directory of its *)
(* own, and 'xb' a new file to every item, so that what a transfer's       *)
(* directory holds are files of that transfer, each with the bytes of one  *)
(* file of the sender's tree, and whole but for the one in hand.           *)
THEOREM DirectoriesIntact == Spec => []Intact
<1>1. ASSUME IInv  PROVE  Intact
  <2> SUFFICES ASSUME NEW t \in Transfer, NEW p \in DOMAIN files, root[t] # <<>>, IsPrefix(root[t], p)
               PROVE  \E i \in 1..Len(Tree[t]) :
                        /\ IsPrefix(files[p], Contents(t, i))
                        /\ files[p] = Contents(t, i) \/ p = current[t].path
    BY DEF Intact
  <2>1. Sequence(p) /\ root[t] = <<root[t][1]>> /\ OwnOK(t)
    BY <1>1 DEF IInv, RootInv, Taken, TransferOK
  <2>2. p[1] = root[t][1]
    BY <2>1, PrefixOfTop
  <2>3. PICK i \in Items(t), n \in Nat :
          /\ n <= SizeAt(t, i) /\ files[p] = Units(t, i, n)
          /\ n = SizeAt(t, i) \/ p = current[t].path
    BY <2>1, <2>2 DEF OwnOK, OwnFile
  <2>4. Contents(t, i) = Units(t, i, SizeAt(t, i)) /\ SizeAt(t, i) \in Nat
    BY ContentsUnits, ItemTypes
  <2>5. PICK m \in Nat : m = SizeAt(t, i)
    BY <2>4
  <2>6. IsPrefix(Units(t, i, n), Units(t, i, m))
    BY <2>3, <2>5, UnitsPrefix
  <2> QED  BY <2>3, <2>4, <2>5, <2>6 DEF Items
<1> QED  BY <1>1, Invariance, PTL

(* The assert of _send_file_item reads the code the receiver sends after a *)
(* file: a sender with asserts is past a file only when the receiver has   *)
(* it whole, whatever deletions, resets and other transfers there were.    *)
THEOREM AssertsConfirm == Spec => []SentMeansStored
<1>1. IInv => SentMeansStored
  BY DEF IInv, TransferOK, KeptOK, Kept, SentMeansStored, SizeAt, PathAt
<1> QED  BY <1>1, Invariance, PTL

\* What NothingOverwritten says of a step.
FilesGrow ==
    \A p \in DOMAIN files :
        /\ p \in DOMAIN files'
        /\ IsPrefix(files[p], files'[p])
        /\ files'[p] # files[p] => \E t \in Transfer : rpc[t] = "chunk" /\ current[t].path = p

\* A step that changes no file there is.
LEMMA FilesKept ==
  ASSUME RootInv, \A p \in DOMAIN files : p \in DOMAIN files' /\ files'[p] = files[p]
  PROVE  FilesGrow
<1>1. \A p \in DOMAIN files : IsPrefix(files[p], files[p])
  BY PrefixOfItself DEF RootInv
<1> QED  BY <1>1 DEF FilesGrow

\* A chunk goes to the end of the file in hand.
LEMMA ChunkAppended ==
  ASSUME IInv, NEW t \in Transfer, RecvChunk(t)
  PROVE  FilesGrow
<1>1. MapInv /\ RootInv /\ HandOK(t) /\ WireOK(t)
  BY DEF IInv, TransferOK
<1> DEFINE p == current[t].path
           unit == Head(wire[t]).what
<1>2. rpc[t] = "chunk" /\ wire[t] # <<>> /\ files' = [files EXCEPT ![p] = Append(@, unit)]
  BY DEF RecvChunk, Recv
<1>3. InHand(t) /\ Head(wire[t]) = wire[t][1] /\ 1 <= Len(wire[t])
  <2>1. Sequence(wire[t])
    BY <1>1 DEF WireOK
  <2>2. Len(wire[t]) \in Nat /\ Len(wire[t]) > 0 /\ Head(wire[t]) = wire[t][1]
    BY <1>2, <2>1, Tailed
  <2> QED  BY <1>1, <1>2, <2>2 DEF HandOK
<1>4. PICK n \in Nat, i \in Items(t) : files[p] = Units(t, i, n) /\ unit = <<t, i, n + 1>>
  <2>1. PICK n \in Nat : n = current[t].seeked
    BY <1>3 DEF InHand
  <2>2. PICK i \in Items(t) : files[p] = Units(t, i, n) /\ DataAt(t, 1, i, n + 1)
    BY <1>3, <2>1 DEF InHand
  <2>3. unit = <<t, i, n + 1>>
    BY <1>3, <2>2 DEF DataAt, Data
  <2> QED  BY <2>2, <2>3
<1>5. p \in DOMAIN files
  BY <1>3 DEF InHand
<1> HIDE DEF p, unit
<1>6. /\ DOMAIN files' = DOMAIN files /\ files'[p] = Append(files[p], unit)
      /\ \A q \in DOMAIN files : q # p => files'[q] = files[q]
  BY <1>1, <1>2, <1>5 DEF MapInv
<1>7. files'[p] = Units(t, i, n + 1)
  BY <1>4, <1>6, UnitsGrow
<1>8. PICK m \in Nat : m = n + 1 /\ n <= m
  OBVIOUS
<1>9. IsPrefix(Units(t, i, n), Units(t, i, m))
  BY <1>8, UnitsPrefix
<1>10. IsPrefix(files[p], files'[p])
  BY <1>4, <1>7, <1>8, <1>9
<1>11. \A q \in DOMAIN files : IsPrefix(files[q], files[q])
  BY <1>1, PrefixOfItself DEF RootInv
<1> QED  BY <1>2, <1>6, <1>10, <1>11 DEF FilesGrow, p

(* "incoming directory transfers do not overwrite existing data": no step  *)
(* of any task empties, removes or rewrites a file of the download         *)
(* directory, whoever put it there; only recv_file_contents adds to one,   *)
(* and to the one its own transfer is at.                                  *)
THEOREM NoneOverwritten == Spec => NothingOverwritten
<1>1. ASSUME IInv, [Next]_vars  PROVE  [FilesGrow]_vars
  <2>1. RootInv
    BY <1>1 DEF IInv
  <2>2. CASE UNCHANGED files
    BY <2>1, <2>2, FilesKept
  <2>3. ASSUME NEW t \in Transfer, RecvSize(t)  PROVE  FilesGrow
    <3> DEFINE n == Head(wire[t]).what
               p == IF n = 0 THEN current[t].path ELSE ValidName(t, current[t].path)
    <3>1. IF n = 0 THEN Touch(t, p) ELSE OpenNew(t, p)
      BY <2>3 DEF RecvSize
    <3> HIDE DEF n, p
    <3>2. UNCHANGED files \/ (~Exists(p) /\ Create(p))
      BY <3>1 DEF Touch, OpenNew
    <3>3. CASE ~Exists(p) /\ Create(p)
      <4>1. \A q \in DOMAIN files : q \in DOMAIN files' /\ files'[q] = files[q]
        BY <3>3 DEF Exists, Create
      <4> QED  BY <2>1, <4>1, FilesKept
    <3> QED  BY <2>1, <3>2, <3>3, FilesKept
  <2>4. ASSUME NEW t \in Transfer, RecvChunk(t)  PROVE  FilesGrow
    BY <1>1, <2>4, ChunkAppended
  <2>5. ASSUME NEW t \in Transfer, Sender(t)  PROVE  UNCHANGED files
    BY <2>5 DEF Sender, GetConfirmation, SendCode, SendParts, SendSize, SendChunk, RecvAck, SendEnd,
                SenderRaises, rVars
  <2>6. ASSUME NEW t \in Transfer, Receiver(t), ~RecvSize(t), ~RecvChunk(t)  PROVE  UNCHANGED files
    BY <2>6 DEF Receiver, HandleConnection, Confirm, RecvCode, DirectoryReceived, RecvPath, RecvParts,
                SendAck, ReceiverRaises
  <2>7. ASSUME NEW t \in Transfer, SendDirectory(t) \/ ConnectFails(t) \/ Break(t)
        PROVE  UNCHANGED files
    BY <2>7 DEF SendDirectory, ConnectFails, Break, rVars
  <2>8. ASSUME NEW t \in Transfer, NEW i \in 1..Len(Tree[t]), DeleteFile(t, i)
        PROVE  UNCHANGED files
    BY <2>8 DEF DeleteFile, rVars
  <2>9. UNCHANGED vars \/ UNCHANGED files \/ FilesGrow
    BY <1>1, <2>3, <2>4, <2>5, <2>6, <2>7, <2>8 DEF Next
  <2> QED  BY <2>2, <2>9
<1>2. NothingOverwritten <=> [][FilesGrow]_vars
  BY DEF NothingOverwritten, FilesGrow
<1> QED  BY <1>1, <1>2, Invariance, PTL DEF Spec

-----------------------------------------------------------------------------
(* No mutual wait *)

\* The k-th element of the stream is, or will be, a code, unless the sender ends before.
CodeAt(t, k) ==
    IF k <= Len(wire[t]) THEN wire[t][k].kind = "code"
    ELSE spc[t] \in {"confirm", "code", "end", "ack"} \cup SenderOver

\* The k-th is, or will be, the path of a directory, and a code follows it.
DirAt(t, k) ==
    IF k <= Len(wire[t]) THEN wire[t][k].kind = "parts" /\ CodeAt(t, k + 1)
    ELSE spc[t] \in SenderOver \/ (spc[t] = "parts" /\ Tree[t][item[t]].kind = "dir")

\* The receiver is at a code when it takes itself to be.
OrderOK(t) ==
    /\ rpc[t] = "code" => CodeAt(t, 1)
    /\ rpc[t] = "path" => DirAt(t, 1)
    /\ \A k \in 1..Len(wire[t]) : wire[t][k] = Code("dir") => DirAt(t, k + 1)

\* With the k-th element a file is complete.
Completes(t, k) ==
    \/ wire[t][k] = SizeOf(0)
    \/ \E i \in Items(t) : wire[t][k] = Data(t, i, SizeAt(t, i))

\* The code a sender waits for is on its way back, or the receiver has what it
\* sends that code for before it.
OwedOK(t) ==
    /\ acks[t] > 0 => wire[t] = <<>> /\ rpc[t] \in {"code", "ended", "failed"}
    /\ rpc[t] = "ack" => wire[t] = <<>>
    /\ \A k \in 1..Len(wire[t]) : Completes(t, k) => k = Len(wire[t])
    /\ spc[t] = "confirm" /\ rpc[t] \in ReceiverOn \ {"confirm"} => acks[t] > 0
    /\ spc[t] = "ack" /\ acks[t] = 0 /\ rpc[t] \in ReceiverOn \ {"ack"} =>
         wire[t] # <<>> /\ Completes(t, Len(wire[t]))

\* A task that has ended has closed its end.
ClosedOK(t) ==
    /\ spc[t] \in SenderOver => "sender" \in closed[t]
    /\ rpc[t] \in {"ended", "failed"} => "receiver" \in closed[t]

WaitOK(t) == ClosedOK(t) /\ (build[t].asserts => OrderOK(t) /\ OwedOK(t))
WaitInv == \A t \in Transfer : WaitOK(t)

\* The sender has nothing to do but wait: for a byte, or for room in the buffers.
SenderWaits(t) ==
    /\ ~broken[t] /\ "receiver" \notin closed[t]
    /\ \/ spc[t] \in {"confirm", "ack"} /\ acks[t] = 0
       \/ spc[t] \in {"code", "parts", "end"} /\ Len(wire[t]) >= SockBuf
       \/ spc[t] = "size" /\ Len(wire[t]) >= SockBuf /\ item[t] \notin gone[t]

\* The receiver has nothing to do but wait: for room, or for an element it can take.
ReceiverWaits(t) ==
    /\ ~broken[t] /\ rpc[t] \in ReceiverOn
    /\ \/ rpc[t] \in {"confirm", "ack"} /\ acks[t] >= AckBuf
       \/ rpc[t] \notin {"confirm", "ack"} /\ wire[t] = <<>> /\ "sender" \notin closed[t]
       \/ rpc[t] = "code" /\ wire[t] # <<>> /\ Head(wire[t]).kind # "code"
       \/ rpc[t] = "chunk" /\ wire[t] # <<>> /\ Head(wire[t]).kind # "data"

\* Once the receiver has taken the connection up, one of the two tasks can go on until
\* both have ended.
NoMutualWait ==
    \A t \in Transfer :
        build[t].asserts =>
            /\ ReceiverWaits(t) => spc[t] \notin SenderOver /\ ~SenderWaits(t)
            /\ SenderWaits(t) => rpc[t] \notin {"ended", "failed"}

\* Nothing changes of what WaitOK says of transfer u.
Still(u) ==
    /\ build'[u] = build[u] /\ spc'[u] = spc[u] /\ item'[u] = item[u] /\ wire'[u] = wire[u]
    /\ acks'[u] = acks[u] /\ closed'[u] = closed[u] /\ rpc'[u] = rpc[u]

\* A transfer that does not move stays as it is.
LEMMA StillOK ==
  ASSUME NEW u, WaitOK(u), Still(u)
  PROVE  WaitOK(u)'
BY DEF WaitOK, Still, ClosedOK, OrderOK, OwedOK, CodeAt, DirAt, Completes, Items, SizeAt

\* What is left to show of a step of transfer t.
LEMMA WaitStep ==
  ASSUME WaitInv, NEW t \in Transfer, \A u \in Transfer \ {t} : Still(u), WaitOK(t)'
  PROVE  WaitInv'
<1>1. ASSUME NEW u \in Transfer \ {t}  PROVE  WaitOK(u)'
  BY StillOK DEF WaitInv
<1> QED  BY <1>1 DEF WaitInv

\* The sender adds an element to the stream.
Added(t, token) ==
    /\ Len(wire[t]) \in Nat /\ wire'[t] # <<>> /\ Len(wire'[t]) = Len(wire[t]) + 1
    /\ \A k \in 1..Len(wire[t]) : wire'[t][k] = wire[t][k]
    /\ wire'[t][Len(wire[t]) + 1] = token

\* An element that may come where the sender is, and what it is at then.
InTurn(t, token) ==
    /\ spc[t] \in {"code", "parts", "size", "chunk", "end"}
    /\ spc[t] \in {"code", "end"} => token.kind = "code"
    /\ spc[t] = "parts" => token.kind = "parts"
    /\ token = Code("dir") => spc'[t] = "parts" /\ Tree[t][item'[t]].kind = "dir"
    /\ spc[t] = "parts" /\ Tree[t][item[t]].kind = "dir" => spc'[t] \in {"code", "end", "failed"}

\* The order of the stream, with an element more.
LEMMA OrderAdded ==
  ASSUME NEW t, NEW token, OrderOK(t), Added(t, token), InTurn(t, token), rpc'[t] = rpc[t]
  PROVE  OrderOK(t)'
<1>1. ASSUME NEW k \in 1..(Len(wire[t]) + 1), CodeAt(t, k)  PROVE  CodeAt(t, k)'
  <2>1. CASE k <= Len(wire[t])
    BY <1>1, <2>1 DEF CodeAt, Added
  <2>2. CASE k = Len(wire[t]) + 1
    BY <1>1, <2>2 DEF CodeAt, Added, InTurn, SenderOver
  <2> QED  BY <2>1, <2>2 DEF Added
<1>2. ASSUME NEW k \in 1..(Len(wire[t]) + 1), DirAt(t, k)  PROVE  DirAt(t, k)'
  <2>1. CASE k <= Len(wire[t])
    <3>1. k + 1 \in 1..(Len(wire[t]) + 1) /\ CodeAt(t, k + 1)
      BY <1>2, <2>1 DEF DirAt, Added
    <3>2. CodeAt(t, k + 1)'
      BY <1>1, <3>1
    <3> QED  BY <1>2, <2>1, <3>2 DEF DirAt, Added
  <2>2. CASE k = Len(wire[t]) + 1
    <3>1. spc[t] = "parts" /\ Tree[t][item[t]].kind = "dir"
      BY <1>2, <2>2 DEF DirAt, Added, InTurn, SenderOver
    <3>2. k <= Len(wire'[t]) /\ wire'[t][k] = token /\ ~(k + 1 <= Len(wire'[t]))
      BY <2>2 DEF Added
    <3>3. CodeAt(t, k + 1)'
      BY <3>1, <3>2 DEF InTurn, CodeAt, SenderOver
    <3> QED  BY <3>1, <3>2, <3>3 DEF DirAt, InTurn
  <2> QED  BY <2>1, <2>2 DEF Added
<1>3. ASSUME NEW k \in 1..Len(wire'[t]), wire'[t][k] = Code("dir")  PROVE  DirAt(t, k + 1)'
  <2>1. CASE k <= Len(wire[t])
    <3>1. k + 1 \in 1..(Len(wire[t]) + 1) /\ wire[t][k] = Code("dir")
      BY <1>3, <2>1 DEF Added
    <3>2. DirAt(t, k + 1)
      BY <2>1, <3>1 DEF OrderOK, Added
    <3> QED  BY <1>2, <3>1, <3>2
  <2>2. CASE k = Len(wire[t]) + 1
    BY <1>3, <2>2 DEF Added, InTurn, DirAt
  <2> QED  BY <2>1, <2>2 DEF Added
<1>4. 1 \in 1..(Len(wire[t]) + 1)
  BY DEF Added
<1> QED  BY <1>1, <1>2, <1>3, <1>4 DEF OrderOK

\* What is owed, with an element more.
LEMMA OwedAdded ==
  ASSUME NEW t, NEW token, OwedOK(t), Added(t, token), rpc'[t] = rpc[t], acks'[t] = acks[t],
         spc'[t] # "confirm", ~(acks[t] > 0), rpc[t] # "ack",
         \A k \in 1..Len(wire[t]) : ~Completes(t, k),
         spc'[t] = "ack" => token = SizeOf(0) \/ \E i \in Items(t) : token = Data(t, i, SizeAt(t, i))
  PROVE  OwedOK(t)'
<1>1. ASSUME NEW k \in 1..Len(wire[t])  PROVE  ~Completes(t, k)'
  BY DEF Completes, Added, Items, SizeAt
<1>2. Len(wire'[t]) \in 1..Len(wire'[t]) /\ wire'[t][Len(wire'[t])] = token
  BY DEF Added
<1>3. spc'[t] = "ack" => Completes(t, Len(wire[t]))'
  BY <1>2 DEF Completes, Items, SizeAt
<1>4. \A k \in 1..Len(wire'[t]) : k \in 1..Len(wire[t]) \/ k = Len(wire'[t])
  BY DEF Added
<1> QED  BY <1>1, <1>3, <1>4 DEF OwedOK, Added

\* The receiver takes the first element of the stream.
Took(t) ==
    /\ Len(wire[t]) \in Nat /\ Len(wire[t]) >= 1 /\ wire[t] # <<>>
    /\ Len(wire'[t]) = Len(wire[t]) - 1 /\ (wire'[t] = <<>> <=> Len(wire[t]) = 1)
    /\ \A k \in 1..(Len(wire[t]) - 1) : wire'[t][k] = wire[t][k + 1]

\* The order of the stream, without its first element.
LEMMA OrderTook ==
  ASSUME NEW t, OrderOK(t), Took(t), spc'[t] = spc[t], item'[t] = item[t],
         rpc'[t] = "code" => CodeAt(t, 2),
         rpc'[t] = "path" => wire[t][1] = Code("dir")
  PROVE  OrderOK(t)'
<1>1. ASSUME NEW k \in Nat \ {0}, CodeAt(t, k + 1)  PROVE  CodeAt(t, k)'
  <2>1. CASE k + 1 <= Len(wire[t])
    <3>1. k <= Len(wire'[t]) /\ wire'[t][k] = wire[t][k + 1]
      BY <2>1 DEF Took
    <3> QED  BY <1>1, <2>1, <3>1 DEF CodeAt
  <2>2. CASE ~(k + 1 <= Len(wire[t]))
    <3>1. ~(k <= Len(wire'[t]))
      BY <2>2 DEF Took
    <3> QED  BY <1>1, <2>2, <3>1 DEF CodeAt
  <2> QED  BY <2>1, <2>2
<1>2. ASSUME NEW k \in Nat \ {0}, DirAt(t, k + 1)  PROVE  DirAt(t, k)'
  <2>1. CASE k + 1 <= Len(wire[t])
    <3>1. k <= Len(wire'[t]) /\ wire'[t][k] = wire[t][k + 1] /\ k + 1 \in Nat \ {0}
      BY <2>1 DEF Took
    <3>2. wire[t][k + 1].kind = "parts" /\ CodeAt(t, (k + 1) + 1)
      BY <1>2, <2>1 DEF DirAt
    <3>3. CodeAt(t, k + 1)'
      BY <1>1, <3>1, <3>2
    <3> QED  BY <3>1, <3>2, <3>3 DEF DirAt
  <2>2. CASE ~(k + 1 <= Len(wire[t]))
    <3>1. ~(k <= Len(wire'[t]))
      BY <2>2 DEF Took
    <3> QED  BY <1>2, <2>2, <3>1 DEF DirAt
  <2> QED  BY <2>1, <2>2
<1>3. ASSUME NEW k \in 1..Len(wire'[t]), wire'[t][k] = Code("dir")  PROVE  DirAt(t, k + 1)'
  <2>1. k + 1 \in 1..Len(wire[t]) /\ k + 1 \in Nat \ {0} /\ wire[t][k + 1] = Code("dir")
    BY <1>3 DEF Took
  <2>2. DirAt(t, (k + 1) + 1)
    BY <2>1 DEF OrderOK
  <2> QED  BY <1>2, <2>1, <2>2
<1>4. rpc'[t] = "code" => CodeAt(t, 1)'
  <2>1. 1 \in Nat \ {0} /\ 1 + 1 = 2
    OBVIOUS
  <2> QED  BY <1>1, <2>1
<1>5. rpc'[t] = "path" => DirAt(t, 1)'
  <2>1. 1 \in Nat \ {0} /\ 1 + 1 = 2 /\ 1 \in 1..Len(wire[t])
    BY DEF Took
  <2>2. ASSUME rpc'[t] = "path"  PROVE  DirAt(t, 1 + 1)
    BY <2>1, <2>2 DEF OrderOK
  <2> QED  BY <1>2, <2>1, <2>2
<1> QED  BY <1>3, <1>4, <1>5 DEF OrderOK

\* What is owed, once the first element is taken.
LEMMA OwedTook ==
  ASSUME NEW t, OwedOK(t), Took(t), acks[t] \in Nat, acks'[t] = acks[t], spc'[t] = spc[t],
         spc[t] # "confirm", rpc[t] \in ReceiverOn \ {"ack"},
         rpc'[t] = "ack" => Completes(t, 1),
         Completes(t, 1) => rpc'[t] \in {"ack", "ended", "failed"}
  PROVE  OwedOK(t)'
<1>1. ASSUME NEW k \in 1..(Len(wire[t]) - 1)  PROVE  Completes(t, k)' <=> Completes(t, k + 1)
  BY DEF Completes, Took, Items, SizeAt
<1>2. acks[t] = 0
  BY DEF OwedOK, Took
<1>3. ASSUME NEW k \in 1..Len(wire'[t]), Completes(t, k)'  PROVE  k = Len(wire'[t])
  <2>1. k \in 1..(Len(wire[t]) - 1) /\ k + 1 \in 1..Len(wire[t])
    BY DEF Took
  <2>2. k + 1 = Len(wire[t])
    BY <1>1, <1>3, <2>1 DEF OwedOK
  <2> QED  BY <2>2 DEF Took
<1>4. rpc'[t] = "ack" => wire'[t] = <<>>
  <2>1. 1 \in 1..Len(wire[t])
    BY DEF Took
  <2> QED  BY <2>1 DEF OwedOK, Took
<1>5. ASSUME spc[t] = "ack", rpc'[t] \in ReceiverOn \ {"ack"}
      PROVE  wire'[t] # <<>> /\ Completes(t, Len(wire[t]))'
  <2>1. Completes(t, Len(wire[t])) /\ ~Completes(t, 1)
    BY <1>2, <1>5 DEF OwedOK, ReceiverOn
  <2>2. Len(wire[t]) # 1
    BY <2>1
  <2>3. Len(wire'[t]) \in 1..(Len(wire[t]) - 1) /\ Len(wire'[t]) + 1 = Len(wire[t]) /\ wire'[t] # <<>>
    BY <2>2 DEF Took
  <2>4. Completes(t, Len(wire'[t]) + 1)
    BY <2>1, <2>3
  <2>5. \A k \in 1..(Len(wire[t]) - 1) : Completes(t, k + 1) => Completes(t, k)'
    BY <1>1
  <2>6. Completes(t, Len(wire[t]))'
    <3> DEFINE k == Len(wire'[t])
    <3>1. k \in 1..(Len(wire[t]) - 1) /\ Completes(t, k + 1)
      BY <2>3, <2>4
    <3>2. wire'[t][k] = wire[t][k + 1]
      BY <3>1 DEF Took
    <3> HIDE DEF k
    <3>3. wire'[t][k] = SizeOf(0) \/ \E i \in Items(t) : wire'[t][k] = Data(t, i, SizeAt(t, i))
      BY <3>1, <3>2 DEF Completes
    <3> QED  BY <3>3 DEF k, Completes, Items, SizeAt
  <2> QED  BY <2>3, <2>6
<1>6. ~(acks'[t] > 0) /\ spc'[t] # "confirm"
  BY <1>2
<1> QED  BY <1>3, <1>4, <1>5, <1>6 DEF OwedOK

\* The sender ends without a word.
LEMMA EndsWaiting ==
  ASSUME NEW t \in Transfer, MapInv, WaitInv, SenderEnds(t, "failed"),
         UNCHANGED <<build, item, wire, acks, rVars>>
  PROVE  WaitInv'
<1>1. /\ spc'[t] = "failed" /\ closed'[t] = closed[t] \cup {"sender"}
      /\ \A u \in Transfer \ {t} : Still(u)
  BY DEF SenderEnds, MapInv, Map, Still, rVars
<1>2. OrderOK(t) => OrderOK(t)'
  BY <1>1 DEF OrderOK, CodeAt, DirAt, SenderOver, rVars
<1>3. OwedOK(t) => OwedOK(t)'
  BY <1>1 DEF OwedOK, Completes, Items, SizeAt, rVars
<1>4. ClosedOK(t)'
  BY <1>1 DEF WaitInv, WaitOK, ClosedOK, rVars
<1>5. WaitOK(t)'
  BY <1>2, <1>3, <1>4 DEF WaitInv, WaitOK
<1> QED  BY <1>1, <1>5, WaitStep

\* send_directory connects.
LEMMA ConnectsWaiting ==
  ASSUME NEW t \in Transfer, IInv, WaitInv, SendDirectory(t)
  PROVE  WaitInv'
<1>1. /\ spc[t] = "idle" /\ spc'[t] = "confirm" /\ UNCHANGED <<build, item, wire, acks, closed, rVars>>
      /\ \A u \in Transfer \ {t} : Still(u)
  BY DEF SendDirectory, IInv, MapInv, Map, Still, rVars
<1>2. rpc[t] = "idle" /\ wire[t] = <<>> /\ acks[t] = 0
  BY <1>1 DEF IInv, TransferOK, TaskOK, NotBegun
<1>3. OrderOK(t)' /\ OwedOK(t)'
  <2>1. 1..Len(wire'[t]) = {}
    BY <1>1, <1>2, EmptySequence
  <2> QED  BY <1>1, <1>2, <2>1 DEF OrderOK, OwedOK, ReceiverOn, rVars
<1>4. ClosedOK(t)'
  BY <1>1, <1>2 DEF ClosedOK, SenderOver, rVars
<1>5. WaitOK(t)'
  BY <1>3, <1>4 DEF WaitOK
<1> QED  BY <1>1, <1>5, WaitStep

\* The loop of send_files goes on after a byte came back, with nothing in the stream.
LEMMA LoopWaiting ==
  ASSUME NEW t \in Transfer, IInv, WaitInv, NEW i \in 1..(Len(Tree[t]) + 1), LoopHead(t, i),
         build[t].asserts =>
           wire[t] = <<>> /\ rpc[t] \in {"code", "ended", "failed"} /\ acks'[t] = 0,
         \A u \in Transfer \ {t} : acks'[u] = acks[u], UNCHANGED <<build, wire, rVars>>
  PROVE  WaitInv'
<1>1. /\ spc'[t] \in {"failed", "end", "code"}
      /\ \A u \in Transfer \ {t} : item'[u] = item[u] /\ spc'[u] = spc[u] /\ closed'[u] = closed[u]
  BY LoopHeadStep DEF IInv, TransferOK
<1>2. \/ spc'[t] = "failed" /\ closed'[t] = closed[t] \cup {"sender"}
      \/ spc'[t] # "failed" /\ closed' = closed
  BY DEF LoopHead, SenderEnds, IInv, MapInv, Map
<1>3. \A u \in Transfer \ {t} : Still(u)
  BY <1>1 DEF Still, rVars
<1>4. ASSUME build[t].asserts  PROVE  OrderOK(t)' /\ OwedOK(t)'
  <2>1. 1..Len(wire'[t]) = {} /\ ~(1 <= Len(wire'[t]))
    BY <1>4, EmptySequence
  <2> QED  BY <1>1, <1>4, <2>1 DEF OrderOK, OwedOK, CodeAt, SenderOver, rVars
<1>5. ClosedOK(t)'
  BY <1>1, <1>2 DEF WaitInv, WaitOK, ClosedOK, SenderOver, rVars
<1>6. WaitOK(t)'
  BY <1>4, <1>5 DEF WaitOK
<1> QED  BY <1>3, <1>6, WaitStep

\* _get_confirmation.
LEMMA ConfirmationWaiting ==
  ASSUME NEW t \in Transfer, IInv, WaitInv, GetConfirmation(t)
  PROVE  WaitInv'
<1>1. /\ spc[t] = "confirm" /\ (acks[t] > 0 \/ "receiver" \in closed[t])
      /\ acks' = [acks EXCEPT ![t] = IF @ > 0 THEN @ - 1 ELSE 0]
      /\ LoopHead(t, 1) /\ UNCHANGED <<build, wire, rVars>>
  BY DEF GetConfirmation
<1>2. Map(acks) /\ TaskOK(t)
  BY DEF IInv, MapInv, TransferOK
<1>3. acks'[t] = (IF acks[t] > 0 THEN acks[t] - 1 ELSE 0) /\ \A u \in Transfer \ {t} : acks'[u] = acks[u]
  BY <1>1, <1>2 DEF Map
<1>4. acks'[t] = 0 /\ wire[t] = <<>> /\ rpc[t] \in {"code", "ended", "failed"}
  BY <1>1, <1>2, <1>3 DEF TaskOK, NotBegun
<1>5. 1 \in 1..(Len(Tree[t]) + 1)
  BY PathsAssumption, EmptySequence
<1> QED  BY <1>1, <1>3, <1>4, <1>5, LoopWaiting

\* The assert that reads the code of a file.
LEMMA RecvAckWaiting ==
  ASSUME NEW t \in Transfer, IInv, WaitInv, RecvAck(t)
  PROVE  WaitInv'
<1>1. /\ spc[t] = "ack" /\ acks[t] > 0 /\ acks' = [acks EXCEPT ![t] = @ - 1]
      /\ LoopHead(t, item[t] + 1) /\ UNCHANGED <<build, wire, rVars>>
  BY DEF RecvAck
<1>2. Map(acks) /\ TaskOK(t) /\ LiveOK(t)
  BY DEF IInv, MapInv, TransferOK
<1>3. item[t] + 1 \in 1..(Len(Tree[t]) + 1)
  BY <1>1, <1>2 DEF TaskOK, SenderOn, Items
<1>4. acks'[t] = acks[t] - 1 /\ \A u \in Transfer \ {t} : acks'[u] = acks[u]
  BY <1>1, <1>2 DEF Map
<1>5. build[t].asserts => acks[t] = 1 /\ wire[t] = <<>> /\ rpc[t] \in {"code", "ended", "failed"}
  BY <1>1, <1>2 DEF LiveOK, LiveHand, Attentive, SenderOn
<1> QED  BY <1>1, <1>3, <1>4, <1>5, LoopWaiting

\* While a sender that reads the codes is not waiting for one, none is owed.
LEMMA NothingOwed ==
  ASSUME NEW t \in Transfer, LiveOK(t), Attentive(t), spc[t] # "ack"
  PROVE  /\ ~(acks[t] > 0) /\ rpc[t] # "ack"
         /\ \A k \in 1..Len(wire[t]) : ~Completes(t, k)
<1>1. LiveHand(t) /\ \A k \in 1..Len(wire[t]) : LiveToken(t, k)
  BY DEF LiveOK
<1>2. ~(acks[t] > 0) /\ rpc[t] # "ack"
  BY <1>1 DEF LiveHand
<1>3. ASSUME NEW k \in 1..Len(wire[t]), Completes(t, k)  PROVE  FALSE
  <2>1. LiveToken(t, k)
    BY <1>1
  <2>2. wire[t][k] # SizeOf(0)
    BY <2>1 DEF LiveToken, SizeOf
  <2>3. PICK i \in Items(t) : wire[t][k] = Data(t, i, SizeAt(t, i))
    BY <1>3, <2>2 DEF Completes
  <2>4. wire[t][k].kind = "data" /\ wire[t][k].what = <<t, i, SizeAt(t, i)>>
    BY <2>3 DEF Data
  <2>5. wire[t][k].what[2] = i /\ wire[t][k].what[3] = SizeAt(t, i)
    BY <2>4
  <2> QED  BY <2>1, <2>4, <2>5 DEF LiveToken
<1> QED  BY <1>2, <1>3

\* The sender sends what is in turn.
LEMMA SendWaiting ==
  ASSUME NEW t \in Transfer, IInv, WaitInv, NEW token, Send(t, token), InTurn(t, token),
         spc[t] = "chunk" => token = Data(t, item[t], sent[t] + 1),
         UNCHANGED <<build, acks, rVars>>, ClosedOK(t)', spc'[t] # "confirm",
         \A u \in Transfer \ {t} : item'[u] = item[u] /\ spc'[u] = spc[u] /\ closed'[u] = closed[u],
         build[t].asserts /\ spc'[t] = "ack" =>
           token = SizeOf(0) \/ \E i \in Items(t) : token = Data(t, i, SizeAt(t, i))
  PROVE  WaitInv'
<1>1. MapInv /\ WireOK(t) /\ LiveOK(t) /\ Map(wire)
  BY DEF IInv, TransferOK, MapInv
<1>2. spc[t] \in SenderOn /\ spc[t] # "ack"
  BY DEF InTurn, SenderOn
<1>3. Added(t, token)
  BY <1>1, <1>2, TokenSent DEF Added
<1>4. \A u \in Transfer \ {t} : Still(u)
  BY <1>1 DEF Still, Send, Map, rVars
<1>5. rpc'[t] = rpc[t] /\ acks'[t] = acks[t] /\ build'[t] = build[t]
  BY DEF rVars
<1>6. ASSUME build[t].asserts  PROVE  OrderOK(t)' /\ OwedOK(t)'
  <2>1. OrderOK(t) /\ OwedOK(t)
    BY <1>6 DEF WaitInv, WaitOK
  <2>2. /\ ~(acks[t] > 0) /\ rpc[t] # "ack"
        /\ \A k \in 1..Len(wire[t]) : ~Completes(t, k)
    BY <1>1, <1>2, <1>6, NothingOwed DEF Attentive
  <2>3. OrderOK(t)'
    BY <1>3, <1>5, <2>1, OrderAdded
  <2>4. OwedOK(t)'
    BY <1>3, <1>5, <1>6, <2>1, <2>2, OwedAdded
  <2> QED  BY <2>3, <2>4
<1>7. WaitOK(t)'
  BY <1>5, <1>6 DEF WaitOK
<1> QED  BY <1>4, <1>7, WaitStep

\* The sender's part of ClosedOK, in a step of the sender that does not end it.
LEMMA GoesOn ==
  ASSUME NEW t, WaitOK(t), closed'[t] = closed[t], rpc'[t] = rpc[t], spc'[t] \notin SenderOver
  PROVE  ClosedOK(t)'
BY DEF WaitOK, ClosedOK

\* Both parts, in one that goes on with the next item.
LEMMA LoopCloses ==
  ASSUME NEW t \in Transfer, IInv, WaitOK(t), NEW i \in 1..(Len(Tree[t]) + 1), LoopHead(t, i),
         rpc'[t] = rpc[t]
  PROVE  /\ ClosedOK(t)' /\ spc'[t] \in {"code", "end", "failed"}
         /\ \A u \in Transfer \ {t} : item'[u] = item[u] /\ spc'[u] = spc[u] /\ closed'[u] = closed[u]
<1>1. /\ spc'[t] \in {"failed", "end", "code"}
      /\ \A u \in Transfer \ {t} : item'[u] = item[u] /\ spc'[u] = spc[u] /\ closed'[u] = closed[u]
  BY LoopHeadStep DEF IInv, TransferOK
<1>2. \/ spc'[t] = "failed" /\ closed'[t] = closed[t] \cup {"sender"}
      \/ spc'[t] # "failed" /\ closed' = closed
  BY DEF LoopHead, SenderEnds, IInv, MapInv, Map
<1> QED  BY <1>1, <1>2 DEF WaitOK, ClosedOK, SenderOver

\* __send_code_parts, the code.
LEMMA SendCodeWaiting ==
  ASSUME NEW t \in Transfer, IInv, WaitInv, SendCode(t)
  PROVE  WaitInv'
<1> DEFINE token == Code(Tree[t][item[t]].kind)
<1>1. /\ spc[t] = "code" /\ spc' = [spc EXCEPT ![t] = "parts"] /\ Send(t, token)
      /\ UNCHANGED <<build, item, acks, closed, rVars>>
  BY DEF SendCode
<1>2. spc'[t] = "parts" /\ \A u \in Transfer \ {t} : spc'[u] = spc[u]
  BY <1>1 DEF IInv, MapInv, Map
<1>3. token.kind = "code" /\ (token = Code("dir") => Tree[t][item[t]].kind = "dir")
  BY DEF Code
<1> HIDE DEF token
<1>4. InTurn(t, token)
  BY <1>1, <1>2, <1>3 DEF InTurn
<1>5. ClosedOK(t)'
  BY <1>1, <1>2, GoesOn DEF WaitInv, SenderOver, rVars
<1> QED  BY <1>1, <1>2, <1>4, <1>5, SendWaiting

\* The path.
LEMMA SendPartsWaiting ==
  ASSUME NEW t \in Transfer, IInv, WaitInv, SendParts(t)
  PROVE  WaitInv'
<1> DEFINE token == Parts(Tree[t][item[t]].path)
<1>1. /\ spc[t] = "parts" /\ Send(t, token)
      /\ IF Tree[t][item[t]].kind = "dir"
         THEN LoopHead(t, item[t] + 1)
         ELSE /\ spc' = [spc EXCEPT ![t] = "size"]
              /\ UNCHANGED <<item, sent, skipped, closed>>
      /\ UNCHANGED <<build, gone, acks, rVars>>
  BY DEF SendParts
<1>2. token.kind = "parts" /\ token # Code("dir")
  BY DEF Parts, Code
<1> HIDE DEF token
<1>3. CASE Tree[t][item[t]].kind = "dir"
  <2>1. item[t] + 1 \in 1..(Len(Tree[t]) + 1)
    BY <1>1 DEF IInv, TransferOK, TaskOK, SenderOn, Items
  <2>2. /\ ClosedOK(t)' /\ spc'[t] \in {"code", "end", "failed"}
        /\ \A u \in Transfer \ {t} : item'[u] = item[u] /\ spc'[u] = spc[u] /\ closed'[u] = closed[u]
    BY <1>1, <1>3, <2>1, LoopCloses DEF WaitInv, rVars
  <2>3. InTurn(t, token)
    BY <1>1, <1>2, <2>2 DEF InTurn
  <2> QED  BY <1>1, <2>2, <2>3, SendWaiting
<1>4. CASE Tree[t][item[t]].kind # "dir"
  <2>1. spc'[t] = "size" /\ UNCHANGED <<item, closed>> /\ \A u \in Transfer \ {t} : spc'[u] = spc[u]
    BY <1>1, <1>4 DEF IInv, MapInv, Map
  <2>2. InTurn(t, token)
    BY <1>1, <1>2, <1>4, <2>1 DEF InTurn
  <2>3. ClosedOK(t)'
    BY <1>1, <2>1, GoesOn DEF WaitInv, SenderOver, rVars
  <2> QED  BY <1>1, <2>1, <2>2, <2>3, SendWaiting
<1> QED  BY <1>3, <1>4

\* The code that ends the transfer.
LEMMA SendEndWaiting ==
  ASSUME NEW t \in Transfer, IInv, WaitInv, SendEnd(t)
  PROVE  WaitInv'
<1> DEFINE token == Code("end")
<1>1. /\ spc[t] = "end" /\ spc'[t] = "done" /\ Send(t, token) /\ closed'[t] = closed[t] \cup {"sender"}
      /\ UNCHANGED <<build, item, acks, rVars>>
      /\ \A u \in Transfer \ {t} : spc'[u] = spc[u] /\ closed'[u] = closed[u]
  BY DEF SendEnd, SenderEnds, IInv, MapInv, Map
<1>2. token.kind = "code" /\ token # Code("dir")
  BY DEF Code
<1> HIDE DEF token
<1>3. InTurn(t, token)
  BY <1>1, <1>2 DEF InTurn
<1>4. ClosedOK(t)'
  BY <1>1 DEF WaitInv, WaitOK, ClosedOK, rVars
<1> QED  BY <1>1, <1>3, <1>4, SendWaiting

\* Where the sender is after the contents of a file.
LEMMA FileSentCloses ==
  ASSUME NEW t \in Transfer, IInv, WaitOK(t), FileSent(t), spc[t] \in {"size", "chunk"}, rpc'[t] = rpc[t]
  PROVE  /\ ClosedOK(t)' /\ spc'[t] \in {"ack", "code", "end", "failed"}
         /\ \A u \in Transfer \ {t} : item'[u] = item[u] /\ spc'[u] = spc[u] /\ closed'[u] = closed[u]
<1>1. CASE build[t].asserts
  <2>1. /\ spc'[t] = "ack" /\ UNCHANGED <<item, closed>>
        /\ \A u \in Transfer \ {t} : spc'[u] = spc[u]
    BY <1>1 DEF FileSent, IInv, MapInv, Map
  <2>2. ClosedOK(t)'
    BY <2>1, GoesOn DEF SenderOver
  <2> QED  BY <2>1, <2>2
<1>2. CASE ~build[t].asserts
  <2>1. item[t] + 1 \in 1..(Len(Tree[t]) + 1) /\ LoopHead(t, item[t] + 1)
    BY <1>2 DEF FileSent, IInv, TransferOK, TaskOK, SenderOn, Items
  <2> QED  BY <2>1, LoopCloses
<1> QED  BY <1>1, <1>2

\* _send_file_item, the size.
LEMMA SendSizeWaiting ==
  ASSUME NEW t \in Transfer, IInv, WaitInv, SendSize(t)
  PROVE  WaitInv'
<1> DEFINE token == SizeOf(Tree[t][item[t]].size)
<1>1. /\ spc[t] = "size" /\ Send(t, token) /\ UNCHANGED <<build, acks, rVars>>
      /\ IF Tree[t][item[t]].size = 0
         THEN FileSent(t)
         ELSE spc' = [spc EXCEPT ![t] = "chunk"] /\ UNCHANGED <<item, sent, skipped, closed>>
  BY DEF SendSize
<1>2. /\ token # Code("dir") /\ WaitOK(t) /\ rpc'[t] = rpc[t]
      /\ Tree[t][item[t]].size = 0 => token = SizeOf(0)
  BY <1>1 DEF SizeOf, Code, WaitInv, rVars
<1> HIDE DEF token
<1>3. CASE Tree[t][item[t]].size = 0
  <2>1. /\ ClosedOK(t)' /\ spc'[t] \in {"ack", "code", "end", "failed"}
        /\ \A u \in Transfer \ {t} : item'[u] = item[u] /\ spc'[u] = spc[u] /\ closed'[u] = closed[u]
    BY <1>1, <1>2, <1>3, FileSentCloses
  <2>2. InTurn(t, token)
    BY <1>1, <1>2 DEF InTurn
  <2> QED  BY <1>1, <1>2, <1>3, <2>1, <2>2, SendWaiting
<1>4. CASE Tree[t][item[t]].size # 0
  <2>1. spc'[t] = "chunk" /\ UNCHANGED <<item, closed>> /\ \A u \in Transfer \ {t} : spc'[u] = spc[u]
    BY <1>1, <1>4 DEF IInv, MapInv, Map
  <2>2. InTurn(t, token)
    BY <1>1, <1>2 DEF InTurn
  <2>3. ClosedOK(t)'
    BY <1>2, <2>1, GoesOn DEF SenderOver
  <2> QED  BY <1>1, <2>1, <2>2, <2>3, SendWaiting
<1> QED  BY <1>3, <1>4

\* send_one_file, one chunk.
LEMMA SendChunkWaiting ==
  ASSUME NEW t \in Transfer, IInv, WaitInv, SendChunk(t)
  PROVE  WaitInv'
<1> DEFINE token == Data(t, item[t], sent[t] + 1)
<1>1. /\ spc[t] = "chunk" /\ Send(t, token) /\ UNCHANGED <<build, acks, rVars>>
      /\ IF sent[t] + 1 = Tree[t][item[t]].size
         THEN FileSent(t)
         ELSE sent' = [sent EXCEPT ![t] = @ + 1] /\ UNCHANGED <<spc, item, skipped, closed>>
  BY DEF SendChunk
<1>2. /\ token # Code("dir") /\ WaitOK(t) /\ rpc'[t] = rpc[t] /\ item[t] \in Items(t)
      /\ token = Data(t, item[t], sent[t] + 1)
  BY <1>1 DEF Data, Code, WaitInv, rVars, IInv, TransferOK, TaskOK, SenderOn
<1> HIDE DEF token
<1>3. InTurn(t, token)
  BY <1>1, <1>2 DEF InTurn
<1>4. CASE sent[t] + 1 = Tree[t][item[t]].size
  <2>1. /\ ClosedOK(t)' /\ spc'[t] \in {"ack", "code", "end", "failed"}
        /\ \A u \in Transfer \ {t} : item'[u] = item[u] /\ spc'[u] = spc[u] /\ closed'[u] = closed[u]
    BY <1>1, <1>2, <1>4, FileSentCloses
  <2>2. token = Data(t, item[t], SizeAt(t, item[t]))
    BY <1>2, <1>4 DEF SizeAt
  <2> QED  BY <1>1, <1>2, <1>3, <2>1, <2>2, SendWaiting
<1>5. CASE sent[t] + 1 # Tree[t][item[t]].size
  <2>1. UNCHANGED <<spc, item, closed>>
    BY <1>1, <1>5
  <2>2. ClosedOK(t)'
    BY <1>1, <1>2, <2>1, GoesOn DEF SenderOver
  <2> QED  BY <1>1, <1>2, <1>3, <2>1, <2>2, SendWaiting
<1> QED  BY <1>4, <1>5

-----------------------------------------------------------------------------
(* The receiver *)

\* The receiver takes an element and is somewhere else then.
LEMMA TakeWaiting ==
  ASSUME NEW t \in Transfer, IInv, WaitInv, wire[t] # <<>>, wire' = [wire EXCEPT ![t] = Tail(@)],
         UNCHANGED <<build, sVars, acks>>, rpc[t] \in ReceiverOn \ {"ack"},
         \A u \in Transfer \ {t} : rpc'[u] = rpc[u] /\ closed'[u] = closed[u],
         \/ rpc'[t] \in ReceiverOn /\ closed'[t] = closed[t]
         \/ rpc'[t] \in {"ended", "failed"} /\ closed'[t] = closed[t] \cup {"receiver"},
         build[t].asserts =>
           /\ rpc'[t] = "code" => CodeAt(t, 2)
           /\ rpc'[t] = "path" => wire[t][1] = Code("dir")
           /\ rpc'[t] = "ack" => Completes(t, 1)
           /\ Completes(t, 1) => rpc'[t] \in {"ack", "ended", "failed"}
  PROVE  WaitInv'
<1>1. Map(wire) /\ WireOK(t) /\ TaskOK(t)
  BY DEF IInv, MapInv, TransferOK
<1>2. /\ Len(wire[t]) \in Nat /\ Len(wire[t]) >= 1 /\ Len(wire'[t]) = Len(wire[t]) - 1
      /\ wire'[t] = <<>> <=> Len(wire[t]) = 1
      /\ \A k \in 1..(Len(wire[t]) - 1) : wire'[t][k] = wire[t][k + 1]
      /\ \A u \in Transfer \ {t} : wire'[u] = wire[u]
  BY <1>1, TokenRead
<1>3. Took(t) /\ \A u \in Transfer \ {t} : Still(u)
  BY <1>2 DEF Took, Still, sVars
<1>4. spc[t] # "confirm" /\ acks[t] \in Nat /\ spc'[t] = spc[t] /\ item'[t] = item[t]
  BY <1>1 DEF TaskOK, sVars
<1>5. ASSUME build[t].asserts  PROVE  OrderOK(t)' /\ OwedOK(t)'
  <2>1. OrderOK(t) /\ OwedOK(t) /\ acks'[t] = acks[t]
    BY <1>5 DEF WaitInv, WaitOK
  <2>2. OrderOK(t)'
    BY <1>3, <1>4, <1>5, <2>1, OrderTook
  <2>3. OwedOK(t)'
    BY <1>3, <1>4, <1>5, <2>1, OwedTook
  <2> QED  BY <2>2, <2>3
<1>6. ClosedOK(t)'
  BY <1>4 DEF WaitInv, WaitOK, ClosedOK, ReceiverOn
<1>7. WaitOK(t)'
  BY <1>5, <1>6 DEF WaitOK
<1> QED  BY <1>3, <1>7, WaitStep

\* No code, path or size but that of an empty file completes a file.
LEMMA KindCompletes ==
  ASSUME NEW t, NEW k, Completes(t, k)
  PROVE  /\ wire[t][k].kind \in {"size", "data"}
         /\ wire[t][k].kind = "size" => wire[t][k].what = 0
<1>1. CASE wire[t][k] = SizeOf(0)
  BY <1>1 DEF SizeOf
<1>2. ASSUME NEW i, wire[t][k] = Data(t, i, SizeAt(t, i))
      PROVE  wire[t][k].kind = "data"
  BY <1>2 DEF Data
<1> QED  BY <1>1, <1>2 DEF Completes

\* _should_proceed with a code that announces an item.
LEMMA RecvCodeWaiting ==
  ASSUME NEW t \in Transfer, IInv, WaitInv, RecvCode(t)
  PROVE  WaitInv'
<1>1. /\ rpc[t] = "code" /\ wire[t] # <<>> /\ Head(wire[t]).kind = "code" /\ Head(wire[t]).what # "end"
      /\ wire' = [wire EXCEPT ![t] = Tail(@)] /\ UNCHANGED <<build, sVars, acks, closed>>
      /\ rpc' = [rpc EXCEPT ![t] = IF Head(wire[t]).what = "dir" THEN "path" ELSE "parts"]
  BY DEF RecvCode, Recv
<1>2. /\ rpc'[t] = (IF Head(wire[t]).what = "dir" THEN "path" ELSE "parts")
      /\ \A u \in Transfer \ {t} : rpc'[u] = rpc[u]
  BY <1>1 DEF IInv, MapInv, Map
<1>3. Head(wire[t]) = wire[t][1] /\ TokenOK(t, 1)
  BY <1>1, TokenRead DEF IInv, MapInv, TransferOK
<1>4. Head(wire[t]).what = "dir" => wire[t][1] = Code("dir")
  <2>1. ASSUME NEW what, wire[t][1] = Code(what), Head(wire[t]).what = "dir"
        PROVE  wire[t][1] = Code("dir")
    BY <1>3, <2>1 DEF Code
  <2>2. ~SizeToken(t, 1) /\ ~DataToken(t, 1) /\ \A path : wire[t][1] # Parts(path)
    <3>1. wire[t][1].kind = "code"
      BY <1>1, <1>3
    <3>2. (\A n : wire[t][1] # SizeOf(n)) /\ \A i, u : wire[t][1] # Data(t, i, u)
      BY <3>1 DEF SizeOf, Data
    <3>3. ~SizeToken(t, 1) /\ ~DataToken(t, 1)
      BY <3>2 DEF SizeToken, DataToken
    <3>4. \A path : wire[t][1] # Parts(path)
      BY <3>1 DEF Parts
    <3> QED  BY <3>2, <3>3, <3>4
  <2> QED  BY <1>3, <2>1, <2>2 DEF TokenOK
<1>5. ~Completes(t, 1)
  BY <1>1, <1>3, KindCompletes
<1>6. rpc'[t] \in ReceiverOn /\ rpc'[t] \notin {"code", "ack"} /\ rpc[t] \in ReceiverOn \ {"ack"}
  BY <1>1, <1>2 DEF ReceiverOn
<1>7. rpc'[t] = "path" => wire[t][1] = Code("dir")
  BY <1>2, <1>4
<1> QED  BY <1>1, <1>2, <1>5, <1>6, <1>7, TakeWaiting

\* _should_proceed with the end code or the end of the stream.
LEMMA ReceivedWaiting ==
  ASSUME NEW t \in Transfer, IInv, WaitInv, DirectoryReceived(t)
  PROVE  WaitInv'
<1>1. /\ rpc[t] = "code" /\ UNCHANGED <<build, sVars, acks>>
      /\ rpc'[t] = "ended" /\ closed'[t] = closed[t] \cup {"receiver"}
      /\ \A u \in Transfer \ {t} : rpc'[u] = rpc[u] /\ closed'[u] = closed[u]
  BY DEF DirectoryReceived, ReceiverEnds, IInv, MapInv, Map
<1>2. CASE Recv(t, "code")
  <2>1. wire[t] # <<>> /\ wire' = [wire EXCEPT ![t] = Tail(@)]
    BY <1>2 DEF Recv
  <2>2. rpc[t] \in ReceiverOn \ {"ack"} /\ rpc'[t] \notin {"code", "path", "ack"}
    BY <1>1 DEF ReceiverOn
  <2> QED  BY <1>1, <2>1, <2>2, TakeWaiting
<1>3. CASE UNCHANGED wire
  <2>1. \A u \in Transfer \ {t} : Still(u)
    BY <1>1, <1>3 DEF Still, sVars
  <2>2. OrderOK(t) => OrderOK(t)'
    BY <1>1, <1>3 DEF OrderOK, CodeAt, DirAt, sVars
  <2>3. OwedOK(t) => OwedOK(t)'
    BY <1>1, <1>3 DEF OwedOK, Completes, Items, SizeAt, ReceiverOn, sVars
  <2>4. ClosedOK(t)'
    BY <1>1 DEF WaitInv, WaitOK, ClosedOK, sVars
  <2>5. WaitOK(t)'
    BY <1>1, <2>2, <2>3, <2>4 DEF WaitInv, WaitOK
  <2> QED  BY <2>1, <2>5, WaitStep
<1> QED  BY <1>2, <1>3 DEF DirectoryReceived

\* recv_files at the path of a directory: a code is next.
LEMMA RecvPathWaiting ==
  ASSUME NEW t \in Transfer, IInv, WaitInv, RecvPath(t)
  PROVE  WaitInv'
<1>1. /\ rpc[t] = "path" /\ wire[t] # <<>> /\ wire' = [wire EXCEPT ![t] = Tail(@)]
      /\ Head(wire[t]).kind = "parts" /\ UNCHANGED <<build, sVars, acks>>
      /\ \/ ReceiverEnds(t, "failed")
         \/ rpc' = [rpc EXCEPT ![t] = "code"] /\ UNCHANGED closed
  BY DEF RecvPath, Recv
<1>2. /\ \/ rpc'[t] = "code" /\ closed'[t] = closed[t]
         \/ rpc'[t] = "failed" /\ closed'[t] = closed[t] \cup {"receiver"}
      /\ \A u \in Transfer \ {t} : rpc'[u] = rpc[u] /\ closed'[u] = closed[u]
  BY <1>1 DEF ReceiverEnds, IInv, MapInv, Map
<1>3. Head(wire[t]) = wire[t][1] /\ Len(wire[t]) \in Nat /\ Len(wire[t]) >= 1
  BY <1>1, TokenRead DEF IInv, MapInv, TransferOK
<1>4. ~Completes(t, 1)
  BY <1>1, <1>3, KindCompletes
<1>5. ASSUME build[t].asserts  PROVE  CodeAt(t, 2)
  <2>1. DirAt(t, 1) /\ 1 + 1 = 2
    BY <1>1, <1>5 DEF WaitInv, WaitOK, OrderOK
  <2>2. CodeAt(t, 1 + 1)
    BY <1>3, <2>1 DEF DirAt
  <2> QED  BY <2>1, <2>2
<1>6. rpc[t] \in ReceiverOn \ {"ack"} /\ rpc'[t] \notin {"path", "ack"} /\ "code" \in ReceiverOn
  BY <1>1, <1>2 DEF ReceiverOn
<1> QED  BY <1>1, <1>2, <1>4, <1>5, <1>6, TakeWaiting

\* _recv_file_item, the path.
LEMMA RecvPartsWaiting ==
  ASSUME NEW t \in Transfer, IInv, WaitInv, RecvParts(t)
  PROVE  WaitInv'
<1>1. /\ rpc[t] = "parts" /\ wire[t] # <<>> /\ wire' = [wire EXCEPT ![t] = Tail(@)]
      /\ Head(wire[t]).kind = "parts" /\ UNCHANGED <<build, sVars, acks, closed>>
      /\ rpc'[t] = "size" /\ \A u \in Transfer \ {t} : rpc'[u] = rpc[u]
  BY DEF RecvParts, Recv, IInv, MapInv, Map
<1>2. Head(wire[t]) = wire[t][1]
  BY <1>1, TokenRead DEF IInv, MapInv, TransferOK
<1>3. ~Completes(t, 1)
  BY <1>1, <1>2, KindCompletes
<1>4. /\ rpc[t] \in ReceiverOn \ {"ack"} /\ rpc'[t] \notin {"code", "path", "ack"}
      /\ rpc'[t] \in ReceiverOn /\ closed'[t] = closed[t]
      /\ \A u \in Transfer \ {t} : closed'[u] = closed[u]
  BY <1>1 DEF ReceiverOn
<1> QED  BY <1>1, <1>3, <1>4, TakeWaiting

\* The size: only that of an empty file completes it.
LEMMA RecvSizeWaiting ==
  ASSUME NEW t \in Transfer, IInv, WaitInv, RecvSize(t)
  PROVE  WaitInv'
<1> DEFINE n == Head(wire[t]).what
<1>1. /\ rpc[t] = "size" /\ wire[t] # <<>> /\ wire' = [wire EXCEPT ![t] = Tail(@)]
      /\ Head(wire[t]).kind = "size" /\ UNCHANGED <<build, sVars, acks>>
      /\ IF n = 0
         THEN rpc' = [rpc EXCEPT ![t] = "ack"] /\ UNCHANGED closed
         ELSE \/ ReceiverEnds(t, "failed")
              \/ rpc' = [rpc EXCEPT ![t] = "chunk"] /\ UNCHANGED closed
  BY DEF RecvSize, Recv, Touch, OpenNew
<1>2. /\ \/ n = 0 /\ rpc'[t] = "ack" /\ closed'[t] = closed[t]
         \/ n # 0 /\ rpc'[t] = "failed" /\ closed'[t] = closed[t] \cup {"receiver"}
         \/ n # 0 /\ rpc'[t] = "chunk" /\ closed'[t] = closed[t]
      /\ \A u \in Transfer \ {t} : rpc'[u] = rpc[u] /\ closed'[u] = closed[u]
  BY <1>1 DEF ReceiverEnds, IInv, MapInv, Map
<1>3. Head(wire[t]) = wire[t][1] /\ TokenOK(t, 1)
  BY <1>1, TokenRead DEF IInv, MapInv, TransferOK
<1>4. Completes(t, 1) <=> n = 0
  <2>1. Completes(t, 1) => n = 0
    BY <1>1, <1>3, KindCompletes
  <2>2. SizeToken(t, 1)
    BY <1>1, <1>3, TokenOfKind
  <2>3. PICK i \in Items(t) : wire[t][1] = SizeOf(SizeAt(t, i))
    BY <2>2 DEF SizeToken
  <2>4. n = SizeAt(t, i)
    BY <1>3, <2>3 DEF SizeOf
  <2> QED  BY <2>1, <2>3, <2>4 DEF Completes
<1> HIDE DEF n
<1>5. /\ rpc[t] \in ReceiverOn \ {"ack"} /\ rpc'[t] \notin {"code", "path"}
      /\ {"ack", "chunk"} \subseteq ReceiverOn
  BY <1>1, <1>2 DEF ReceiverOn
<1> QED  BY <1>1, <1>2, <1>4, <1>5, TakeWaiting

\* recv_file_contents: the last unit of a file completes it.
LEMMA RecvChunkWaiting ==
  ASSUME NEW t \in Transfer, IInv, WaitInv, RecvChunk(t)
  PROVE  WaitInv'
<1>1. /\ rpc[t] = "chunk" /\ wire[t] # <<>> /\ wire' = [wire EXCEPT ![t] = Tail(@)]
      /\ Head(wire[t]).kind = "data" /\ UNCHANGED <<build, sVars, acks, closed>>
      /\ rpc'[t] = (IF current[t].seeked + 1 = current[t].size THEN "ack" ELSE "chunk")
      /\ \A u \in Transfer \ {t} : rpc'[u] = rpc[u]
  BY DEF RecvChunk, Recv, IInv, MapInv, Map
<1>2. Len(wire[t]) \in Nat /\ Len(wire[t]) >= 1
  BY <1>1, TokenRead DEF IInv, MapInv, TransferOK
<1>3. PICK i \in Items(t) : current[t].size = SizeAt(t, i) /\ DataAt(t, 1, i, current[t].seeked + 1)
  BY <1>1 DEF IInv, TransferOK, HandOK, InHand
<1>4. wire[t][1] = Data(t, i, current[t].seeked + 1)
  BY <1>2, <1>3 DEF DataAt
<1>5. Completes(t, 1) <=> current[t].seeked + 1 = current[t].size
  <2>1. ASSUME NEW j \in Items(t), wire[t][1] = Data(t, j, SizeAt(t, j))
        PROVE  current[t].seeked + 1 = current[t].size
    <3>1. <<t, j, SizeAt(t, j)>> = <<t, i, current[t].seeked + 1>>
      BY <1>4, <2>1 DEF Data
    <3> QED  BY <1>3, <3>1
  <2>2. wire[t][1] # SizeOf(0)
    BY <1>4 DEF Data, SizeOf
  <2>3. current[t].seeked + 1 = current[t].size => wire[t][1] = Data(t, i, SizeAt(t, i))
    BY <1>3, <1>4
  <2> QED  BY <2>1, <2>2, <2>3 DEF Completes
<1>6. /\ rpc[t] \in ReceiverOn \ {"ack"} /\ rpc'[t] \notin {"code", "path"} /\ rpc'[t] \in ReceiverOn
      /\ rpc'[t] = "ack" <=> current[t].seeked + 1 = current[t].size
      /\ closed'[t] = closed[t] /\ \A u \in Transfer \ {t} : closed'[u] = closed[u]
  BY <1>1 DEF ReceiverOn
<1> QED  BY <1>1, <1>5, <1>6, TakeWaiting

\* DirConnectionHandler up to its first await.
LEMMA HandleWaiting ==
  ASSUME NEW t \in Transfer, IInv, WaitInv, HandleConnection(t)
  PROVE  WaitInv'
<1>1. /\ rpc[t] = "idle" /\ rpc'[t] \in {"raised", "confirm"}
      /\ UNCHANGED <<build, sVars, wire, acks, closed>>
      /\ \A u \in Transfer \ {t} : rpc'[u] = rpc[u]
  BY DEF HandleConnection, IInv, MapInv, Map
<1>2. \A u \in Transfer \ {t} : Still(u)
  BY <1>1 DEF Still, sVars
<1>3. acks[t] = 0 /\ wire[t] = <<>> /\ spc[t] \notin SenderOn
  BY <1>1 DEF IInv, TransferOK, TaskOK, NotBegun, SenderOn
<1>4. OrderOK(t)' /\ OwedOK(t)'
  <2>1. 1..Len(wire'[t]) = {} /\ ~(acks'[t] > 0)
    BY <1>1, <1>3, EmptySequence
  <2> QED  BY <1>1, <1>3, <2>1 DEF OrderOK, OwedOK, ReceiverOn, SenderOn, sVars
<1>5. ClosedOK(t)'
  BY <1>1 DEF WaitInv, WaitOK, ClosedOK, sVars
<1>6. WaitOK(t)'
  BY <1>4, <1>5 DEF WaitOK
<1> QED  BY <1>2, <1>6, WaitStep

\* A byte goes back, the confirmation or the code of a file.
LEMMA BackWaiting ==
  ASSUME NEW t \in Transfer, IInv, WaitInv, SendBack(t), rpc[t] \in {"confirm", "ack"},
         rpc' = [rpc EXCEPT ![t] = "code"], UNCHANGED <<build, sVars, wire, closed>>
  PROVE  WaitInv'
<1>1. /\ rpc'[t] = "code" /\ acks'[t] = acks[t] + 1
      /\ \A u \in Transfer \ {t} : rpc'[u] = rpc[u] /\ acks'[u] = acks[u]
  BY DEF SendBack, IInv, MapInv, Map
<1>2. \A u \in Transfer \ {t} : Still(u)
  BY <1>1 DEF Still, sVars
<1>3. TaskOK(t) /\ LiveOK(t) /\ acks[t] \in Nat
  BY DEF IInv, TransferOK, TaskOK
<1>4. ASSUME build[t].asserts  PROVE  OrderOK(t)' /\ OwedOK(t)'
  <2>1. OwedOK(t)
    BY <1>4 DEF WaitInv, WaitOK
  <2>2. wire[t] = <<>> /\ acks'[t] > 0
    BY <1>1, <1>3, <2>1 DEF OwedOK, TaskOK, NotBegun
  <2>3. spc[t] \in {"confirm", "ack"} \cup SenderOver
    <3>1. CASE rpc[t] = "confirm"
      BY <1>3, <3>1 DEF TaskOK, NotBegun, SenderOver
    <3>2. CASE rpc[t] = "ack"
      <4>1. spc[t] \in SenderOn => spc[t] = "ack"
        BY <1>3, <1>4, <3>2 DEF LiveOK, LiveHand, Attentive
      <4> QED  BY <1>3, <3>2, <4>1 DEF TaskOK, NotBegun
    <3> QED  BY <3>1, <3>2
  <2>4. 1..Len(wire'[t]) = {} /\ ~(1 <= Len(wire'[t])) /\ wire'[t] = <<>>
    BY <2>2, EmptySequence
  <2>5. OrderOK(t)'
    BY <1>1, <2>3, <2>4 DEF OrderOK, CodeAt, sVars
  <2>6. OwedOK(t)'
    BY <1>1, <1>3, <2>2, <2>4 DEF OwedOK, sVars
  <2> QED  BY <2>5, <2>6
<1>5. ClosedOK(t)'
  BY <1>1 DEF WaitInv, WaitOK, ClosedOK, sVars
<1>6. WaitOK(t)'
  BY <1>4, <1>5 DEF WaitOK
<1> QED  BY <1>2, <1>6, WaitStep

\* The receiver ends without taking anything.
LEMMA RaisesWaiting ==
  ASSUME NEW t \in Transfer, IInv, WaitInv, ReceiverRaises(t)
  PROVE  WaitInv'
<1>1. /\ rpc'[t] = "failed" /\ closed'[t] = closed[t] \cup {"receiver"} /\ rpc[t] \in ReceiverOn
      /\ UNCHANGED <<build, sVars, wire, acks>>
      /\ \A u \in Transfer \ {t} : rpc'[u] = rpc[u] /\ closed'[u] = closed[u]
  BY DEF ReceiverRaises, ReceiverEnds, IInv, MapInv, Map
<1>2. \A u \in Transfer \ {t} : Still(u)
  BY <1>1 DEF Still, sVars
<1>3. OrderOK(t) => OrderOK(t)'
  BY <1>1 DEF OrderOK, CodeAt, DirAt, sVars
<1>4. OwedOK(t) => OwedOK(t)'
  BY <1>1 DEF OwedOK, Completes, Items, SizeAt, ReceiverOn, sVars
<1>5. ClosedOK(t)'
  BY <1>1 DEF WaitInv, WaitOK, ClosedOK, sVars
<1>6. WaitOK(t)'
  BY <1>1, <1>3, <1>4, <1>5 DEF WaitInv, WaitOK
<1> QED  BY <1>2, <1>6, WaitStep

\* A step that leaves both tasks and the connection's elements alone.
LEMMA OutsideWaiting ==
  ASSUME WaitInv, UNCHANGED <<build, spc, item, wire, acks, closed, rpc>>
  PROVE  WaitInv'
<1>1. ASSUME NEW u \in Transfer  PROVE  WaitOK(u)'
  <2>1. WaitOK(u) /\ Still(u)
    BY DEF WaitInv, Still
  <2> QED  BY <2>1, StillOK
<1> QED  BY <1>1 DEF WaitInv

\* WaitInv holds at the start, ...
LEMMA WaitInit == Init => WaitInv
<1> SUFFICES ASSUME Init, NEW t \in Transfer  PROVE  WaitOK(t)
  BY DEF WaitInv
<1>1. spc[t] = "idle" /\ rpc[t] = "idle" /\ wire[t] = <<>> /\ acks[t] = 0
  BY DEF Init
<1>2. 1..Len(wire[t]) = {} /\ ~(acks[t] > 0)
  BY <1>1, EmptySequence
<1> QED  BY <1>1, <1>2 DEF WaitOK, ClosedOK, OrderOK, OwedOK, SenderOver, ReceiverOn

\* ... and every step keeps it.
LEMMA WaitNext == IInv /\ WaitInv /\ [Next]_vars => WaitInv'
<1> SUFFICES ASSUME IInv, WaitInv, [Next]_vars  PROVE  WaitInv'
  OBVIOUS
<1>1. CASE UNCHANGED vars
  BY <1>1, OutsideWaiting DEF vars
<1>2. ASSUME NEW t \in Transfer, SendDirectory(t)  PROVE  WaitInv'
  BY <1>2, ConnectsWaiting
<1>3. ASSUME NEW t \in Transfer, ConnectFails(t) \/ SenderRaises(t)  PROVE  WaitInv'
  BY <1>3, EndsWaiting DEF ConnectFails, SenderRaises, IInv
<1>4. ASSUME NEW t \in Transfer, Sender(t)  PROVE  WaitInv'
  BY <1>3, <1>4, ConfirmationWaiting, SendCodeWaiting, SendPartsWaiting, SendSizeWaiting,
     SendChunkWaiting, RecvAckWaiting, SendEndWaiting DEF Sender
<1>5. ASSUME NEW t \in Transfer, Confirm(t) \/ SendAck(t)  PROVE  WaitInv'
  BY <1>5, BackWaiting DEF Confirm, SendAck
<1>6. ASSUME NEW t \in Transfer, Receiver(t)  PROVE  WaitInv'
  BY <1>5, <1>6, HandleWaiting, RecvCodeWaiting, ReceivedWaiting, RecvPathWaiting, RecvPartsWaiting,
     RecvSizeWaiting, RecvChunkWaiting, RaisesWaiting DEF Receiver
<1>7. ASSUME NEW t \in Transfer, Break(t) \/ \E i \in 1..Len(Tree[t]) : DeleteFile(t, i)  PROVE  WaitInv'
  BY <1>7, OutsideWaiting DEF Break, DeleteFile, sVars, rVars
<1> QED  BY <1>1, <1>2, <1>3, <1>4, <1>6, <1>7 DEF Next

(* send_files and recv_files never wait for each other: with a sender that *)
(* reads the codes, a receiver that can only wait has a sender that is on  *)
(* and can move, and a sender that can only wait has a receiver that has   *)
(* not ended, for any trees, any number of transfers and any buffers.      *)
THEOREM NobodyStuck == Spec => []NoMutualWait
<1>1. ASSUME IInv, WaitInv  PROVE  NoMutualWait
  <2> SUFFICES ASSUME NEW t \in Transfer, build[t].asserts
               PROVE  /\ ReceiverWaits(t) => spc[t] \notin SenderOver /\ ~SenderWaits(t)
                      /\ SenderWaits(t) => rpc[t] \notin {"ended", "failed"}
    BY DEF NoMutualWait
  <2>1. TransferOK(t) /\ TaskOK(t) /\ WireOK(t) /\ OrderOK(t) /\ OwedOK(t) /\ ClosedOK(t)
    BY <1>1 DEF IInv, TransferOK, WaitInv, WaitOK
  <2>2. SenderWaits(t) => rpc[t] \notin {"ended", "failed"}
    BY <2>1 DEF SenderWaits, ClosedOK
  <2>3. ASSUME ReceiverWaits(t)
        PROVE  rpc[t] \notin {"confirm", "ack"} /\ wire[t] = <<>> /\ "sender" \notin closed[t]
    <3>1. rpc[t] \in {"confirm", "ack"} => ~(acks[t] >= AckBuf)
      BY <2>1, BoundsAssumption DEF OwedOK, TaskOK
    <3>2. wire[t] # <<>> => Head(wire[t]) = wire[t][1] /\ 1 <= Len(wire[t])
      <4>1. Sequence(wire[t])
        BY <2>1 DEF WireOK
      <4>2. wire[t] # <<>> => Head(wire[t]) = wire[t][1] /\ Len(wire[t]) \in Nat /\ Len(wire[t]) > 0
        BY <4>1, Tailed
      <4> QED  BY <4>2
    <3>3. rpc[t] = "code" /\ wire[t] # <<>> => Head(wire[t]).kind = "code"
      BY <2>1, <3>2 DEF OrderOK, CodeAt
    <3>4. rpc[t] = "chunk" /\ wire[t] # <<>> => Head(wire[t]).kind = "data"
      <4>1. ASSUME rpc[t] = "chunk", wire[t] # <<>>  PROVE  \E i, u : wire[t][1] = Data(t, i, u)
        BY <2>1, <3>2, <4>1 DEF TransferOK, HandOK, InHand, DataAt
      <4>2. \A i, u : Data(t, i, u).kind = "data"
        BY DEF Data
      <4> QED  BY <3>2, <4>1, <4>2
    <3> QED  BY <2>3, <3>1, <3>3, <3>4 DEF ReceiverWaits
  <2>4. ASSUME ReceiverWaits(t)  PROVE  spc[t] \notin SenderOver /\ ~SenderWaits(t)
    <3>1. spc[t] \notin SenderOver
      BY <2>1, <2>3, <2>4 DEF ClosedOK
    <3>2. Len(wire[t]) = 0 /\ ~(Len(wire[t]) >= SockBuf)
      BY <2>3, <2>4, EmptySequence, BoundsAssumption
    <3>3. spc[t] \in {"confirm", "ack"} => acks[t] # 0
      BY <2>1, <2>3, <2>4 DEF OwedOK, ReceiverWaits, TaskOK
    <3> QED  BY <3>1, <3>2, <3>3 DEF SenderWaits
  <2> QED  BY <2>2, <2>4
<1> QED  BY <1>1, InitOK, StepOK, WaitInit, WaitNext, PTL DEF Spec
=============================================================================
