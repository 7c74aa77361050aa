------------------------ MODULE MCDirectoryTransfer ------------------------
(* Two peers send a directory "d" each, and there is one with that name in *)
(* the download directory.  In the first, a name of the root occurs again  *)
(* below it, next to the name it will be given.                            *)
EXTENDS DirectoryTransfer

File(path, n) == [kind |-> "file", path |-> path, size |-> n]
Dir(path) == [kind |-> "dir", path |-> path, size |-> 0]

d == <<"d">>
x == <<"x">>
x1 == <<"x", 1>>

Senders == {"a", "b"}
Names == [t \in Senders |-> d]
Trees == [t \in Senders |->
    CASE t = "a" -> <<File(<<x>>, 0), Dir(<<d>>), File(<<d, x1>>, 2), File(<<d, x>>, 1)>>
      [] t = "b" -> <<File(<<x>>, 1)>>]
Saved == [p \in {<<d, x>>} |-> <<<<"saved", 0, 1>>>>]
Platforms == [t \in Senders |->
    CASE t = "a" -> {[windows |-> TRUE, asserts |-> TRUE], [windows |-> TRUE, asserts |-> FALSE]}
      [] t = "b" -> {[windows |-> TRUE, asserts |-> FALSE], [windows |-> FALSE, asserts |-> TRUE]}]
=============================================================================
