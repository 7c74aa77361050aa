--------------------------- MODULE MCFileTransfer ---------------------------
(* Instances of FileTransfer for TLC. *)
EXTENDS FileTransfer

\* Two files, one of them longer than a chunk, and an empty one to attach.
SizesChunked == <<5, 3, 0>>
\* Files longer than two chunks.
SizesLong == <<6, 5, 3>>
=============================================================================
