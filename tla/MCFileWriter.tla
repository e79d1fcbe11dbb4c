----------------------------- MODULE MCFileWriter -----------------------------
(* Small instances of FileWriter. *)
EXTENDS FileWriter, TLC

CONSTANTS h1, h2

(* Within a block, over its end, and over the end of a chunk. *)
SmallRanges == {<<0, 1>>, <<1, 2>>, <<2, 2>>}

==============================================================================
