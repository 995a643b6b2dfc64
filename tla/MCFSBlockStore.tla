--------------------------- MODULE MCFSBlockStore ---------------------------
(***************************************************************************)
(* FSBlockStore with a block of one byte and a block of two.  A key is the *)
(* digest of its block wherever the file system uses the store, so a key   *)
(* has one size; a file of another size is what a torn write leaves.       *)
(***************************************************************************)
EXTENDS FSBlockStore

MCSizes == [k \in Keys |-> IF k = "c" THEN {2} ELSE {1}]
=============================================================================
