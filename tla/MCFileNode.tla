----------------------------- MODULE MCFileNode -----------------------------
(* FileNode with ranges and sizes on both sides of every boundary: with an inline part *)
(* of one byte, one direct block of two and two references in a block the parts begin  *)
(* at 0, 1, 3, 7 and 15.                                                               *)
EXTENDS FileNode

MCWrites ==
    {<<0, 2, 1>>, <<2, 4, 2>>, <<5, 3, 1>>, <<13, 3, 1>>, <<29, 2, 2>>}
MCSizes == {0, 2, 4, 5, 8}
=============================================================================
