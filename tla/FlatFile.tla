------------------------------ MODULE FlatFile ------------------------------
(***************************************************************************)
(* What a file promises: bytes that are zero until they are written, and a *)
(* size.  A truncation keeps the bytes below the new size and makes those  *)
(* it cuts off zero again.  Of cut bytes from Sure on less is asked: each  *)
(* is zero or what it was.                                                 *)
(***************************************************************************)
EXTENDS Naturals

CONSTANTS
    Cap,        \* how large a file can be
    Sure,       \* below this, a truncation is sure to clear
    Writes,     \* what is written: <<offset, size, byte>>
    Sizes       \* what is truncated to

VARIABLES
    bytes,      \* offset -> byte
    size

vars == <<bytes, size>>

Init == bytes = [o \in 0..(Cap - 1) |-> 0] /\ size = 0

Write ==
    \E r \in Writes :
        LET end == r[1] + r[2]
        IN  /\ size' = IF end > size THEN end ELSE size
            /\ bytes' = [o \in 0..(Cap - 1) |-> IF r[1] <= o /\ o < end THEN r[3] ELSE bytes[o]]

Truncate ==
    \E s \in Sizes :
        /\ size' = s
        /\ DOMAIN bytes' = 0..(Cap - 1)
        /\ \A o \in 0..(Cap - 1) :
             bytes'[o] \in (IF o < s THEN {bytes[o]} ELSE IF o < Sure THEN {0} ELSE {0, bytes[o]})

Next == Write \/ Truncate

Spec == Init /\ [][Next]_vars
=============================================================================
