------------------------------ MODULE DurableFS ------------------------------
(***************************************************************************)
(* What a file system with delayed writes promises: operations change what *)
(* its users see, a sync makes all of that durable at once, and a crash    *)
(* takes the users back to what the last sync made durable.                *)
(***************************************************************************)
EXTENDS Naturals

CONSTANTS
    Files,      \* file names
    NBlocks,    \* blocks of a file
    Values      \* what is written to a block

VARIABLES
    contents,   \* what the users see
    durable     \* what a crash leaves of it

vars == <<contents, durable>>

\* Contents are the files that exist and what was written to their blocks: a set of
\* triples file, block, value.  A block that is not there reads as zeros.
Empty == [files |-> {}, data |-> {}]

\* What one operation on a file makes of the contents c: the file is created,
\* removed, one block of it written, or only its first n blocks kept.
Creations(c) == {[c EXCEPT !.files = @ \cup {f}] : f \in Files \ c.files}

Removals(c) ==
    {[files |-> c.files \ {f}, data |-> {d \in c.data : d[1] # f}] : f \in c.files}

Written(c, f, n, v) ==
    [c EXCEPT !.data = {d \in @ : <<d[1], d[2]>> # <<f, n>>} \cup {<<f, n, v>>}]
Writes(c) == {Written(c, f, n, v) : f \in c.files, n \in 1..NBlocks, v \in Values}

Truncations(c) ==
    {[c EXCEPT !.data = {d \in @ : d[1] = f => d[2] <= n}] : f \in c.files, n \in 0..NBlocks}

Changes(c) == Creations(c) \cup Removals(c) \cup Writes(c) \cup Truncations(c)

Init == contents = Empty /\ durable = Empty

Change == UNCHANGED durable /\ \E c \in {contents} : contents' \in Changes(c)

Sync == durable' = contents /\ UNCHANGED contents

Crash == contents' = durable /\ UNCHANGED durable

Next == Change \/ Sync \/ Crash

Spec == Init /\ [][Next]_vars
=============================================================================
