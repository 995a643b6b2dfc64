------------------------------ MODULE NameTree ------------------------------
(***************************************************************************)
(* What the names of a file system with delayed writes promise: files,     *)
(* directories and symbolic links are made, changed, moved and removed     *)
(* under the names they were asked for and nothing else changes, a sync or *)
(* an orderly stop makes the whole tree durable, and a crash takes it back *)
(* to the last of these.  Hard links are outside the promise: it ends with *)
(* the first of them.                                                      *)
(***************************************************************************)
EXTENDS Naturals, Sequences, SequencesExt

CONSTANTS
    Paths,      \* sequences of names, << >> is the root
    Values      \* what a node holds: data or attributes, 0 when new

VARIABLES
    tree,       \* path -> [kind, val]
    durable,    \* what a crash leaves of it
    mode        \* "off", "on", "crashed" or "linked"

vars == <<tree, durable, mode>>

None == <<>>
NewRoot == [p \in {<<>>} |-> [kind |-> "dir", val |-> 0]]

Below(t, p) == {q \in DOMAIN t : IsPrefix(p, q)}
IsDir(t, p) == p \in DOMAIN t /\ t[p].kind = "dir"

\* A name that can be made: it is free and in a directory.
Free(t, p) == p \in Paths \ DOMAIN t /\ IsDir(t, Front(p))

\* Everything at and below p moves to q; what was there is gone.
Moved(t, p, q) ==
    LET to(r)   == q \o SubSeq(r, Len(p) + 1, Len(r))
        from(r) == p \o SubSeq(r, Len(q) + 1, Len(r))
        stays   == DOMAIN t \ (Below(t, p) \cup Below(t, q))
    IN  [r \in stays \cup {to(s) : s \in Below(t, p)} |->
           IF IsPrefix(q, r) THEN t[from(r)] ELSE t[r]]

Creates(t, u) ==
    \E p \in Paths : Free(t, p) /\ \E n \in [kind : {"leaf", "dir"}, val : Values] :
        u = [q \in DOMAIN t \cup {p} |-> IF q = p THEN n ELSE t[q]]

Removes(t, u) ==
    \E p \in DOMAIN t \ {<<>>} : Below(t, p) = {p} /\ u = [q \in DOMAIN t \ {p} |-> t[q]]

Changes(t, u) ==
    /\ DOMAIN t = DOMAIN u
    /\ \E p \in DOMAIN t, v \in Values : u = [t EXCEPT ![p].val = v]

Moves(t, u) ==
    \E p \in DOMAIN t \ {<<>>}, q \in DOMAIN u :
        ~IsPrefix(p, q) /\ ~IsPrefix(q, p) /\ IsDir(t, Front(q)) /\ u = Moved(t, p, q)

Init == tree = None /\ durable = None /\ mode = "off"

Format ==
    /\ tree = None /\ mode = "off" /\ mode' = "on"
    /\ tree' = NewRoot /\ durable' = NewRoot

Mount ==
    /\ tree # None /\ mode # "on" /\ mode' = "on"
    /\ UNCHANGED <<tree, durable>>

Change ==
    /\ mode = "on"
    /\ UNCHANGED <<durable, mode>>
    /\ \E t \in {tree}, u \in {tree'} :
         Creates(t, u) \/ Removes(t, u) \/ Changes(t, u) \/ Moves(t, u)

Sync ==
    /\ mode = "on" /\ mode' \in {"on", "off"}
    /\ tree' = tree /\ durable' = tree

Crash ==
    /\ mode = "on" /\ mode' = "crashed"
    /\ tree' = durable /\ UNCHANGED durable

\* A hard link was made.
Link == mode' = "linked" /\ tree' = None /\ durable' = None

Next == Format \/ Mount \/ Change \/ Sync \/ Crash \/ Link

Spec == Init /\ [][Next]_vars
=============================================================================
