----------------------------- MODULE ContentStore -----------------------------
(***************************************************************************)
(* What a chunk store promises, whatever it does with its files: it holds  *)
(* chunks; those it has said are kept it does not lose; and a push that is *)
(* taken back takes nothing with it but what it brought.                   *)
(***************************************************************************)
CONSTANTS Chunk, Push

VARIABLES
    held,    \* the chunks that can be read back
    kept,    \* those a flush has answered for
    brought  \* those each push was the first to bring

vars == <<held, kept, brought>>

NoneBrought == [x \in Push |-> {}]

Init == held = {} /\ kept = {} /\ brought = NoneBrought

\* A chunk comes, with at most one of the pushes.
Put(c) ==
    /\ c \notin held /\ held' = held \cup {c}
    /\ \/ brought' = brought
       \/ \E x \in Push : brought' = [brought EXCEPT ![x] = @ \cup {c}]
    /\ UNCHANGED kept

Flush == kept \subseteq kept' /\ kept' \subseteq held /\ UNCHANGED <<held, brought>>

\* A push is over, and has its chunks stay.
End(x) == brought' = [brought EXCEPT ![x] = {}] /\ UNCHANGED <<held, kept>>

TakeBack(x) ==
    /\ held' \subseteq held /\ held \ held' \subseteq brought[x]
    /\ kept' = kept \cap held'
    /\ brought' = [brought EXCEPT ![x] = {}]

\* A crash ends every push, and takes at most what no flush has answered for.
Crash ==
    /\ held' \subseteq held /\ kept \subseteq held' /\ UNCHANGED kept
    /\ brought' = NoneBrought

Next ==
    \/ Flush \/ Crash
    \/ \E c \in Chunk : Put(c)
    \/ \E x \in Push : End(x) \/ TakeBack(x)

Spec == Init /\ [][Next]_vars
=============================================================================
