----------------------------- MODULE RefHistory -----------------------------
(***************************************************************************)
(* What the ref store promises: the refs move through one history of       *)
(* states, each step changing several refs at once and only if they still  *)
(* are what the caller expects; a reader sees states of that history, never *)
(* an earlier one than it saw before; a power loss takes back the latest.  *)
(***************************************************************************)
EXTENDS Naturals, Sequences

CONSTANTS Reader,     \* who reads the refs
          Change,     \* the transactions: for some refs, old and new target
          Initial     \* the refs of a new store

VARIABLES history,    \* the states, oldest first; each a function of the refs
          seen,       \* the place in the history each reader is at; 0: none
          view        \* the refs each reader works with

Latest == history[Len(history)]

Expects(state, change) == \A r \in DOMAIN change : state[r] = change[r].old
After(state, change) ==
    [r \in DOMAIN state |-> IF r \in DOMAIN change THEN change[r].new ELSE state[r]]

Init ==
    /\ history = <<Initial>>
    /\ seen = [p \in Reader |-> 0]
    /\ view = [p \in Reader |-> Initial]

\* Catching up: each reader where it was, or at a later state.
CatchUp ==
    /\ seen' \in [Reader -> 0 .. Len(history)]
    /\ \A p \in Reader :
         \/ seen'[p] >= seen[p] /\ seen'[p] > 0 /\ view'[p] = history[seen'[p]]
         \/ seen'[p] = seen[p] /\ view'[p] = view[p]

Transact(change) ==
    /\ Expects(Latest, change)
    /\ history' = Append(history, After(Latest, change))
    /\ CatchUp

Read == UNCHANGED history /\ CatchUp

Close(p) ==
    /\ seen' = [seen EXCEPT ![p] = 0]
    /\ \A q \in Reader \ {p} : view'[q] = view[q]
    /\ UNCHANGED history

\* The machine stops: every reader is gone, and maybe the latest states.
Lose ==
    /\ \E k \in 1 .. Len(history) : history' = SubSeq(history, 1, k)
    /\ seen' = [p \in Reader |-> 0]

Next ==
    \/ \E change \in Change : Transact(change)
    \/ Read
    \/ \E p \in Reader : Close(p)
    \/ Lose

Spec == Init /\ [][Next]_<<history, seen, view>>
=============================================================================
