------------------------------ MODULE OpChain ------------------------------
(***************************************************************************)
(* What the operation log promises to the ref store and the daemon: one    *)
(* chain of operations.  An append adds one at the end; a sync promises    *)
(* some of those present; a power loss may take back a suffix, but never a *)
(* promised operation.                                                     *)
(***************************************************************************)
EXTENDS Naturals, Sequences

CONSTANT Ids    \* the operation ids

VARIABLES chain,      \* the ids in the order they were appended
          promised    \* those some caller was told are durable

InChain(s) == {s[i] : i \in DOMAIN s}

Init == chain = <<>> /\ promised = {}

AppendOp(id) ==
    /\ id \notin InChain(chain)
    /\ chain' = Append(chain, id)
    /\ UNCHANGED promised

Promise ==
    /\ promised' \in SUBSET InChain(chain)
    /\ promised \subseteq promised'
    /\ UNCHANGED chain

Lose ==
    /\ \E k \in 0 .. Len(chain) : chain' = SubSeq(chain, 1, k)
    /\ promised \subseteq InChain(chain')
    /\ UNCHANGED promised

Next == (\E id \in Ids : AppendOp(id)) \/ Promise \/ Lose

Spec == Init /\ [][Next]_<<chain, promised>>
=============================================================================
