---------------------------- MODULE MCSequencer ----------------------------
(* Instances of Sequencer: short histories in which a rebase of topic onto  *)
(* main conflicts, finds changes in the base, or replays cleanly.           *)
EXTENDS Blame, Sequencer, TLC

CONSTANTS a, b

Tree(ca, cb) == a :> ca @@ b :> cb
Made(parents, tree) == [parents |-> parents, tree |-> tree, carries |-> {}]

(* Two topic commits, the first of which conflicts with main. *)
Conflicting ==
    [commits |-> <<Made(<<>>, Tree("x", "x")), Made(<<1>>, Tree("y", "x")),
                   Made(<<1>>, Tree("z", "x")), Made(<<3>>, Tree("z", "y"))>>,
     main |-> 2, topic |-> 4, culprit |-> 3]

(* A modification against a deletion, then a change main has too. *)
Deleting ==
    [commits |-> <<Made(<<>>, Tree("x", Absent)), Made(<<1>>, Tree(Absent, "y")),
                   Made(<<1>>, Tree("y", Absent)), Made(<<3>>, Tree(Absent, Absent))>>,
     main |-> 2, topic |-> 4, culprit |-> 4]

(* A merge in the history, for bisect. *)
Forked ==
    [commits |-> <<Made(<<>>, Tree("x", "x")), Made(<<1>>, Tree("y", "x")),
                   Made(<<1>>, Tree("x", "y")), Made(<<2, 3>>, Tree("y", "y")),
                   Made(<<4>>, Tree("y", "z"))>>,
     main |-> 1, topic |-> 5, culprit |-> 3]

Used(h, commands) == [commits |-> h.commits, main |-> h.main, topic |-> h.topic,
                      culprit |-> h.culprit,
                      commands |-> {"edit", "add", "commit"} \cup commands]

AllHistories ==
    {Used(h, {c}) : h \in {Conflicting, Deleting}, c \in {"rebase", "revert"}}
    \cup {Used(h, {"merge", "pick"}) : h \in {Conflicting, Deleting}}
    \cup {Used(Forked, {"bisect"})}
(* Two files in conflict at once. *)
Both ==
    {Used([commits |-> <<Made(<<>>, Tree("x", "x")), Made(<<1>>, Tree("y", "y")),
                         Made(<<1>>, Tree("z", "z"))>>,
           main |-> 2, topic |-> 3, culprit |-> 3], {"rebase"})}
ToRebase == {Used(Conflicting, {"rebase"})}
ToBisect == {Used(Forked, {"bisect"})}
OneTodo == {<<"pick">>}
AllTodos == [1..2 -> {"pick", "fixup", "drop"}]

(* The history a bisect is used on is one it can be trusted on. *)
ASSUME MCSequencerAssumption == BisectsAlone
=============================================================================
