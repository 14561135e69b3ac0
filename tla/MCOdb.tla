------------------------------- MODULE MCOdb -------------------------------
(* Instances of Odb for TLC. *)
EXTENDS Blobs, Odb

CONSTANTS p1, p2, o1, o2, o3

\* Two processes that flush through the marker, within one pack.
Shared == [procs |-> {p1, p2}, daemons |-> {}, objects |-> {o1, o2}, content |-> {o2},
           prismatic |-> {}, sealAt |-> 9]

\* A daemon alone, with prismatic objects and packs that fill up.
Served == [procs |-> {p1}, daemons |-> {p1}, objects |-> {o1, o2, o3}, content |-> {},
           prismatic |-> {o1, o2}, sealAt |-> 2]

MCUses == {Shared, Served}

\* Two processes that store no content, with three objects and small packs.
Rolling == {[Shared EXCEPT !.objects = {o1, o2, o3}, !.content = {}, !.sealAt = 2]}
Bare == {[Shared EXCEPT !.content = {}]}
Mixed == {[Shared EXCEPT !.daemons = {p2}]}
BareMixed == {[Shared EXCEPT !.daemons = {p2}, !.content = {}]}
BarePrismatic == {[Shared EXCEPT !.content = {}, !.prismatic = {o1, o2}]}
PrismaticContent == {[Shared EXCEPT !.prismatic = {o2}]}
OneDaemon == {Served}
=============================================================================
