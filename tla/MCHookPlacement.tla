--------------------------- MODULE MCHookPlacement ---------------------------
(***************************************************************************)
(* Instances of HookPlacement for TLC: the distances of the program scaled *)
(* down to 2048 for 0x7fff0000, with the same order among them.            *)
(***************************************************************************)
EXTENDS HookPlacement

Routine(at, cb, hook, rips) == [at |-> at, cb |-> cb, hook |-> hook, rips |-> rips]
Rip(start, displacement) == [start |-> start, displacement |-> displacement]

\* A function in the middle with its hook close by; one whose hook is as far
\* above as a jump goes; one near zero with its hook far away, and
\* displacements as far from zero as the window bears.
MCRoutines == {
    Routine(4200, 5, 4600, {Rip(0, 700)}),
    Routine(4300, 19, 4300 + 2048, {Rip(0, -1100), Rip(4, 600)}),
    Routine(600, 7, 7900, {Rip(0, 2303)}) }

\* Hooks below the function, around the limit of a direct jump.
Edges == {Routine(4300, 6, 4300 - d, {}) : d \in {2043, 2048, 2049}}

AllRoutines == MCRoutines \cup Edges

\* Pages of 128 bytes, two to a block of the granularity: free blocks inside
\* the windows of the functions, at their ends and outside; regions that are
\* too small, not aligned, or larger than one trampoline.
MCLayouts == {
    {18, 19, 24, 25, 40, 41},
    (1..3) \cup (20..23) \cup (44..47),
    (7..9) \cup {12} \cup (35..37) \cup {46, 47},
    (2..3) \cup (16..19) \cup (60..63) }
==============================================================================
