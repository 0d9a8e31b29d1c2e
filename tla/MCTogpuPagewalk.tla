--------------------------- MODULE MCTogpuPagewalk ---------------------------
(***************************************************************************)
(* Values for TogpuPagewalk: tables of two entries, 16 pages of addresses, *)
(* blocks that begin and end inside a table at every level.                *)
(***************************************************************************)
EXTENDS TogpuPagewalk

MCBlocks == {<<3, 13>>, <<1, 2>>, <<4, 8>>, <<5, 5>>}
MCHoles  == [l \in 1 .. 3 |-> IF l = 3 THEN {1} ELSE IF l = 2 THEN {1} ELSE {3, 5}]

=============================================================================
