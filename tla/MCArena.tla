------------------------------ MODULE MCArena ------------------------------
(* An arena of a few bytes, with chunks at every alignment modulo 4.       *)
EXTENDS Arena, TLC

MCLayouts == { l \in [size : {0, 1, 2, 3, 4, 8}, align : {1, 2, 4}] : l.size % l.align = 0 }

MCAddresses == {0, 65, 130, 195, 260}
=============================================================================
