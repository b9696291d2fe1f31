---------------------------- MODULE MCSimpleBuffer ----------------------------
(* Two pools of different page sizes, two buffers of up to three pages.    *)
EXTENDS SimpleBuffer, TLC

CONSTANTS p1, p2, x, y

MCPageSize == p1 :> 1 @@ p2 :> 2
MCMinCache == p1 :> 1 @@ p2 :> 1
\* Pools made with the default arguments.
MCDefaultPageSize == p1 :> getSystemPageSize
MCDefaultMinCache == p1 :> 1
MCInputs   == { <<x>>, <<y, x, y>> }

Symmetry == Permutations(Page)
===============================================================================
