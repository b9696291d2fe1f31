------------------------------ MODULE MCNCString ------------------------------
(* A few strings of one or two characters, each in a thread of its own.    *)
EXTENDS NCString, TLC

\* Literals of every length up to MaxLiteral.
CONSTANT MaxLiteral

MCLiteral == UNION { [1 .. n -> Char] : n \in 0 .. MaxLiteral }

\* Every text of at most one character, and one of two that differ: the same
\* two the other way round are no literal, so an append in the wrong order is
\* no assignment of one.
MCTexts == { t \in MCLiteral : Len(t) <= 1 } \cup { CHOOSE t \in [1 .. 2 -> Char] : t[1] # t[2] }

\* Strings, blocks and characters are interchangeable.
Symmetry == Permutations(Handle) \cup Permutations(Block) \cup Permutations(Char)

\* MCTexts tells characters apart.
TextSymmetry == Permutations(Handle) \cup Permutations(Block)
===============================================================================
