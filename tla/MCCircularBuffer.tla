--------------------------- MODULE MCCircularBuffer ---------------------------
(* A small ring, requests of every length up to one more than its size.    *)
EXTENDS CircularBuffer

\* MaxRequest > Size, so that every operation is also clamped.
CONSTANT MaxRequest

MCInputs  == UNION { [1 .. n -> Data] : n \in 0 .. MaxRequest }
MCAmounts == 0 .. MaxRequest
===============================================================================
