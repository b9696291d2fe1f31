------------------------------- MODULE FdTable -------------------------------
(***************************************************************************)
(* The kernel's table of open descriptors, as far as bf/ uses it: open,    *)
(* socket, accept and pipe take the lowest closed descriptor, close and    *)
(* dup2 change one entry, fork copies the table.                           *)
(*                                                                         *)
(* The classes of libbf, and the helpers that start processes, meet in     *)
(* this table and nowhere else: a descriptor is a number, and whoever      *)
(* closes it too often closes somebody else's.                             *)
(***************************************************************************)
EXTENDS Naturals, Integers, FiniteSets

CONSTANT MaxFd    \* the highest descriptor the system gives

ASSUME FdAssumption == MaxFd \in Nat /\ MaxFd >= 3

VARIABLE tab      \* the entry of each descriptor, in the program's process

Fd       == 0 .. MaxFd
Standard == 0 .. 2

\* The entries: closed; what the program was started with; what somebody
\* opened and nobody can close; the file of an object; one end of a pipe of
\* a started process.
Closed  == <<"closed">>
Std     == <<"std">>
Lost    == <<"lost">>
File(s) == <<"file", s>>
End(c, pipe, side) == <<c, pipe, side>>

Free(t)       == { f \in Fd : t[f] = Closed }
NthFree(t, n) == CHOOSE f \in Free(t) : Cardinality({ g \in Free(t) : g < f }) = n - 1
Install(t, e) == [t EXCEPT ![NthFree(t, 1)] = e]

\* close(2) of a descriptor that is not open, or of -1, changes nothing.
Drop(t, fs)   == [f \in Fd |-> IF f \in fs THEN Closed ELSE t[f]]
Dup2(t, f, g) == IF t[f] = Closed THEN t ELSE [t EXCEPT ![g] = t[f]]

\* Nobody has closed a standard descriptor.
StandardOpen == \A f \in Standard : tab[f] = Std

Leaked == { f \in Fd : tab[f] = Lost }
===============================================================================
