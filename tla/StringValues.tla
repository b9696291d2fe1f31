----------------------------- MODULE StringValues -----------------------------
(***************************************************************************)
(* What NCString promises: strings with the semantics of values.  Whatever *)
(* the strings of other threads do meanwhile, a string changes only by its *)
(* own operations, and each of them takes effect at once.                  *)
(***************************************************************************)
EXTENDS Naturals, Sequences

CONSTANTS Handle,   \* the NCString objects
          Char,     \* the characters
          Literal,  \* the texts a caller passes in
          MaxLen    \* bound on the length of a string

VARIABLE val        \* the text of each string

Init == val = [h \in Handle |-> <<>>]

Set(h, v) == val' = [val EXCEPT ![h] = v]

Assign(h)     == \E s \in Literal : Set(h, s)
Extend(h)     == \E s \in Literal : /\ Len(val[h]) + Len(s) <= MaxLen
                                    /\ Set(h, val[h] \o s)
Chop(h)       == \E n \in 0 .. Len(val[h]) - 1 : Set(h, SubSeq(val[h], 1, n))
Clear(h)      == Set(h, <<>>)
SetChar(h)    == \E i \in 1 .. Len(val[h]), c \in Char :
                    Set(h, [val[h] EXCEPT ![i] = c])
Copy(h, g)    == Set(h, val[g])
Substr(h, g)  == \E i, j \in 1 .. Len(val[g]) + 1 : Set(h, SubSeq(val[g], i, j - 1))
\* Moving exchanges the two strings.
Move(h, g)    == val' = [val EXCEPT ![h] = val[g], ![g] = val[h]]

Next == \/ \E h \in Handle : Assign(h) \/ Extend(h) \/ Chop(h) \/ Clear(h) \/ SetChar(h)
        \/ \E h, g \in Handle : Copy(h, g) \/ Substr(h, g) \/ Move(h, g)

Spec == Init /\ [][Next]_val
===============================================================================
