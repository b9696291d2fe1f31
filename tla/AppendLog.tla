------------------------------- MODULE AppendLog -------------------------------
(***************************************************************************)
(* What SimpleBuffer promises: each buffer is a sequence that only grows   *)
(* at its end, is handed over whole by a move, and is gone when destroyed. *)
(***************************************************************************)
EXTENDS Sequences

CONSTANTS Buffer,  \* the buffers
          Inputs,  \* the sequences a caller may append
          None     \* no buffer there

VARIABLE log       \* what each buffer holds, None if there is no such buffer

Init == log = [b \in Buffer |-> None]

Construct(b) == log[b] = None /\ log' = [log EXCEPT ![b] = <<>>]
Extend(b, x) == log[b] # None /\ log' = [log EXCEPT ![b] = @ \o x]
Destroy(b)   == log[b] # None /\ log' = [log EXCEPT ![b] = None]
\* Into a new buffer, or over one that is there.
Move(b, c)   == /\ b # c /\ log[c] # None
                /\ log' = [log EXCEPT ![b] = log[c], ![c] = None]

Next == \/ \E b \in Buffer : Construct(b) \/ Destroy(b) \/ \E x \in Inputs : Extend(b, x)
        \/ \E b, c \in Buffer : Move(b, c)

Spec == Init /\ [][Next]_log
===============================================================================
