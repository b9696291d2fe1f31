--------------------------- MODULE AttachedProcess ---------------------------
(***************************************************************************)
(* runAttachedProcess and ProcStreams (bf/bf.cpp, bf/bf.h): a process whose *)
(* standard streams are pipes to the caller; and runAsAService             *)
(* (bf/service.h), after which the program has no standard streams.        *)
(*                                                                         *)
(* The caller is one thread, so what it does between two of its system     *)
(* calls is seen by nobody and a call of it is one step.  The children     *)
(* are processes of their own: connecting the pipes and execvpe is one     *)
(* step of the child, which sees and changes no table but its own copy.    *)
(* Getting to the end of its standard input is what ends a child that      *)
(* reads it (a filter); it may also end at any time before.                *)
(***************************************************************************)
EXTENDS FdTable

CONSTANT Call       \* the calls of runAttachedProcess, each with its streams

VARIABLES streams,  \* the ProcStreams of each call
          child     \* the process it forked: phase, pipe ends, table

NoStreams == [life |-> "none", ok |-> FALSE, in |-> 0, out |-> 1, err |-> 3]
NoChild   == [phase |-> "none", pipes |-> <<>>, tab |-> [f \in Fd |-> Closed]]

Running == { c \in Call : child[c].phase \in {"forked", "running", "twin"} }

\* The names of what a call pipes: the child writes "in" and "err" and reads
\* "out".  Each pipe has an end "r" to read and an end "w" to write.
Ends(c) == << End(c, "in", "r"),  End(c, "in", "w"),
              End(c, "out", "r"), End(c, "out", "w"),
              End(c, "err", "r"), End(c, "err", "w") >>

\* Whether any process has that end open.
Held(e) == \/ \E f \in Fd : tab[f] = e
           \/ \E d \in Running : \E f \in Fd : child[d].tab[f] = e

\* What runAsAService leaves to the function it calls: the process that goes
\* on has closed the standard descriptors.
runAsAService(t) == Drop(t, Standard)

ProcessInit == /\ streams = [c \in Call |-> NoStreams]
               /\ child = [c \in Call |-> NoChild]

-------------------------------------------------------------------------------
(* The caller                                                              *)

\* Three times pipe(): where the six ends are, and the table with them.
PipeFds(t)  == [i \in 1 .. 6 |-> NthFree(t, i)]
Piped(t, c) == LET p == PipeFds(t) IN
  [f \in Fd |-> IF \E i \in 1 .. 6 : p[i] = f
                THEN Ends(c)[CHOOSE i \in 1 .. 6 : p[i] = f] ELSE t[f]]

\* The call can be made; with fewer descriptors an assert ends the program.
CanRun(c) == streams[c] = NoStreams /\ Cardinality(Free(tab)) >= 6

\* Which of the ends p the parent closes.  Fault: the end it writes no more
\* to, but the child does, stays open.
NotTheParentsForgotten(p) == {p[3], p[6]}
NotTheParents(p) == {p[3], p[2], p[6]}

\* Fault: pipe() is called in an assert that is not compiled (NDEBUG).
RunWithoutPipes(c) ==
  /\ CanRun(c)
  /\ tab' = Drop(tab, {0})
  /\ streams' = [streams EXCEPT ![c] =
                   [life |-> "open", ok |-> TRUE, in |-> 0, out |-> 0, err |-> 0]]
  /\ child' = [child EXCEPT ![c] = [phase |-> "forked", pipes |-> [i \in 1 .. 6 |-> 0],
                                    tab |-> tab]]

\* fork() succeeds: the parent closes the child's ends.
Run(c) == LET p == PipeFds(tab) IN
  /\ CanRun(c)
  /\ tab' = Drop(Piped(tab, c), NotTheParents(p))
  /\ streams' = [streams EXCEPT ![c] =
                   [life |-> "open", ok |-> TRUE, in |-> p[4], out |-> p[1], err |-> p[5]]]
  /\ child' = [child EXCEPT ![c] = [phase |-> "forked", pipes |-> p, tab |-> Piped(tab, c)]]

\* fork() fails: the pipes stay open, and the streams are as constructed.
ForkFails(c) ==
  /\ CanRun(c)
  /\ tab' = [f \in Fd |-> IF f \in { PipeFds(tab)[i] : i \in 1 .. 6 } THEN Lost ELSE tab[f]]
  /\ streams' = [streams EXCEPT ![c].life = "open"]
  /\ UNCHANGED child

\* The destructor of ProcStreams.
Release(c) ==
  /\ streams[c].life = "open"
  /\ streams' = [streams EXCEPT ![c].life = "closed"]
  /\ tab' = Drop(tab, {streams[c].in, streams[c].out, streams[c].err})
  /\ UNCHANGED child

-------------------------------------------------------------------------------
(* The child                                                               *)

\* Faults: the child keeps its own copy of the end its input is written to;
\* the names pipeIn and pipeOut are taken from the child's point of view.
ConnectedKeeping(t, p) ==
  Drop(Dup2(Dup2(Dup2(t, p[3], 0), p[2], 1), p[6], 2), {p[1], p[5]})
ConnectedCrossed(t, p) ==
  Drop(Dup2(Dup2(Dup2(t, p[1], 0), p[4], 1), p[6], 2), {p[2], p[3], p[5]})

\* dup2 onto the standard descriptors, then close the caller's ends.
Connected(t, p) ==
  Drop(Dup2(Dup2(Dup2(t, p[3], 0), p[2], 1), p[6], 2), {p[4], p[1], p[5]})

\* execvpe does not return, or it fails and the child returns false to the
\* caller's code: a second copy of the program, which goes on until it ends.
Exec(c) ==
  /\ child[c].phase = "forked"
  /\ \E phase \in {"running", "twin"} :
       child' = [child EXCEPT ![c] = [phase |-> phase, pipes |-> <<>>,
                                      tab |-> Connected(@.tab, @.pipes)]]
  /\ UNCHANGED <<tab, streams>>

\* exit closes what the process has open.
ChildExit(c) ==
  /\ child[c].phase \in {"running", "twin"}
  /\ child' = [child EXCEPT ![c] = [NoChild EXCEPT !.phase = "gone"]]
  /\ UNCHANGED <<tab, streams>>

\* A read of its standard input returns no more bytes.
AtEof(c) == /\ child[c].phase = "running"
            /\ \/ child[c].tab[0] = Closed
               \/ child[c].tab[0] = End(c, "out", "r") /\ ~Held(End(c, "out", "w"))
ExitAtEof(c) == AtEof(c) /\ ChildExit(c)

ProcessNext == \E c \in Call : \/ Run(c) \/ ForkFails(c) \/ Release(c)
                               \/ Exec(c) \/ ChildExit(c)
===============================================================================
