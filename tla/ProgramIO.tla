------------------------------ MODULE ProgramIO ------------------------------
(***************************************************************************)
(* A program that uses the sockets, the serial ports and the processes of  *)
(* libbf together: they share nothing but the table of descriptors, which  *)
(* every one of them trusts to be its own.                                 *)
(***************************************************************************)
EXTENDS Sockets, AttachedProcess

vars == <<tab, obj, streams, child>>

AtStart == [f \in Fd |-> IF f \in Standard THEN Std ELSE Closed]

\* A program as it was started, or a service before it opens anything.
Init == /\ tab \in {AtStart, runAsAService(AtStart)}
        /\ SocketsInit
        /\ ProcessInit

Next == \/ SocketsNext /\ UNCHANGED <<streams, child>>
        \/ ProcessNext /\ UNCHANGED obj

Spec == Init /\ [][Next]_vars

\* A child gets to execvpe, and a filter that reads the end of its input ends.
Fairness == \A c \in Call : /\ WF_vars(Exec(c) /\ UNCHANGED obj)
                            /\ WF_vars(ExitAtEof(c) /\ UNCHANGED obj)
FairSpec == Spec /\ Fairness

-------------------------------------------------------------------------------
Entries == {Closed, Std, Lost} \cup { File(s) : s \in Object }
           \cup { Ends(c)[i] : c \in Call, i \in 1 .. 6 }
Tables  == [Fd -> Entries]

TypeOK ==
  /\ tab \in Tables
  /\ obj \in [Object -> Fd \cup {NoFd}]
  /\ \A c \in Call :
       /\ streams[c].life \in {"none", "open", "closed"} /\ streams[c].ok \in BOOLEAN
       /\ {streams[c].in, streams[c].out, streams[c].err} \subseteq Fd
       /\ Cardinality({streams[c].in, streams[c].out, streams[c].err}) = 3
       /\ child[c].phase \in {"none", "forked", "running", "twin", "gone"}
       /\ child[c].tab \in Tables

\* The descriptors the program's live objects and streams say are theirs,
\* with what they opened.
Owned == { <<obj[s], File(s)>> : s \in Live }
         \cup UNION { { <<streams[c].in, End(c, "out", "w")>>,
                        <<streams[c].out, End(c, "in", "r")>>,
                        <<streams[c].err, End(c, "err", "r")>> } :
                      c \in { d \in Call : streams[d].life = "open" /\ streams[d].ok } }

(* While the standard descriptors are open, every owner's number leads to  *)
(* the file it opened, and what is open beside them is what somebody owns, *)
(* or what a constructor or a fork that failed has left behind: nobody     *)
(* closes a number that has become another's, and nothing else leaks       *)
(* (~BFSocket, ~BFSimpleFd, ~ProcStreams, the parent's closes).            *)
OwnDescriptors == StandardOpen =>
  { <<f, tab[f]>> : f \in { g \in Fd \ Standard : tab[g] \notin {Closed, Lost} } } = Owned

(* A started program reads and writes the caller's pipes, whatever else    *)
(* the caller had open when it forked (the order of dup2 and close).       *)
StreamsOf(c) == [f \in Standard |-> child[c].tab[f]]
Connection(c) == [f \in Standard |-> CASE f = 0 -> End(c, "out", "r")
                                       [] f = 1 -> End(c, "in", "w")
                                       [] f = 2 -> End(c, "err", "w")]
StreamsAreConnected == \A c \in Call :
  child[c].phase = "running" => StreamsOf(c) = Connection(c)

(* So it is for a program that has its standard descriptors.               *)
ChildIsConnected == StandardOpen => StreamsAreConnected

(* The caller reads the end of the program's output when the program has   *)
(* ended, neither before nor never: nobody else writes to that pipe, not   *)
(* the caller and not the programs and twins started later.                *)
EndOfOutput == StandardOpen => \A c \in Call :
  streams[c].life = "open" /\ streams[c].ok =>
    (Held(End(c, "in", "w")) <=> c \in Running)

(* Once a caller has let go of all its streams, the filters it started see *)
(* the end of their input and end, although each was forked with copies of *)
(* what the caller had open for the others.  A program that could not be   *)
(* started runs on as a twin of the caller and keeps its copies: while     *)
(* there is one, nothing is promised.                                      *)
AllEnd == <>[](/\ StandardOpen
               /\ \A c \in Call : streams[c].life # "open" /\ child[c].phase # "twin")
          => <>[](Running = {})
===============================================================================
