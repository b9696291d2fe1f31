-------------------------------- MODULE Sockets --------------------------------
(***************************************************************************)
(* Who owns a descriptor: BFSocket (bf/io/net/bfsocket.cpp), and BFSerial  *)
(* as the one BFSimpleFd the library makes (bf/io/bfio.cpp).               *)
(*                                                                         *)
(* Every object is destroyed once, and another may be made in its place;   *)
(* copies, which the compiler still provides, are the callers' to avoid.   *)
(* What the constructors configure is left out, but not that each of those *)
(* calls may fail and throw.                                               *)
(***************************************************************************)
EXTENDS FdTable

CONSTANTS Object,   \* places of BFSocket and BFSerial objects
          MaxLeaks  \* bound on the constructors that throw

ASSUME LeakAssumption == MaxLeaks \in Nat

VARIABLE obj        \* m_fd of the object at each place, NoFd if there is none

NoFd == -1
Live == { s \in Object : obj[s] # NoFd }

SocketsInit == obj = [s \in Object |-> NoFd]

\* The constructors, and acceptClient: a new object owns the descriptor of
\* socket(), open() or accept().  When that call fails nothing is left: m_fd
\* is -1, and closing -1 does nothing.
Construct(s) ==
  /\ s \notin Live
  /\ Free(tab) # {}
  /\ tab' = Install(tab, File(s))
  /\ obj' = [obj EXCEPT ![s] = NthFree(tab, 1)]

\* setsockopt, connect, bind, listen or getsockopt fails once socket() has
\* returned: the constructor throws, and no destructor runs.  (BFSerial asks
\* no call after open for its result.)
ConstructThrows ==
  /\ Cardinality(Leaked) < MaxLeaks
  /\ Free(tab) # {}
  /\ tab' = Install(tab, Lost)
  /\ UNCHANGED obj

\* Fault: the destructor does not close what it owns.
DestroyOnly(s) ==
  /\ s \in Live
  /\ obj' = [obj EXCEPT ![s] = NoFd]
  /\ UNCHANGED tab

\* ~BFSocket, ~BFSimpleFd: 0 is taken for no descriptor.
Destroy(s) ==
  /\ s \in Live
  /\ obj' = [obj EXCEPT ![s] = NoFd]
  /\ tab' = Drop(tab, {obj[s]} \ {0})

SocketsNext == \/ \E s \in Object : Construct(s) \/ Destroy(s)
               \/ ConstructThrows
===============================================================================
