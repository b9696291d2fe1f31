---------------------------- MODULE ProgramIOProofs ----------------------------
(***************************************************************************)
(* Proofs about FdTable, AttachedProcess and ProgramIO for every set of    *)
(* objects and of calls, every number of descriptors and every bound on    *)
(* the constructors that fail.                                             *)
(***************************************************************************)
EXTENDS ProgramIO, FiniteSetTheorems, WellFoundedInduction, TLAPS

-------------------------------------------------------------------------------
(* The lowest closed descriptors                                           *)

LEMMA LeastNumber ==
  ASSUME NEW S \in SUBSET Nat, S # {}
  PROVE  \E m \in S : \A k \in S : m <= k
<1>1. PICK m \in S : \A k \in S : ~(<<k, m>> \in OpToRel(<, Nat))
  BY NatLessThanWellFounded, WFMin
<1>2. ASSUME NEW k \in S PROVE m <= k
  <2>1. k \in Nat /\ m \in Nat
    OBVIOUS
  <2>2. ~(<<k, m>> \in OpToRel(<, Nat))
    BY <1>1
  <2>3. ~(k < m)
    BY <2>1, <2>2 DEF OpToRel
  <2> QED BY <2>1, <2>3
<1> QED BY <1>2

\* A set of numbers with n members has one with n - 1 below it.
Below(S, k) == { g \in S : g < k }

LEMMA BelowCounts ==
  ASSUME NEW S \in SUBSET Nat, IsFiniteSet(S), NEW k \in Nat
  PROVE  /\ IsFiniteSet(Below(S, k)) /\ Cardinality(Below(S, k)) \in Nat
         /\ Cardinality(Below(S, k + 1)) = IF k \in S THEN Cardinality(Below(S, k)) + 1
                                                     ELSE Cardinality(Below(S, k))
<1>1. IsFiniteSet(Below(S, k))
  BY FS_Subset DEF Below
<1>2. CASE k \in S
  <2>1. Below(S, k + 1) = Below(S, k) \cup {k} /\ k \notin Below(S, k)
    <3>1. \A g \in S : g < k + 1 <=> g < k \/ g = k
      OBVIOUS
    <3>2. ~(k < k) /\ \A g \in Below(S, k + 1) : g \in S /\ g < k + 1
      BY DEF Below
    <3>3. \A g : g \in Below(S, k + 1) <=> g \in Below(S, k) \/ g = k
      BY <1>2, <3>1 DEF Below
    <3>4. k \notin Below(S, k)
      BY <3>2 DEF Below
    <3> QED BY <3>3, <3>4
  <2> QED BY <1>1, <1>2, <2>1, FS_AddElement, FS_CardinalityType
<1>3. CASE k \notin S
  <2>1. Below(S, k + 1) = Below(S, k)
    <3>1. \A g \in S : g < k + 1 <=> g < k
      BY <1>3
    <3> QED BY <3>1 DEF Below
  <2> QED BY <1>1, <1>3, <2>1, FS_CardinalityType
<1> QED BY <1>2, <1>3

LEMMA NthExists ==
  ASSUME NEW b \in Nat, NEW S \in SUBSET (0 .. b), NEW n \in Nat, 1 <= n, n <= Cardinality(S)
  PROVE  \E f \in S : Cardinality(Below(S, f)) = n - 1
<1>1. S \in SUBSET Nat /\ IsFiniteSet(S)
  <2>1. 0 \in Int /\ b \in Int /\ 0 .. b \in SUBSET Nat
    OBVIOUS
  <2>2. IsFiniteSet(0 .. b)
    BY <2>1, FS_Interval
  <2> QED BY <2>1, <2>2, FS_Subset
<1> DEFINE K == { k \in Nat : Cardinality(Below(S, k)) >= n }
<1>2. b + 1 \in K
  <2>1. Below(S, b + 1) = S
    <3>1. \A g \in S : g < b + 1
      OBVIOUS
    <3> QED BY <3>1 DEF Below
  <2> QED BY <2>1
<1>3. PICK m \in K : \A k \in K : m <= k
  <2>1. K \in SUBSET Nat /\ K # {}
    BY <1>2
  <2> HIDE DEF K
  <2> QED BY <2>1, LeastNumber
<1>4. m # 0
  <2>1. Below(S, 0) = {}
    <3>1. \A g \in S : ~(g < 0)
      BY <1>1
    <3> QED BY <3>1 DEF Below
  <2>2. Cardinality(Below(S, 0)) = 0
    BY <2>1, FS_EmptySet
  <2> QED BY <1>3, <2>2
<1> DEFINE f == m - 1
<1>5. f \in Nat /\ f + 1 = m /\ f \notin K
  BY <1>3, <1>4
<1> HIDE DEF f
<1>6. Cardinality(Below(S, f)) \in Nat /\ Cardinality(Below(S, f)) < n
  BY <1>1, <1>5, BelowCounts
<1>7. Cardinality(Below(S, f + 1)) >= n
  BY <1>3, <1>5
<1>8. Cardinality(Below(S, f + 1)) = IF f \in S THEN Cardinality(Below(S, f)) + 1
                                               ELSE Cardinality(Below(S, f))
  BY <1>1, <1>5, BelowCounts
<1>9. f \in S /\ Cardinality(Below(S, f)) = n - 1
  BY <1>6, <1>7, <1>8
<1> QED BY <1>9

-------------------------------------------------------------------------------
(* The inductive invariant                                                 *)

Lives  == {"none", "open", "closed"}
Phases == {"none", "forked", "running", "twin", "gone"}

\* Streams that were never connected say 0 is theirs: what closes them also
\* closes the standard input.
Types ==
  /\ tab \in Tables
  /\ obj \in [Object -> Fd \cup {NoFd}]
  /\ streams \in [Call -> [life : Lives, ok : BOOLEAN, in : Fd, out : Fd, err : Fd]]
  /\ child \in [Call -> [phase : Phases, pipes : {<<>>} \cup [1 .. 6 -> Fd], tab : Tables]]
  /\ \A c \in Call : /\ child[c].phase = "forked" => child[c].pipes \in [1 .. 6 -> Fd]
                     /\ ~streams[c].ok => streams[c].in = 0
                     /\ streams[c].in # streams[c].out
                     /\ streams[c].in # streams[c].err
                     /\ streams[c].out # streams[c].err

\* OwnDescriptors, one owner and one descriptor at a time.
Others    == Fd \ Standard
IsOpen(c)    == streams[c].life = "open" /\ streams[c].ok
ObjectHas(s)  == obj[s] \in Others /\ tab[obj[s]] = File(s)
CallHas(c) ==
  /\ streams[c].in  \in Others /\ tab[streams[c].in]  = End(c, "out", "w")
  /\ streams[c].out \in Others /\ tab[streams[c].out] = End(c, "in", "r")
  /\ streams[c].err \in Others /\ tab[streams[c].err] = End(c, "err", "r")
HasOwner(f) ==
  \/ tab[f] \in {Closed, Lost}
  \/ \E s \in Live : obj[s] = f
  \/ \E c \in Call : IsOpen(c) /\ f \in {streams[c].in, streams[c].out, streams[c].err}
Owners == /\ \A s \in Live : ObjectHas(s)
          /\ \A c \in Call : IsOpen(c) => CallHas(c)
          /\ \A f \in Others : HasOwner(f)

\* What a child holds: its own pipes, and no other's end to write "in".
Before(p, t, c) == \A i \in 1 .. 6 : p[i] \in Others /\ t[p[i]] = Ends(c)[i]
After(t, c) == /\ t[0] = End(c, "out", "r")
               /\ t[1] = End(c, "in", "w")
               /\ t[2] = End(c, "err", "w")
NoOthers(t, c) == \A d \in Call \ {c} : \A f \in Fd : t[f] # End(d, "in", "w")
ChildOK(c) ==
  /\ child[c].phase = "forked" => Before(child[c].pipes, child[c].tab, c)
  /\ child[c].phase \in {"running", "twin"} => After(child[c].tab, c)
  /\ c \in Running => NoOthers(child[c].tab, c)

IInv == Types /\ (StandardOpen => Owners /\ \A c \in Call : ChildOK(c))

-------------------------------------------------------------------------------
(* Entries and tables                                                      *)

LEMMA Kinds ==
  ASSUME NEW s, NEW c, NEW pipe, NEW side
  PROVE  /\ Closed # Std /\ Closed # Lost /\ Std # Lost
         /\ File(s) \notin {Closed, Std, Lost} /\ End(c, pipe, side) \notin {Closed, Std, Lost}
         /\ File(s) # End(c, pipe, side)
BY DEF Closed, Std, Lost, File, End

LEMMA EndsDiffer ==
  ASSUME NEW c, NEW d, NEW p, NEW q, NEW a, NEW b, End(c, p, a) = End(d, q, b)
  PROVE  c = d /\ p = q /\ a = b
BY DEF End

LEMMA FilesDiffer ==
  ASSUME NEW s, NEW u, File(s) = File(u)
  PROVE  s = u
BY DEF File

LEMMA EndsAre ==
  ASSUME NEW c
  PROVE  /\ Ends(c)[1] = End(c, "in", "r")  /\ Ends(c)[2] = End(c, "in", "w")
         /\ Ends(c)[3] = End(c, "out", "r") /\ Ends(c)[4] = End(c, "out", "w")
         /\ Ends(c)[5] = End(c, "err", "r") /\ Ends(c)[6] = End(c, "err", "w")
         /\ \A i \in 1 .. 6 : Ends(c)[i] \notin {Closed, Std, Lost}
<1>1. /\ Ends(c)[1] = End(c, "in", "r")  /\ Ends(c)[2] = End(c, "in", "w")
      /\ Ends(c)[3] = End(c, "out", "r") /\ Ends(c)[4] = End(c, "out", "w")
      /\ Ends(c)[5] = End(c, "err", "r") /\ Ends(c)[6] = End(c, "err", "w")
  BY DEF Ends
<1>2. ASSUME NEW i \in 1 .. 6 PROVE Ends(c)[i] \notin {Closed, Std, Lost}
  <2>1. i = 1 \/ i = 2 \/ i = 3 \/ i = 4 \/ i = 5 \/ i = 6
    OBVIOUS
  <2> QED BY <1>1, <2>1, Kinds
<1> QED BY <1>1, <1>2

LEMMA FdFacts ==
  /\ Fd \subseteq Nat /\ Standard = {0, 1, 2} /\ Standard \subseteq Fd /\ 3 \in Fd
  /\ Others \subseteq Fd /\ NoFd \notin Fd
  /\ \A f \in Others : f # 0 /\ f # 1 /\ f # 2
BY FdAssumption DEF Fd, Standard, Others, NoFd

LEMMA FreeFacts ==
  ASSUME NEW t
  PROVE  Free(t) \in SUBSET (0 .. MaxFd) /\ IsFiniteSet(Free(t)) /\ Cardinality(Free(t)) \in Nat
<1>1. Free(t) \in SUBSET (0 .. MaxFd)
  BY DEF Free, Fd
<1>2. IsFiniteSet(0 .. MaxFd)
  <2>1. 0 \in Int /\ MaxFd \in Int
    BY FdAssumption
  <2> QED BY <2>1, FS_Interval
<1>3. IsFiniteSet(Free(t))
  BY <1>1, <1>2, FS_Subset
<1> QED BY <1>1, <1>3, FS_CardinalityType

\* The n-th closed descriptor is a closed descriptor, if there are that many.
LEMMA NthFreeOK ==
  ASSUME NEW t, NEW n \in Nat, 1 <= n, n <= Cardinality(Free(t))
  PROVE  /\ NthFree(t, n) \in Fd /\ t[NthFree(t, n)] = Closed
         /\ Cardinality(Below(Free(t), NthFree(t, n))) = n - 1
<1>1. \E f \in Free(t) : Cardinality(Below(Free(t), f)) = n - 1
  <2>1. MaxFd \in Nat /\ Free(t) \in SUBSET (0 .. MaxFd)
    BY FdAssumption, FreeFacts
  <2> QED BY <2>1, NthExists
<1>2. NthFree(t, n) = CHOOSE f \in Free(t) : Cardinality(Below(Free(t), f)) = n - 1
  BY DEF NthFree, Below
<1>3. NthFree(t, n) \in Free(t) /\ Cardinality(Below(Free(t), NthFree(t, n))) = n - 1
  BY <1>1, <1>2
<1> QED BY <1>3 DEF Free

LEMMA InstallOK ==
  ASSUME NEW t \in Tables, Free(t) # {}, NEW e \in Entries
  PROVE  LET f == NthFree(t, 1) IN
         /\ f \in Fd /\ t[f] = Closed
         /\ Install(t, e) \in Tables
         /\ \A g \in Fd : Install(t, e)[g] = IF g = f THEN e ELSE t[g]
<1>1. Cardinality(Free(t)) >= 1
  <2>1. Cardinality(Free(t)) # 0
    BY FreeFacts, FS_EmptySet
  <2> QED BY <2>1, FreeFacts
<1>2. NthFree(t, 1) \in Fd /\ t[NthFree(t, 1)] = Closed
  BY <1>1, NthFreeOK
<1> QED BY <1>2 DEF Install, Tables

\* pipe() three times gives six closed descriptors, all different.
LEMMA PipeFdsOK ==
  ASSUME NEW t, Cardinality(Free(t)) >= 6
  PROVE  /\ PipeFds(t) \in [1 .. 6 -> Fd]
         /\ \A i \in 1 .. 6 : t[PipeFds(t)[i]] = Closed
         /\ \A i, j \in 1 .. 6 : PipeFds(t)[i] = PipeFds(t)[j] => i = j
<1>1. ASSUME NEW i \in 1 .. 6
      PROVE  /\ PipeFds(t)[i] = NthFree(t, i) /\ NthFree(t, i) \in Fd /\ t[NthFree(t, i)] = Closed
             /\ Cardinality(Below(Free(t), NthFree(t, i))) = i - 1
  <2>1. i \in Nat /\ 1 <= i /\ i <= Cardinality(Free(t))
    BY FreeFacts
  <2> QED BY <2>1, NthFreeOK DEF PipeFds
<1>2. ASSUME NEW i \in 1 .. 6, NEW j \in 1 .. 6, PipeFds(t)[i] = PipeFds(t)[j] PROVE i = j
  <2>1. i - 1 = j - 1
    BY <1>1, <1>2
  <2> QED BY <2>1
<1>3. PipeFds(t) \in [1 .. 6 -> Fd]
  BY <1>1 DEF PipeFds
<1> QED BY <1>1, <1>2, <1>3

LEMMA PipedOK ==
  ASSUME NEW t \in Tables, NEW c \in Call, Cardinality(Free(t)) >= 6
  PROVE  LET p == PipeFds(t) IN
         /\ Piped(t, c) \in Tables
         /\ \A i \in 1 .. 6 : Piped(t, c)[p[i]] = Ends(c)[i]
         /\ \A f \in Fd : (\A i \in 1 .. 6 : p[i] # f) => Piped(t, c)[f] = t[f]
<1> DEFINE p == PipeFds(t)
<1>1. p \in [1 .. 6 -> Fd] /\ \A i, j \in 1 .. 6 : p[i] = p[j] => i = j
  BY PipeFdsOK
<1>2. Piped(t, c) = [f \in Fd |-> IF \E i \in 1 .. 6 : p[i] = f
                                  THEN Ends(c)[CHOOSE i \in 1 .. 6 : p[i] = f] ELSE t[f]]
  BY DEF Piped
<1> HIDE DEF p
<1>3. ASSUME NEW i \in 1 .. 6 PROVE Piped(t, c)[p[i]] = Ends(c)[i]
  <2>1. (CHOOSE j \in 1 .. 6 : p[j] = p[i]) = i
    BY <1>1
  <2> QED BY <1>1, <1>2, <2>1
<1>4. ASSUME NEW f \in Fd, \A i \in 1 .. 6 : p[i] # f PROVE Piped(t, c)[f] = t[f]
  BY <1>2, <1>4
<1>5. ASSUME NEW f \in Fd PROVE Piped(t, c)[f] \in Entries
  <2>1. CASE \E i \in 1 .. 6 : p[i] = f
    <3>1. PICK i \in 1 .. 6 : p[i] = f
      BY <2>1
    <3>2. Ends(c)[i] \in Entries
      BY DEF Entries
    <3> QED BY <1>3, <3>1, <3>2
  <2>2. CASE ~ \E i \in 1 .. 6 : p[i] = f
    BY <1>4, <2>2 DEF Tables
  <2> QED BY <2>1, <2>2
<1>6. Piped(t, c) \in Tables
  BY <1>2, <1>5 DEF Tables
<1> QED BY <1>3, <1>4, <1>6 DEF p

LEMMA DropOK ==
  ASSUME NEW t \in Tables, NEW fs
  PROVE  /\ Drop(t, fs) \in Tables
         /\ \A f \in Fd : Drop(t, fs)[f] = IF f \in fs THEN Closed ELSE t[f]
BY DEF Drop, Tables, Entries

LEMMA Dup2OK ==
  ASSUME NEW t \in Tables, NEW f \in Fd, NEW g \in Fd
  PROVE  /\ Dup2(t, f, g) \in Tables
         /\ \A h \in Fd : Dup2(t, f, g)[h] = IF h = g /\ t[f] # Closed THEN t[f] ELSE t[h]
BY DEF Dup2, Tables

\* A child puts its pipes where its program expects them, and keeps none of
\* the caller's ends.
LEMMA ConnectedOK ==
  ASSUME NEW t \in Tables, NEW p \in [1 .. 6 -> Fd], NEW c
  PROVE  /\ Connected(t, p) \in Tables
         /\ Before(p, t, c) => After(Connected(t, p), c)
         /\ NoOthers(t, c) => NoOthers(Connected(t, p), c)
<1> DEFINE t0 == Dup2(t, p[3], 0)
           t1 == Dup2(t0, p[2], 1)
           t2 == Dup2(t1, p[6], 2)
           t3 == Drop(t2, {p[4], p[1], p[5]})
<1>1. /\ p[1] \in Fd /\ p[2] \in Fd /\ p[3] \in Fd /\ p[4] \in Fd /\ p[5] \in Fd /\ p[6] \in Fd
      /\ 0 \in Fd /\ 1 \in Fd /\ 2 \in Fd
  BY FdFacts
<1>2. t0 \in Tables /\ \A h \in Fd : t0[h] = IF h = 0 /\ t[p[3]] # Closed THEN t[p[3]] ELSE t[h]
  BY <1>1, Dup2OK
<1> HIDE DEF t0
<1>3. t1 \in Tables /\ \A h \in Fd : t1[h] = IF h = 1 /\ t0[p[2]] # Closed THEN t0[p[2]] ELSE t0[h]
  BY <1>1, <1>2, Dup2OK
<1> HIDE DEF t1
<1>4. t2 \in Tables /\ \A h \in Fd : t2[h] = IF h = 2 /\ t1[p[6]] # Closed THEN t1[p[6]] ELSE t1[h]
  BY <1>1, <1>3, Dup2OK
<1> HIDE DEF t2
<1>5. t3 \in Tables /\ \A h \in Fd : t3[h] = IF h \in {p[4], p[1], p[5]} THEN Closed ELSE t2[h]
  BY <1>1, <1>4, DropOK
<1>6. t3 = Connected(t, p)
  BY DEF Connected, t0, t1, t2
<1> HIDE DEF t3
<1>7. ASSUME Before(p, t, c) PROVE After(t3, c)
  <2>1. \A i \in 1 .. 6 : p[i] # 0 /\ p[i] # 1 /\ p[i] # 2
    BY <1>7, FdFacts DEF Before
  <2>2. t[p[3]] = End(c, "out", "r") /\ t[p[2]] = End(c, "in", "w") /\ t[p[6]] = End(c, "err", "w")
    BY <1>7, EndsAre DEF Before
  <2>3. t0[0] = End(c, "out", "r") /\ t0[p[2]] = End(c, "in", "w") /\ t0[p[6]] = End(c, "err", "w")
    BY <1>1, <1>2, <2>1, <2>2, Kinds
  <2>4. t1[0] = End(c, "out", "r") /\ t1[1] = End(c, "in", "w") /\ t1[p[6]] = End(c, "err", "w")
    BY <1>1, <1>3, <2>1, <2>3, Kinds
  <2>5. t2[0] = End(c, "out", "r") /\ t2[1] = End(c, "in", "w") /\ t2[2] = End(c, "err", "w")
    BY <1>1, <1>4, <2>1, <2>4, Kinds
  <2>6. t3[0] = t2[0] /\ t3[1] = t2[1] /\ t3[2] = t2[2]
    BY <1>1, <1>5, <2>1
  <2> QED BY <2>5, <2>6 DEF After
<1>8. ASSUME NoOthers(t, c) PROVE NoOthers(t3, c)
  <2> SUFFICES ASSUME NEW d \in Call \ {c}, NEW f \in Fd PROVE t3[f] # End(d, "in", "w")
    BY DEF NoOthers
  <2>1. \A h \in Fd : t[h] # End(d, "in", "w")
    BY <1>8 DEF NoOthers
  <2>2. \A h \in Fd : t0[h] # End(d, "in", "w")
    BY <1>1, <1>2, <2>1
  <2>3. \A h \in Fd : t1[h] # End(d, "in", "w")
    BY <1>1, <1>3, <2>2
  <2>4. \A h \in Fd : t2[h] # End(d, "in", "w")
    BY <1>1, <1>4, <2>3
  <2> QED BY <1>5, <2>4, Kinds
<1> QED BY <1>5, <1>6, <1>7, <1>8

-------------------------------------------------------------------------------
(* The invariant holds at the start, and every step keeps it.              *)

LEMMA InitIInv == Init => IInv
<1> SUFFICES ASSUME Init PROVE IInv
  OBVIOUS
<1>1. /\ AtStart \in Tables
      /\ \A f \in Fd : AtStart[f] = IF f \in Standard THEN Std ELSE Closed
  BY DEF AtStart, Tables, Entries
<1>2. runAsAService(AtStart) \in Tables
      /\ \A f \in Fd : runAsAService(AtStart)[f] = Closed
  <2>1. /\ Drop(AtStart, Standard) \in Tables
        /\ \A f \in Fd : Drop(AtStart, Standard)[f] = IF f \in Standard THEN Closed ELSE AtStart[f]
    BY <1>1, DropOK
  <2> QED BY <1>1, <2>1 DEF runAsAService
<1>3. tab \in Tables /\ \A f \in Others : tab[f] = Closed
  BY <1>1, <1>2, FdFacts DEF Init, Others
<1>4. \A c \in Call : streams[c] = NoStreams /\ child[c] = NoChild
  BY DEF Init, ProcessInit
<1>5. Types
  <2>1. NoStreams \in [life : Lives, ok : BOOLEAN, in : Fd, out : Fd, err : Fd]
    BY FdFacts, FdAssumption DEF NoStreams, Lives, Fd
  <2>2. NoChild \in [phase : Phases, pipes : {<<>>} \cup [1 .. 6 -> Fd], tab : Tables]
    BY DEF NoChild, Phases, Tables, Entries
  <2>3. /\ streams \in [Call -> [life : Lives, ok : BOOLEAN, in : Fd, out : Fd, err : Fd]]
        /\ child \in [Call -> [phase : Phases, pipes : {<<>>} \cup [1 .. 6 -> Fd], tab : Tables]]
    BY <2>1, <2>2 DEF Init, ProcessInit
  <2>4. obj \in [Object -> Fd \cup {NoFd}]
    BY DEF Init, SocketsInit
  <2> QED BY <1>3, <1>4, <2>3, <2>4 DEF Types, NoStreams, NoChild
<1>6. Live = {} /\ \A c \in Call : ~IsOpen(c) /\ c \notin Running /\ child[c].phase = "none"
  BY <1>4 DEF Init, SocketsInit, Live, IsOpen, NoStreams, NoChild, Running
<1>7. Owners
  BY <1>3, <1>6 DEF Owners, HasOwner
<1>8. \A c \in Call : ChildOK(c)
  BY <1>6 DEF ChildOK
<1> QED BY <1>5, <1>7, <1>8 DEF IInv

\* A step that does not touch the children keeps what they hold.
LEMMA SameChildren ==
  ASSUME child' = child, \A c \in Call : ChildOK(c)
  PROVE  \A c \in Call : ChildOK(c)'
BY DEF ChildOK, Running

LEMMA ConstructOK ==
  ASSUME IInv, NEW s \in Object, Construct(s), UNCHANGED <<streams, child>>
  PROVE  IInv'
<1> DEFINE f == NthFree(tab, 1)
<1>1. tab \in Tables /\ Free(tab) # {} /\ s \notin Live /\ tab' = Install(tab, File(s))
      /\ obj' = [obj EXCEPT ![s] = f] /\ obj \in [Object -> Fd \cup {NoFd}]
      /\ streams' = streams /\ child' = child
  BY DEF Construct, IInv, Types
<1>2. /\ f \in Fd /\ tab[f] = Closed /\ tab' \in Tables
      /\ \A g \in Fd : tab'[g] = IF g = f THEN File(s) ELSE tab[g]
  <2>1. File(s) \in Entries
    BY DEF Entries
  <2> QED BY <1>1, <2>1, InstallOK
<1> HIDE DEF f
<1>3. Types'
  BY <1>1, <1>2 DEF IInv, Types
<1>4. ASSUME StandardOpen' PROVE Owners' /\ \A c \in Call : ChildOK(c)'
  <2>1. StandardOpen /\ f \in Others
    BY <1>2, <1>4, FdFacts, Kinds DEF StandardOpen, Others
  <2>2. Owners /\ \A c \in Call : ChildOK(c)
    BY <2>1 DEF IInv
  <2>3. obj'[s] = f /\ \A u \in Object : u # s => obj'[u] = obj[u]
    BY <1>1
  <2>4. ASSUME NEW u \in Live' PROVE ObjectHas(u)'
    <3>1. CASE u = s
      BY <1>2, <2>1, <2>3, <3>1 DEF ObjectHas
    <3>2. CASE u # s
      <4>1. u \in Live /\ obj'[u] = obj[u]
        BY <2>3, <3>2 DEF Live
      <4>2. obj[u] \in Others /\ tab[obj[u]] = File(u)
        BY <2>2, <4>1 DEF Owners, ObjectHas
      <4>3. obj[u] # f
        BY <1>2, <4>2, Kinds
      <4> QED BY <1>2, <4>1, <4>2, <4>3, FdFacts DEF ObjectHas
    <3> QED BY <3>1, <3>2
  <2>5. ASSUME NEW c \in Call, IsOpen(c)' PROVE CallHas(c)'
    <3>1. CallHas(c)
      BY <1>1, <2>2, <2>5 DEF Owners, IsOpen
    <3>2. streams[c].in # f /\ streams[c].out # f /\ streams[c].err # f
      BY <1>2, <3>1, Kinds DEF CallHas
    <3> QED BY <1>1, <1>2, <3>1, <3>2, FdFacts DEF CallHas
  <2>6. ASSUME NEW g \in Others PROVE HasOwner(g)'
    <3>1. CASE g = f
      <4>1. s \in Live'
        BY <1>2, <2>3, FdFacts DEF Live
      <4> QED BY <2>3, <3>1, <4>1 DEF HasOwner
    <3>2. CASE g # f
      <4>1. tab'[g] = tab[g] /\ HasOwner(g)
        BY <1>2, <2>2, <3>2, FdFacts DEF Owners
      <4>2. ASSUME NEW u \in Live, obj[u] = g PROVE u \in Live' /\ obj'[u] = g
        BY <1>1, <2>3, <4>2 DEF Live
      <4> QED BY <1>1, <4>1, <4>2 DEF HasOwner, IsOpen
    <3> QED BY <3>1, <3>2
  <2> QED BY <1>1, <2>2, <2>4, <2>5, <2>6, SameChildren DEF Owners
<1> QED BY <1>3, <1>4 DEF IInv

LEMMA ConstructThrowsOK ==
  ASSUME IInv, ConstructThrows, UNCHANGED <<streams, child>>
  PROVE  IInv'
<1> DEFINE f == NthFree(tab, 1)
<1>1. tab \in Tables /\ Free(tab) # {} /\ tab' = Install(tab, Lost) /\ obj' = obj
      /\ streams' = streams /\ child' = child
  BY DEF ConstructThrows, IInv, Types
<1>2. /\ f \in Fd /\ tab[f] = Closed /\ tab' \in Tables
      /\ \A g \in Fd : tab'[g] = IF g = f THEN Lost ELSE tab[g]
  <2>1. Lost \in Entries
    BY DEF Entries
  <2> QED BY <1>1, <2>1, InstallOK
<1> HIDE DEF f
<1>3. Types'
  BY <1>1, <1>2 DEF IInv, Types
<1>4. ASSUME StandardOpen' PROVE Owners' /\ \A c \in Call : ChildOK(c)'
  <2>1. StandardOpen
    BY <1>2, <1>4, FdFacts, Kinds DEF StandardOpen
  <2>2. Owners /\ \A c \in Call : ChildOK(c)
    BY <2>1 DEF IInv
  <2>3. Live' = Live
    BY <1>1 DEF Live
  <2>4. ASSUME NEW u \in Live' PROVE ObjectHas(u)'
    <3>1. ObjectHas(u)
      BY <2>2, <2>3, <2>4 DEF Owners
    <3>2. obj[u] # f
      BY <1>2, <3>1, Kinds DEF ObjectHas
    <3> QED BY <1>1, <1>2, <3>1, <3>2, FdFacts DEF ObjectHas
  <2>5. ASSUME NEW c \in Call, IsOpen(c)' PROVE CallHas(c)'
    <3>1. CallHas(c)
      BY <1>1, <2>2, <2>5 DEF Owners, IsOpen
    <3>2. streams[c].in # f /\ streams[c].out # f /\ streams[c].err # f
      BY <1>2, <3>1, Kinds DEF CallHas
    <3> QED BY <1>1, <1>2, <3>1, <3>2, FdFacts DEF CallHas
  <2>6. ASSUME NEW g \in Others PROVE HasOwner(g)'
    <3>1. HasOwner(g) /\ tab'[g] = IF g = f THEN Lost ELSE tab[g]
      BY <1>2, <2>2, FdFacts DEF Owners
    <3> QED BY <1>1, <2>3, <3>1 DEF HasOwner, IsOpen
  <2> QED BY <1>1, <2>2, <2>4, <2>5, <2>6, SameChildren DEF Owners
<1> QED BY <1>3, <1>4 DEF IInv

LEMMA DestroyOK ==
  ASSUME IInv, NEW s \in Object, Destroy(s), UNCHANGED <<streams, child>>
  PROVE  IInv'
<1> DEFINE f == obj[s]
<1>1. tab \in Tables /\ s \in Live /\ tab' = Drop(tab, {f} \ {0})
      /\ obj' = [obj EXCEPT ![s] = NoFd] /\ obj \in [Object -> Fd \cup {NoFd}]
      /\ streams' = streams /\ child' = child
  BY DEF Destroy, IInv, Types
<1>2. /\ tab' \in Tables
      /\ \A g \in Fd : tab'[g] = IF g \in {f} \ {0} THEN Closed ELSE tab[g]
  BY <1>1, DropOK
<1>3. Types'
  BY <1>1, <1>2 DEF IInv, Types
<1>4. ASSUME StandardOpen' PROVE Owners' /\ \A c \in Call : ChildOK(c)'
  <2>1. StandardOpen
    BY <1>2, <1>4, FdFacts, Kinds DEF StandardOpen
  <2>2. Owners /\ \A c \in Call : ChildOK(c)
    BY <2>1 DEF IInv
  <2>3. f \in Others /\ tab[f] = File(s) /\ f # 0
    BY <1>1, <2>2, FdFacts DEF Owners, ObjectHas
  <2>4. obj'[s] = NoFd /\ \A u \in Object : u # s => obj'[u] = obj[u]
    BY <1>1
  <2> HIDE DEF f
  <2>5. ASSUME NEW u \in Live' PROVE ObjectHas(u)'
    <3>1. u # s /\ u \in Live /\ obj'[u] = obj[u]
      BY <2>4 DEF Live
    <3>2. ObjectHas(u)
      BY <2>2, <3>1 DEF Owners
    <3>3. obj[u] # f
      BY <2>3, <3>1, <3>2, FilesDiffer DEF ObjectHas
    <3> QED BY <1>2, <3>1, <3>2, <3>3, FdFacts DEF ObjectHas
  <2>6. ASSUME NEW c \in Call, IsOpen(c)' PROVE CallHas(c)'
    <3>1. CallHas(c)
      BY <1>1, <2>2, <2>6 DEF Owners, IsOpen
    <3>2. streams[c].in # f /\ streams[c].out # f /\ streams[c].err # f
      BY <2>3, <3>1, Kinds DEF CallHas
    <3> QED BY <1>1, <1>2, <3>1, <3>2, FdFacts DEF CallHas
  <2>7. ASSUME NEW g \in Others PROVE HasOwner(g)'
    <3>1. CASE g = f
      BY <1>2, <2>3, <3>1, FdFacts DEF HasOwner
    <3>2. CASE g # f
      <4>1. tab'[g] = tab[g] /\ HasOwner(g)
        BY <1>2, <2>2, <3>2, FdFacts DEF Owners
      <4>2. ASSUME NEW u \in Live, obj[u] = g PROVE u \in Live' /\ obj'[u] = g
        BY <2>4, <3>2, <4>2 DEF Live, f
      <4> QED BY <1>1, <4>1, <4>2 DEF HasOwner, IsOpen
    <3> QED BY <3>1, <3>2
  <2> QED BY <1>1, <2>2, <2>5, <2>6, <2>7, SameChildren DEF Owners
<1> QED BY <1>3, <1>4 DEF IInv

\* The program itself has no end to write a child's output.
LEMMA NoWriteEnd ==
  ASSUME StandardOpen, Owners, NEW f \in Fd, NEW d
  PROVE  tab[f] # End(d, "in", "w")
<1>1. CASE f \in Standard
  BY <1>1, Kinds DEF StandardOpen
<1>2. CASE f \in Others
  <2>1. HasOwner(f)
    BY <1>2 DEF Owners
  <2>2. CASE tab[f] \in {Closed, Lost}
    BY <2>2, Kinds
  <2>3. CASE \E s \in Live : obj[s] = f
    BY <2>3, Kinds DEF Owners, ObjectHas
  <2>4. CASE \E c \in Call : IsOpen(c) /\ f \in {streams[c].in, streams[c].out, streams[c].err}
    <3>1. PICK c \in Call : IsOpen(c) /\ f \in {streams[c].in, streams[c].out, streams[c].err}
      BY <2>4
    <3>2. CallHas(c)
      BY <3>1 DEF Owners
    <3>3. tab[f] \in {End(c, "out", "w"), End(c, "in", "r"), End(c, "err", "r")}
      BY <3>1, <3>2 DEF CallHas
    <3>4. "out" # "in" /\ "r" # "w"
      OBVIOUS
    <3> QED BY <3>3, <3>4, EndsDiffer
  <2> QED BY <2>1, <2>2, <2>3, <2>4 DEF HasOwner
<1> QED BY <1>1, <1>2 DEF Others

LEMMA RunOK ==
  ASSUME IInv, NEW c \in Call, Run(c), UNCHANGED obj
  PROVE  IInv'
<1> DEFINE p == PipeFds(tab)
           t == Piped(tab, c)
<1>1. /\ tab \in Tables /\ streams[c] = NoStreams /\ Cardinality(Free(tab)) >= 6
      /\ tab' = Drop(t, {p[3], p[2], p[6]})
      /\ streams' = [streams EXCEPT ![c] = [life |-> "open", ok |-> TRUE,
                                            in |-> p[4], out |-> p[1], err |-> p[5]]]
      /\ child' = [child EXCEPT ![c] = [phase |-> "forked", pipes |-> p, tab |-> t]]
      /\ obj' = obj /\ Types
  BY DEF Run, CanRun, NotTheParents, IInv, Types
<1>2. /\ p \in [1 .. 6 -> Fd]
      /\ \A i \in 1 .. 6 : tab[p[i]] = Closed
      /\ \A i, j \in 1 .. 6 : p[i] = p[j] => i = j
  BY <1>1, PipeFdsOK
<1>3. /\ t \in Tables
      /\ \A i \in 1 .. 6 : t[p[i]] = Ends(c)[i]
      /\ \A f \in Fd : (\A i \in 1 .. 6 : p[i] # f) => t[f] = tab[f]
  BY <1>1, PipedOK
<1> HIDE DEF p, t
<1>4. /\ tab' \in Tables
      /\ \A f \in Fd : tab'[f] = IF f \in {p[3], p[2], p[6]} THEN Closed ELSE t[f]
  BY <1>1, <1>3, DropOK
<1>5. /\ p[1] \in Fd /\ p[2] \in Fd /\ p[3] \in Fd /\ p[4] \in Fd /\ p[5] \in Fd /\ p[6] \in Fd
      /\ p[1] \notin {p[3], p[2], p[6]} /\ p[4] \notin {p[3], p[2], p[6]}
      /\ p[5] \notin {p[3], p[2], p[6]}
      /\ p[4] # p[1] /\ p[4] # p[5] /\ p[1] # p[5]
  BY <1>2
<1>6. tab'[p[4]] = End(c, "out", "w") /\ tab'[p[1]] = End(c, "in", "r")
      /\ tab'[p[5]] = End(c, "err", "r")
  BY <1>3, <1>4, <1>5, EndsAre
<1>7. /\ \A d \in Call : d # c => streams'[d] = streams[d] /\ child'[d] = child[d]
      /\ streams'[c] = [life |-> "open", ok |-> TRUE, in |-> p[4], out |-> p[1], err |-> p[5]]
      /\ child'[c] = [phase |-> "forked", pipes |-> p, tab |-> t]
  BY <1>1 DEF Types
<1>8. Types'
  <2>1. /\ streams'[c] \in [life : Lives, ok : BOOLEAN, in : Fd, out : Fd, err : Fd]
        /\ child'[c] \in [phase : Phases, pipes : {<<>>} \cup [1 .. 6 -> Fd], tab : Tables]
    BY <1>2, <1>3, <1>5, <1>7 DEF Lives, Phases
  <2>2. /\ streams' \in [Call -> [life : Lives, ok : BOOLEAN, in : Fd, out : Fd, err : Fd]]
        /\ child' \in [Call -> [phase : Phases, pipes : {<<>>} \cup [1 .. 6 -> Fd], tab : Tables]]
    BY <1>1, <1>7, <2>1 DEF Types
  <2>3. ASSUME NEW d \in Call
        PROVE  /\ child'[d].phase = "forked" => child'[d].pipes \in [1 .. 6 -> Fd]
               /\ ~streams'[d].ok => streams'[d].in = 0
               /\ streams'[d].in # streams'[d].out /\ streams'[d].in # streams'[d].err
               /\ streams'[d].out # streams'[d].err
    <3>1. CASE d = c
      BY <1>2, <1>5, <1>7, <3>1
    <3>2. CASE d # c
      BY <1>1, <1>7, <3>2 DEF Types
    <3> QED BY <3>1, <3>2
  <2> QED BY <1>1, <1>4, <2>2, <2>3 DEF Types
<1>9. ASSUME StandardOpen' PROVE Owners' /\ \A d \in Call : ChildOK(d)'
  <2>1. ASSUME NEW i \in 1 .. 6 PROVE p[i] \in Others
    <3>1. tab'[p[i]] \in {Closed, Ends(c)[i]} /\ p[i] \in Fd
      BY <1>2, <1>3, <1>4
    <3>2. tab'[p[i]] # Std
      BY <3>1, Kinds, EndsAre
    <3> QED BY <1>9, <3>1, <3>2 DEF StandardOpen, Others
  <2>2. StandardOpen
    <3> SUFFICES ASSUME NEW f \in Standard PROVE tab[f] = Std
      BY DEF StandardOpen
    <3>1. f \in Fd /\ \A i \in 1 .. 6 : p[i] # f
      BY <2>1, FdFacts DEF Others
    <3>2. t[f] = tab[f] /\ tab'[f] = t[f]
      BY <1>3, <1>4, <3>1
    <3> QED BY <1>9, <3>2 DEF StandardOpen
  <2>3. Owners /\ \A d \in Call : ChildOK(d)
    BY <2>2 DEF IInv
  <2>4. ~IsOpen(c)
    BY <1>1 DEF IsOpen, NoStreams
  <2>5. ASSUME NEW f \in Fd, tab[f] # Closed PROVE tab'[f] = tab[f]
    <3>1. \A i \in 1 .. 6 : p[i] # f
      BY <1>2, <2>5
    <3> QED BY <1>3, <1>4, <3>1
  <2>6. Live' = Live
    BY <1>1 DEF Live
  <2>7. ASSUME NEW u \in Live' PROVE ObjectHas(u)'
    <3>1. obj[u] \in Others /\ tab[obj[u]] = File(u)
      BY <2>3, <2>6 DEF Owners, ObjectHas
    <3>2. tab'[obj[u]] = File(u)
      BY <2>5, <3>1, FdFacts, Kinds
    <3> QED BY <1>1, <3>1, <3>2 DEF ObjectHas
  <2>8. ASSUME NEW d \in Call, IsOpen(d)' PROVE CallHas(d)'
    <3>1. CASE d = c
      <4>1. p[4] \in Others /\ p[1] \in Others /\ p[5] \in Others
        BY <2>1
      <4> QED BY <1>6, <1>7, <3>1, <4>1 DEF CallHas
    <3>2. CASE d # c
      <4>1. streams'[d] = streams[d] /\ CallHas(d)
        BY <1>7, <2>3, <2>8, <3>2 DEF IsOpen, Owners
      <4>2. /\ tab[streams[d].in] # Closed /\ tab[streams[d].out] # Closed
            /\ tab[streams[d].err] # Closed
            /\ streams[d].in \in Fd /\ streams[d].out \in Fd /\ streams[d].err \in Fd
        BY <4>1, FdFacts, Kinds DEF CallHas
      <4>3. /\ tab'[streams[d].in] = tab[streams[d].in] /\ tab'[streams[d].out] = tab[streams[d].out]
            /\ tab'[streams[d].err] = tab[streams[d].err]
        BY <2>5, <4>2
      <4> QED BY <4>1, <4>3 DEF CallHas
    <3> QED BY <3>1, <3>2
  <2>9. ASSUME NEW f \in Others PROVE HasOwner(f)'
    <3>1. CASE f \in {p[4], p[1], p[5]}
      <4>1. IsOpen(c)' /\ f \in {streams'[c].in, streams'[c].out, streams'[c].err}
        BY <1>7, <3>1 DEF IsOpen
      <4> QED BY <4>1 DEF HasOwner
    <3>2. CASE f \in {p[3], p[2], p[6]}
      BY <1>4, <3>2, FdFacts DEF HasOwner
    <3>3. CASE f \notin {p[4], p[1], p[5]} /\ f \notin {p[3], p[2], p[6]}
      <4>1. \A i \in 1 .. 6 : i = 1 \/ i = 2 \/ i = 3 \/ i = 4 \/ i = 5 \/ i = 6
        OBVIOUS
      <4>2. \A i \in 1 .. 6 : p[i] # f
        BY <3>3, <4>1
      <4>3. tab'[f] = tab[f] /\ HasOwner(f)
        BY <1>3, <1>4, <2>3, <4>2, FdFacts DEF Owners
      <4>4. CASE \E d \in Call : IsOpen(d) /\ f \in {streams[d].in, streams[d].out, streams[d].err}
        <5>1. PICK d \in Call : IsOpen(d) /\ f \in {streams[d].in, streams[d].out, streams[d].err}
          BY <4>4
        <5>2. streams'[d] = streams[d]
          BY <1>7, <2>4, <5>1
        <5> QED BY <5>1, <5>2 DEF HasOwner, IsOpen
      <4> QED BY <1>1, <2>6, <4>3, <4>4 DEF HasOwner
    <3> QED BY <3>1, <3>2, <3>3
  <2>10. ASSUME NEW d \in Call PROVE ChildOK(d)'
    <3>1. CASE d # c
      <4>1. child'[d] = child[d] /\ ChildOK(d)
        BY <1>7, <2>3, <3>1
      <4> QED BY <4>1 DEF ChildOK, Running
    <3>2. CASE d = c
      <4>1. Before(p, t, c)
        BY <1>3, <2>1 DEF Before
      <4>2. NoOthers(t, c)
        <5> SUFFICES ASSUME NEW e \in Call \ {c}, NEW f \in Fd PROVE t[f] # End(e, "in", "w")
          BY DEF NoOthers
        <5>1. CASE \E i \in 1 .. 6 : p[i] = f
          <6>1. PICK i \in 1 .. 6 : t[f] = Ends(c)[i]
            BY <1>3, <5>1
          <6>2. i = 1 \/ i = 2 \/ i = 3 \/ i = 4 \/ i = 5 \/ i = 6
            OBVIOUS
          <6>3. \E pipe, side : t[f] = End(c, pipe, side)
            BY <6>1, <6>2, EndsAre
          <6> QED BY <6>3, EndsDiffer
        <5>2. CASE \A i \in 1 .. 6 : p[i] # f
          BY <1>3, <2>2, <2>3, <5>2, NoWriteEnd
        <5> QED BY <5>1, <5>2
      <4>3. child'[d].phase = "forked" /\ child'[d].pipes = p /\ child'[d].tab = t
        BY <1>7, <3>2
      <4> QED BY <3>2, <4>1, <4>2, <4>3 DEF ChildOK
    <3> QED BY <3>1, <3>2
  <2> QED BY <2>7, <2>8, <2>9, <2>10 DEF Owners
<1> QED BY <1>8, <1>9 DEF IInv


LEMMA ForkFailsOK ==
  ASSUME IInv, NEW c \in Call, ForkFails(c), UNCHANGED obj
  PROVE  IInv'
<1> DEFINE p == PipeFds(tab)
<1>1. /\ tab \in Tables /\ streams[c] = NoStreams /\ Cardinality(Free(tab)) >= 6
      /\ tab' = [f \in Fd |-> IF f \in { p[i] : i \in 1 .. 6 } THEN Lost ELSE tab[f]]
      /\ streams' = [streams EXCEPT ![c].life = "open"]
      /\ child' = child /\ obj' = obj /\ Types
  BY DEF ForkFails, CanRun, IInv, Types
<1>2. p \in [1 .. 6 -> Fd] /\ \A i \in 1 .. 6 : tab[p[i]] = Closed
  BY <1>1, PipeFdsOK
<1> HIDE DEF p
<1>3. /\ tab' \in Tables
      /\ \A f \in Fd : tab[f] = Closed => tab'[f] \in {Closed, Lost}
      /\ \A f \in Fd : tab[f] # Closed => tab'[f] = tab[f]
  <2>1. Lost \in Entries
    BY DEF Entries
  <2> QED BY <1>1, <1>2, <2>1 DEF Tables
<1>4. /\ \A d \in Call : d # c => streams'[d] = streams[d]
      /\ streams'[c] = [streams[c] EXCEPT !.life = "open"]
      /\ streams[c] \in [life : Lives, ok : BOOLEAN, in : Fd, out : Fd, err : Fd]
  BY <1>1 DEF Types
<1>5. Types'
  <2>1. streams'[c] \in [life : Lives, ok : BOOLEAN, in : Fd, out : Fd, err : Fd]
    BY <1>1, <1>4 DEF Lives, Types
  <2>2. streams' \in [Call -> [life : Lives, ok : BOOLEAN, in : Fd, out : Fd, err : Fd]]
    BY <1>1, <1>4, <2>1 DEF Types
  <2>3. ASSUME NEW d \in Call
        PROVE  /\ ~streams'[d].ok => streams'[d].in = 0
               /\ streams'[d].in # streams'[d].out /\ streams'[d].in # streams'[d].err
               /\ streams'[d].out # streams'[d].err
    <3>1. CASE d = c
      <4>1. /\ streams'[c].in = streams[c].in /\ streams'[c].out = streams[c].out
            /\ streams'[c].err = streams[c].err /\ streams'[c].ok = streams[c].ok
        BY <1>4
      <4> QED BY <1>1, <3>1, <4>1 DEF Types
    <3>2. CASE d # c
      BY <1>1, <1>4, <3>2 DEF Types
    <3> QED BY <3>1, <3>2
  <2> QED BY <1>1, <1>3, <2>2, <2>3 DEF Types
<1>6. ASSUME StandardOpen' PROVE Owners' /\ \A d \in Call : ChildOK(d)'
  <2>1. StandardOpen
    <3> SUFFICES ASSUME NEW f \in Standard PROVE tab[f] = Std
      BY DEF StandardOpen
    <3>1. tab'[f] = Std /\ f \in Fd
      BY <1>6, FdFacts DEF StandardOpen
    <3> QED BY <1>3, <3>1, Kinds
  <2>2. Owners /\ \A d \in Call : ChildOK(d)
    BY <2>1 DEF IInv
  <2>3. \A d \in Call : IsOpen(d)' <=> IsOpen(d)
    <3>1. ~IsOpen(c) /\ ~IsOpen(c)'
      BY <1>1, <1>4 DEF IsOpen, NoStreams
    <3> QED BY <1>4, <3>1 DEF IsOpen
  <2>4. Live' = Live
    BY <1>1 DEF Live
  <2>5. ASSUME NEW u \in Live' PROVE ObjectHas(u)'
    <3>1. obj[u] \in Others /\ tab[obj[u]] = File(u)
      BY <2>2, <2>4 DEF Owners, ObjectHas
    <3> QED BY <1>1, <1>3, <3>1, FdFacts, Kinds DEF ObjectHas
  <2>6. \A d \in Call : IsOpen(d) => d # c
    BY <1>1 DEF IsOpen, NoStreams
  <2>7. ASSUME NEW d \in Call, IsOpen(d)' PROVE CallHas(d)'
    <3>1. CallHas(d) /\ streams'[d] = streams[d]
      BY <1>4, <2>2, <2>3, <2>6, <2>7 DEF Owners
    <3>2. /\ tab[streams[d].in] # Closed /\ tab[streams[d].out] # Closed
          /\ tab[streams[d].err] # Closed
          /\ streams[d].in \in Fd /\ streams[d].out \in Fd /\ streams[d].err \in Fd
      BY <3>1, FdFacts, Kinds DEF CallHas
    <3>3. /\ tab'[streams[d].in] = tab[streams[d].in] /\ tab'[streams[d].out] = tab[streams[d].out]
          /\ tab'[streams[d].err] = tab[streams[d].err]
      BY <1>3, <3>2
    <3> QED BY <3>1, <3>3 DEF CallHas
  <2>8. ASSUME NEW f \in Others PROVE HasOwner(f)'
    <3>1. HasOwner(f) /\ f \in Fd
      BY <2>2, FdFacts DEF Owners
    <3>2. CASE tab[f] = Closed
      BY <1>3, <3>1, <3>2 DEF HasOwner
    <3>3. CASE tab[f] # Closed
      <4>1. tab'[f] = tab[f]
        BY <1>3, <3>1, <3>3
      <4>2. CASE \E d \in Call : IsOpen(d) /\ f \in {streams[d].in, streams[d].out, streams[d].err}
        <5>1. PICK d \in Call : IsOpen(d) /\ f \in {streams[d].in, streams[d].out, streams[d].err}
          BY <4>2
        <5>2. streams'[d] = streams[d] /\ IsOpen(d)'
          BY <1>4, <2>3, <2>6, <5>1
        <5> QED BY <5>1, <5>2 DEF HasOwner
      <4> QED BY <1>1, <2>4, <3>1, <4>1, <4>2 DEF HasOwner
    <3> QED BY <3>2, <3>3
  <2> QED BY <1>1, <2>2, <2>5, <2>7, <2>8, SameChildren DEF Owners
<1> QED BY <1>5, <1>6 DEF IInv

\* Streams that fork has not connected close the standard input with them.
LEMMA ReleaseOK ==
  ASSUME IInv, NEW c \in Call, Release(c), UNCHANGED obj
  PROVE  IInv'
<1> DEFINE fs == {streams[c].in, streams[c].out, streams[c].err}
<1>1. /\ tab \in Tables /\ streams[c].life = "open" /\ tab' = Drop(tab, fs)
      /\ streams' = [streams EXCEPT ![c].life = "closed"]
      /\ child' = child /\ obj' = obj /\ Types
  BY DEF Release, IInv, Types
<1>2. /\ tab' \in Tables
      /\ \A f \in Fd : tab'[f] = IF f \in fs THEN Closed ELSE tab[f]
  BY <1>1, DropOK
<1>3. /\ \A d \in Call : d # c => streams'[d] = streams[d]
      /\ streams'[c] = [streams[c] EXCEPT !.life = "closed"]
      /\ streams[c] \in [life : Lives, ok : BOOLEAN, in : Fd, out : Fd, err : Fd]
  BY <1>1 DEF Types
<1>4. Types'
  <2>1. streams'[c] \in [life : Lives, ok : BOOLEAN, in : Fd, out : Fd, err : Fd]
    BY <1>3 DEF Lives
  <2>2. streams' \in [Call -> [life : Lives, ok : BOOLEAN, in : Fd, out : Fd, err : Fd]]
    BY <1>1, <1>3, <2>1 DEF Types
  <2>3. ASSUME NEW d \in Call
        PROVE  /\ ~streams'[d].ok => streams'[d].in = 0
               /\ streams'[d].in # streams'[d].out /\ streams'[d].in # streams'[d].err
               /\ streams'[d].out # streams'[d].err
    <3>1. CASE d = c
      <4>1. /\ streams'[c].in = streams[c].in /\ streams'[c].out = streams[c].out
            /\ streams'[c].err = streams[c].err /\ streams'[c].ok = streams[c].ok
        BY <1>3
      <4> QED BY <1>1, <3>1, <4>1 DEF Types
    <3>2. CASE d # c
      BY <1>1, <1>3, <3>2 DEF Types
    <3> QED BY <3>1, <3>2
  <2> QED BY <1>1, <1>2, <2>2, <2>3 DEF Types
<1>5. ASSUME StandardOpen' PROVE Owners' /\ \A d \in Call : ChildOK(d)'
  <2>1. StandardOpen /\ \A f \in Standard : f \notin fs
    <3>1. ASSUME NEW f \in Standard PROVE tab[f] = Std /\ f \notin fs
      <4>1. tab'[f] = Std /\ f \in Fd
        BY <1>5, FdFacts DEF StandardOpen
      <4> HIDE DEF fs
      <4> QED BY <1>2, <4>1, Kinds
    <3> QED BY <3>1 DEF StandardOpen
  <2>2. IsOpen(c)
    <3>1. streams[c].in # 0
      BY <2>1, FdFacts
    <3> QED BY <1>1, <3>1 DEF Types, IsOpen
  <2>3. Owners /\ \A d \in Call : ChildOK(d)
    BY <2>1 DEF IInv
  <2>4. CallHas(c) /\ ~IsOpen(c)'
    BY <1>3, <2>2, <2>3 DEF Owners, IsOpen
  <2>5. \A f \in fs : \E pipe, side : tab[f] = End(c, pipe, side)
    BY <2>4 DEF CallHas
  <2>6. Live' = Live
    BY <1>1 DEF Live
  <2> HIDE DEF fs
  <2>7. ASSUME NEW u \in Live' PROVE ObjectHas(u)'
    <3>1. obj[u] \in Others /\ tab[obj[u]] = File(u)
      BY <2>3, <2>6 DEF Owners, ObjectHas
    <3>2. obj[u] \notin fs
      BY <2>5, <3>1, Kinds
    <3> QED BY <1>1, <1>2, <3>1, <3>2, FdFacts DEF ObjectHas
  <2>8. ASSUME NEW d \in Call, IsOpen(d)' PROVE CallHas(d)'
    <3>1. d # c /\ streams'[d] = streams[d]
      BY <1>3, <2>4, <2>8
    <3>2. CallHas(d)
      BY <2>3, <2>8, <3>1 DEF Owners, IsOpen
    <3>3. ASSUME NEW f \in Fd, NEW pipe, NEW side, tab[f] = End(d, pipe, side)
          PROVE  tab'[f] = tab[f]
      <4>1. f \notin fs
        BY <2>5, <3>1, <3>3, EndsDiffer
      <4> QED BY <1>2, <4>1
    <3> QED BY <3>1, <3>2, <3>3, FdFacts DEF CallHas
  <2>9. ASSUME NEW f \in Others PROVE HasOwner(f)'
    <3>1. HasOwner(f) /\ f \in Fd
      BY <2>3, FdFacts DEF Owners
    <3>2. CASE f \in fs
      BY <1>2, <3>1, <3>2 DEF HasOwner
    <3>3. CASE f \notin fs
      <4>1. tab'[f] = tab[f]
        BY <1>2, <3>1, <3>3
      <4>2. CASE \E d \in Call : IsOpen(d) /\ f \in {streams[d].in, streams[d].out, streams[d].err}
        <5>1. PICK d \in Call : IsOpen(d) /\ f \in {streams[d].in, streams[d].out, streams[d].err}
          BY <4>2
        <5>2. d # c
          BY <3>3, <5>1 DEF fs
        <5>3. streams'[d] = streams[d]
          BY <1>3, <5>2
        <5> QED BY <5>1, <5>3 DEF HasOwner, IsOpen
      <4> QED BY <1>1, <2>6, <3>1, <4>1, <4>2 DEF HasOwner
    <3> QED BY <3>2, <3>3
  <2> QED BY <1>1, <2>3, <2>7, <2>8, <2>9, SameChildren DEF Owners
<1> QED BY <1>4, <1>5 DEF IInv

\* What a child does to its own table is seen by nobody else.
LEMMA ChildStepOK ==
  ASSUME IInv, UNCHANGED <<tab, streams, obj>>, NEW c \in Call, NEW r,
         child' = [child EXCEPT ![c] = r],
         r \in [phase : Phases, pipes : {<<>>} \cup [1 .. 6 -> Fd], tab : Tables],
         r.phase # "forked",
         StandardOpen /\ r.phase \in {"running", "twin"} => After(r.tab, c) /\ NoOthers(r.tab, c)
  PROVE  IInv'
<1>1. /\ \A d \in Call : d # c => child'[d] = child[d]
      /\ child'[c] = r
  BY DEF IInv, Types
<1>2. Types'
  <2>1. child' \in [Call -> [phase : Phases, pipes : {<<>>} \cup [1 .. 6 -> Fd], tab : Tables]]
    BY DEF IInv, Types
  <2>2. \A d \in Call : child'[d].phase = "forked" => child'[d].pipes \in [1 .. 6 -> Fd]
    BY <1>1 DEF IInv, Types
  <2> QED BY <2>1, <2>2 DEF IInv, Types
<1>3. ASSUME StandardOpen' PROVE Owners' /\ \A d \in Call : ChildOK(d)'
  <2>1. StandardOpen /\ Owners /\ \A d \in Call : ChildOK(d)
    BY <1>3 DEF IInv, StandardOpen
  <2>2. Owners'
    BY <2>1 DEF Owners, ObjectHas, CallHas, HasOwner, IsOpen, Live
  <2>3. ASSUME NEW d \in Call PROVE ChildOK(d)'
    <3>1. CASE d = c
      BY <1>1, <2>1, <3>1 DEF ChildOK, Running
    <3>2. CASE d # c
      <4>1. ChildOK(d) /\ child'[d] = child[d]
        BY <1>1, <2>1, <3>2
      <4> QED BY <4>1 DEF ChildOK, Running
    <3> QED BY <3>1, <3>2
  <2> QED BY <2>2, <2>3
<1> QED BY <1>2, <1>3 DEF IInv

LEMMA ExecOK ==
  ASSUME IInv, NEW c \in Call, Exec(c), UNCHANGED obj
  PROVE  IInv'
<1> DEFINE t == child[c].tab
           q == child[c].pipes
<1>1. PICK phase \in {"running", "twin"} :
        child' = [child EXCEPT ![c] = [phase |-> phase, pipes |-> <<>>, tab |-> Connected(t, q)]]
  BY DEF Exec, IInv, Types
<1>2. t \in Tables /\ q \in [1 .. 6 -> Fd] /\ child[c].phase = "forked" /\ c \in Running
      /\ UNCHANGED <<tab, streams, obj>>
  BY DEF Exec, IInv, Types, Running
<1>3. StandardOpen => Before(q, t, c) /\ NoOthers(t, c)
  BY <1>2 DEF IInv, ChildOK
<1> DEFINE r == [phase |-> phase, pipes |-> <<>>, tab |-> Connected(t, q)]
<1>4. /\ Connected(t, q) \in Tables
      /\ StandardOpen => After(Connected(t, q), c) /\ NoOthers(Connected(t, q), c)
  BY <1>2, <1>3, ConnectedOK
<1>5. /\ r \in [phase : Phases, pipes : {<<>>} \cup [1 .. 6 -> Fd], tab : Tables]
      /\ r.phase # "forked" /\ r.tab = Connected(t, q) /\ child' = [child EXCEPT ![c] = r]
  BY <1>1, <1>4 DEF Phases
<1> HIDE DEF r, t, q
<1> QED BY <1>2, <1>4, <1>5, ChildStepOK

LEMMA ChildExitOK ==
  ASSUME IInv, NEW c \in Call, ChildExit(c), UNCHANGED obj
  PROVE  IInv'
<1> DEFINE r == [NoChild EXCEPT !.phase = "gone"]
<1>1. /\ r \in [phase : Phases, pipes : {<<>>} \cup [1 .. 6 -> Fd], tab : Tables]
      /\ r.phase = "gone"
  BY DEF NoChild, Phases, Tables, Entries
<1>2. child' = [child EXCEPT ![c] = r] /\ UNCHANGED <<tab, streams, obj>>
  BY DEF ChildExit
<1> HIDE DEF r
<1> QED BY <1>1, <1>2, ChildStepOK

LEMMA NextIInv == IInv /\ [Next]_vars => IInv'
<1> SUFFICES ASSUME IInv, [Next]_vars PROVE IInv'
  OBVIOUS
<1>1. CASE SocketsNext /\ UNCHANGED <<streams, child>>
  BY <1>1, ConstructOK, ConstructThrowsOK, DestroyOK DEF SocketsNext
<1>2. CASE ProcessNext /\ UNCHANGED obj
  BY <1>2, RunOK, ForkFailsOK, ReleaseOK, ExecOK, ChildExitOK DEF ProcessNext
<1>3. CASE UNCHANGED vars
  BY <1>3 DEF vars, IInv, Types, StandardOpen, Owners, ObjectHas, CallHas, HasOwner, IsOpen,
              Live, ChildOK, Running
<1> QED BY <1>1, <1>2, <1>3 DEF Next

\* What a step does to the program's table and to its children's, and who is
\* to close what in it (Sockets, AttachedProcess).
THEOREM InductiveInvariant == Spec => []IInv
<1> QED BY InitIInv, NextIInv, PTL DEF Spec


-------------------------------------------------------------------------------
(* What follows                                                            *)

LEMMA ThreeDiffer ==
  ASSUME NEW a, NEW b, NEW d, a # b, a # d, b # d
  PROVE  Cardinality({a, b, d}) = 3
<1>1. IsFiniteSet({a}) /\ Cardinality({a}) = 1
  BY FS_Singleton
<1>2. {a} \cup {b} = {a, b} /\ {a, b} \cup {d} = {a, b, d} /\ b \notin {a} /\ d \notin {a, b}
  OBVIOUS
<1>3. IsFiniteSet({a, b}) /\ Cardinality({a, b}) = 2
  BY <1>1, <1>2, FS_AddElement
<1> QED BY <1>2, <1>3, FS_AddElement

\* The descriptors of a call's streams are three, also when fork failed.
THEOREM TypeCorrect == Spec => []TypeOK
<1>1. IInv => TypeOK
  <2> SUFFICES ASSUME IInv, NEW c \in Call
               PROVE  /\ streams[c].life \in {"none", "open", "closed"} /\ streams[c].ok \in BOOLEAN
                      /\ {streams[c].in, streams[c].out, streams[c].err} \subseteq Fd
                      /\ Cardinality({streams[c].in, streams[c].out, streams[c].err}) = 3
                      /\ child[c].phase \in {"none", "forked", "running", "twin", "gone"}
                      /\ child[c].tab \in Tables
    BY DEF IInv, Types, TypeOK
  <2>1. /\ streams[c] \in [life : Lives, ok : BOOLEAN, in : Fd, out : Fd, err : Fd]
        /\ child[c] \in [phase : Phases, pipes : {<<>>} \cup [1 .. 6 -> Fd], tab : Tables]
    BY DEF IInv, Types
  <2>2. Cardinality({streams[c].in, streams[c].out, streams[c].err}) = 3
    BY ThreeDiffer DEF IInv, Types
  <2> QED BY <2>1, <2>2 DEF Lives, Phases
<1> QED BY <1>1, InductiveInvariant, PTL

\* While the standard descriptors are open, nobody closes a descriptor that has
\* become another's, and nothing stays open that nobody owns but what failed
\* calls leave behind.  ~ProcStreams of a call whose fork failed closes 0, 1
\* and 3 (bf.h:367): from then on StandardOpen is false, and 3 may have been
\* another's.
THEOREM DescriptorsAreOwned == Spec => []OwnDescriptors
<1>1. IInv => OwnDescriptors
  <2> SUFFICES ASSUME IInv, StandardOpen
               PROVE  { <<f, tab[f]>> : f \in { g \in Others : tab[g] \notin {Closed, Lost} } } = Owned
    BY DEF OwnDescriptors, Others
  <2>1. Owners
    BY DEF IInv
  <2> DEFINE Held3(c) == { <<streams[c].in, End(c, "out", "w")>>,
                           <<streams[c].out, End(c, "in", "r")>>,
                           <<streams[c].err, End(c, "err", "r")>> }
  <2>2. \A x : x \in Owned <=> \/ \E s \in Live : x = <<obj[s], File(s)>>
                              \/ \E c \in Call : IsOpen(c) /\ x \in Held3(c)
    BY DEF Owned, IsOpen
  <2>3. ASSUME NEW f \in Others, tab[f] \notin {Closed, Lost} PROVE <<f, tab[f]>> \in Owned
    <3>1. CASE \E s \in Live : obj[s] = f
      <4>1. PICK s \in Live : obj[s] = f
        BY <3>1
      <4>2. tab[f] = File(s)
        BY <2>1, <4>1 DEF Owners, ObjectHas
      <4> QED BY <2>2, <4>1, <4>2
    <3>2. CASE \E c \in Call : IsOpen(c) /\ f \in {streams[c].in, streams[c].out, streams[c].err}
      <4>1. PICK c \in Call : IsOpen(c) /\ f \in {streams[c].in, streams[c].out, streams[c].err}
        BY <3>2
      <4>2. CallHas(c)
        BY <2>1, <4>1 DEF Owners
      <4>3. <<f, tab[f]>> \in Held3(c)
        BY <4>1, <4>2 DEF CallHas
      <4> QED BY <2>2, <4>1, <4>3
    <3> QED BY <2>1, <2>3, <3>1, <3>2 DEF Owners, HasOwner
  <2>4. ASSUME NEW x \in Owned
        PROVE  \E f \in Others : tab[f] \notin {Closed, Lost} /\ x = <<f, tab[f]>>
    <3>1. CASE \E s \in Live : x = <<obj[s], File(s)>>
      BY <2>1, <3>1, Kinds DEF Owners, ObjectHas
    <3>2. CASE \E c \in Call : IsOpen(c) /\ x \in Held3(c)
      <4>1. PICK c \in Call : IsOpen(c) /\ x \in Held3(c)
        BY <3>2
      <4>2. CallHas(c)
        BY <2>1, <4>1 DEF Owners
      <4>3. CASE x = <<streams[c].in, End(c, "out", "w")>>
        BY <4>2, <4>3, Kinds DEF CallHas
      <4>4. CASE x = <<streams[c].out, End(c, "in", "r")>>
        BY <4>2, <4>4, Kinds DEF CallHas
      <4>5. CASE x = <<streams[c].err, End(c, "err", "r")>>
        BY <4>2, <4>5, Kinds DEF CallHas
      <4> QED BY <4>1, <4>3, <4>4, <4>5
    <3> QED BY <2>2, <3>1, <3>2
  <2> QED BY <2>3, <2>4
<1> QED BY <1>1, InductiveInvariant, PTL

\* The order of dup2 and close gives a program the caller's pipes.
THEOREM ProgramsAreConnected == Spec => []ChildIsConnected
<1>1. IInv => ChildIsConnected
  <2> SUFFICES ASSUME IInv, StandardOpen, NEW c \in Call, child[c].phase = "running"
               PROVE  StreamsOf(c) = Connection(c)
    BY DEF ChildIsConnected, StreamsAreConnected
  <2>1. After(child[c].tab, c)
    BY DEF IInv, ChildOK
  <2>2. ASSUME NEW f \in Standard PROVE StreamsOf(c)[f] = Connection(c)[f]
    <3>1. f = 0 \/ f = 1 \/ f = 2
      BY FdFacts
    <3> QED BY <2>1, <3>1 DEF StreamsOf, Connection, After
  <2> QED BY <2>2 DEF StreamsOf, Connection
<1> QED BY <1>1, InductiveInvariant, PTL

\* The end of a program's output is the end of the program.
THEOREM OutputEndsWithTheProgram == Spec => []EndOfOutput
<1>1. IInv => EndOfOutput
  <2> SUFFICES ASSUME IInv, StandardOpen, NEW c \in Call
               PROVE  Held(End(c, "in", "w")) <=> c \in Running
    BY DEF EndOfOutput
  <2>1. Types /\ Owners /\ \A d \in Call : ChildOK(d)
    BY DEF IInv
  <2>2. ASSUME c \in Running PROVE \E f \in Fd : child[c].tab[f] = End(c, "in", "w")
    <3>1. CASE child[c].phase = "forked"
      <4>1. Before(child[c].pipes, child[c].tab, c) /\ 2 \in 1 .. 6
        BY <2>1, <3>1 DEF ChildOK
      <4> QED BY <4>1, EndsAre, FdFacts DEF Before
    <3>2. CASE child[c].phase \in {"running", "twin"}
      <4>1. After(child[c].tab, c) /\ 1 \in Fd
        BY <2>1, <3>2, FdFacts DEF ChildOK
      <4> QED BY <4>1 DEF After
    <3> QED BY <2>2, <3>1, <3>2 DEF Running
  <2>3. ASSUME NEW d \in Running, NEW f \in Fd, child[d].tab[f] = End(c, "in", "w") PROVE d = c
    <3>1. d \in Call /\ NoOthers(child[d].tab, d)
      BY <2>1 DEF ChildOK, Running
    <3> QED BY <2>3, <3>1 DEF NoOthers
  <2>4. \A f \in Fd : tab[f] # End(c, "in", "w")
    BY <2>1, NoWriteEnd
  <2> QED BY <2>2, <2>3, <2>4 DEF Held
<1> QED BY <1>1, InductiveInvariant, PTL
================================================================================
