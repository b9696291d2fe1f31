--------------------------- MODULE SimpleBufferProofs ---------------------------
(***************************************************************************)
(* Proofs about SimpleBuffer for every set of pools, buffers, pages and    *)
(* bytes, every page size and cache size, and inputs of any length.        *)
(***************************************************************************)
EXTENDS SimpleBuffer, SequenceTheorems, WellFoundedInduction, TLAPS

-------------------------------------------------------------------------------
(* The inductive invariant                                                 *)

Store          == [stack : [Pool -> Seq(Page)], heap : SUBSET Page]

InBuffers(d)   == { a \in Page : \E b \in Buffer : \E i \in DOMAIN d[b] : d[b][i].addr = a }
Parting(o)     == { a \in Page : \E i \in DOMAIN o : o[i].addr = a }
InUse(d, o)    == InBuffers(d) \cup Parting(o)
OnStack(st, a) == \E p \in Pool : \E i \in DOMAIN st[p] : st[p][i] = a
BuffersApart(d) == \A b, c \in Buffer : \A i \in DOMAIN d[b], j \in DOMAIN d[c] :
                     d[b][i].addr = d[c][j].addr => b = c /\ i = j
StacksApart(st) == \A p, q \in Pool : \A i \in DOMAIN st[p], j \in DOMAIN st[q] :
                     st[p][i] = st[q][j] => p = q /\ i = j

\* The stacks and the heap of s are in order when the pages U are in buffers or
\* in what is left of one, those of gone are lost, and c are the bytes.
InOrder(s, U, gone, c) ==
  /\ s \in Store /\ gone \subseteq s.heap
  /\ \A a \in Page : a \in s.heap \ gone <=> a \in U \/ OnStack(s.stack, a)
  /\ \A a \in U : ~OnStack(s.stack, a)
  /\ StacksApart(s.stack)
  /\ \A p \in Pool : /\ Len(s.stack[p]) <= MinCache[p]
                     /\ \A i \in DOMAIN s.stack[p] : Len(c[s.stack[p][i]]) = PageSize[p]

PagesFit == \A b \in Buffer : \A i \in DOMAIN data[b] :
  data[b][i].parent = pool[b] /\ Len(cell[data[b][i].addr]) = PageSize[pool[b]]

\* The pages being destroyed are in no buffer any more, and none is there twice.
OldApart == /\ \A i, j \in DOMAIN old : old[i].addr = old[j].addr => i = j
            /\ \A i \in DOMAIN old : old[i].addr \notin InBuffers(data)
OldFit   == \A i \in DOMAIN old : Len(cell[old[i].addr]) = PageSize[old[i].parent]

CallRuns == running # None => /\ pool[running] # None /\ n \in 1 .. Len(v)
                              /\ old = <<>> /\ oldPool = None

IInv == /\ TypeOK
        /\ InOrder(Memory, InUse(data, old), lost, cell)
        /\ BuffersApart(data) /\ OldApart
        /\ PagesFit /\ OldFit
        /\ BookkeepingAgrees
        /\ CallRuns

-------------------------------------------------------------------------------
(* What becomes of pages                                                   *)

LEMMA LeastNumber ==
  ASSUME NEW S \in SUBSET Nat, S # {}
  PROVE  \E m \in S : \A k \in S : m <= k
<1>1. PICK m \in S : \A k \in S : ~(<<k, m>> \in OpToRel(<, Nat))
  BY NatLessThanWellFounded, WFMin
<1>2. ASSUME NEW k \in S PROVE m <= k
  <2>1. k \in Nat /\ m \in Nat
    OBVIOUS
  <2>2. ~(<<k, m>> \in OpToRel(<, Nat))
    BY <1>1
  <2>3. ~(k < m)
    BY <2>1, <2>2 DEF OpToRel
  <2> QED BY <2>1, <2>3
<1> QED BY <1>2

LEMMA ReturnPageType ==
  ASSUME NEW s \in Store, NEW page \in PageRecord
  PROVE  returnPage(s, page) \in Store
<1>1. /\ s.stack \in [Pool -> Seq(Page)] /\ s.heap \in SUBSET Page
      /\ page.parent \in Pool /\ page.addr \in Page
  BY DEF Store, PageRecord
<1>2. Append(s.stack[page.parent], page.addr) \in Seq(Page)
  BY <1>1
<1>3. [s.stack EXCEPT ![page.parent] = Append(@, page.addr)] \in [Pool -> Seq(Page)]
  BY <1>1, <1>2
<1>4. CASE Len(s.stack[page.parent]) < MinCache[page.parent]
  BY <1>1, <1>3, <1>4 DEF returnPage, Store
<1>5. CASE ~(Len(s.stack[page.parent]) < MinCache[page.parent])
  BY <1>1, <1>5 DEF returnPage, Store
<1> QED BY <1>4, <1>5

\* One page less in buffers: it is on a stack, with its size, or deleted.
LEMMA ReturnPageOK ==
  ASSUME NEW U, NEW gone, NEW c, NEW s, InOrder(s, U, gone, c), U \subseteq Page,
         NEW page \in PageRecord, page.addr \in U, Len(c[page.addr]) = PageSize[page.parent]
  PROVE  InOrder(returnPage(s, page), U \ {page.addr}, gone, c)
<1> DEFINE a == page.addr
           p == page.parent
           r == returnPage(s, page)
<1>1. a \in Page /\ p \in Pool /\ s \in Store /\ r \in Store /\ s.stack[p] \in Seq(Page)
      /\ Len(s.stack[p]) \in Nat /\ MinCache[p] \in Nat
  <2>1. a \in Page /\ p \in Pool
    BY DEF PageRecord
  <2>2. s \in Store /\ r \in Store
    BY ReturnPageType DEF InOrder
  <2>3. s.stack[p] \in Seq(Page)
    BY <2>1, <2>2 DEF Store
  <2> QED BY <2>1, <2>2, <2>3, PoolAssumption
<1>2. a \in s.heap \ gone /\ ~OnStack(s.stack, a)
  BY <1>1 DEF InOrder
<1>3. CASE Len(s.stack[p]) < MinCache[p]
  <2>1. r.heap = s.heap /\ r.stack = [s.stack EXCEPT ![p] = Append(@, a)]
    BY <1>1, <1>3 DEF returnPage, Store
  <2>2. /\ \A q \in Pool : q # p => r.stack[q] = s.stack[q]
        /\ r.stack[p] = Append(s.stack[p], a)
    BY <1>1, <2>1 DEF Store
  <2>3. /\ DOMAIN r.stack[p] = 1 .. Len(s.stack[p]) + 1 /\ Len(r.stack[p]) = Len(s.stack[p]) + 1
        /\ DOMAIN s.stack[p] = 1 .. Len(s.stack[p])
        /\ \A i \in 1 .. Len(s.stack[p]) : r.stack[p][i] = s.stack[p][i]
        /\ r.stack[p][Len(s.stack[p]) + 1] = a
    BY <1>1, <2>2
  <2> DEFINE new == Len(s.stack[p]) + 1
  <2>4. ASSUME NEW q \in Pool, NEW i \in DOMAIN r.stack[q]
        PROVE  \/ i \in DOMAIN s.stack[q] /\ r.stack[q][i] = s.stack[q][i]
               \/ q = p /\ i = new /\ r.stack[q][i] = a
    <3> HIDE DEF r, a, p
    <3>1. CASE q = p
      <4>1. i \in 1 .. Len(s.stack[p]) \/ i = Len(s.stack[p]) + 1
        BY <1>1, <2>3, <3>1
      <4> QED BY <2>3, <3>1, <4>1
    <3>2. CASE q # p
      BY <2>2, <3>2
    <3> QED BY <3>1, <3>2
  <2>5. ASSUME NEW q \in Pool, NEW i \in DOMAIN s.stack[q]
        PROVE  i \in DOMAIN r.stack[q] /\ r.stack[q][i] = s.stack[q][i]
    <3> HIDE DEF r, a, p
    <3>1. CASE q = p
      <4>1. i \in 1 .. Len(s.stack[p]) /\ i \in 1 .. Len(s.stack[p]) + 1
        BY <1>1, <2>3, <3>1
      <4> QED BY <2>3, <3>1, <4>1
    <3>2. CASE q # p
      BY <2>2, <3>2
    <3> QED BY <3>1, <3>2
  <2>6. new \in DOMAIN r.stack[p] /\ r.stack[p][new] = a
    BY <1>1, <2>3
  <2> HIDE DEF new, r, a, p
  <2>7. ASSUME NEW b PROVE OnStack(r.stack, b) <=> OnStack(s.stack, b) \/ b = a
    <3>1. ASSUME OnStack(r.stack, b) PROVE OnStack(s.stack, b) \/ b = a
      BY <2>4, <3>1 DEF OnStack
    <3>2. ASSUME OnStack(s.stack, b) PROVE OnStack(r.stack, b)
      BY <2>5, <3>2 DEF OnStack
    <3>3. OnStack(r.stack, a)
      BY <1>1, <2>6 DEF OnStack
    <3> QED BY <3>1, <3>2, <3>3
  <2>8. StacksApart(r.stack)
    <3> SUFFICES ASSUME NEW q \in Pool, NEW t \in Pool, NEW i \in DOMAIN r.stack[q],
                        NEW j \in DOMAIN r.stack[t], r.stack[q][i] = r.stack[t][j]
                 PROVE  q = t /\ i = j
      BY DEF StacksApart
    <3>1. \A e \in Pool : \A k \in DOMAIN s.stack[e] : s.stack[e][k] # a
      BY <1>2 DEF OnStack
    <3> QED BY <2>4, <3>1 DEF InOrder, StacksApart
  <2>9. ASSUME NEW q \in Pool
        PROVE  /\ Len(r.stack[q]) <= MinCache[q]
               /\ \A i \in DOMAIN r.stack[q] : Len(c[r.stack[q][i]]) = PageSize[q]
    <3>1. Len(r.stack[q]) <= MinCache[q]
      <4>1. CASE q = p
        BY <1>1, <1>3, <2>3, <4>1
      <4>2. CASE q # p
        BY <2>2, <4>2 DEF InOrder
      <4> QED BY <4>1, <4>2
    <3>2. ASSUME NEW i \in DOMAIN r.stack[q] PROVE Len(c[r.stack[q][i]]) = PageSize[q]
      BY <2>4 DEF InOrder, a, p
    <3> QED BY <3>1, <3>2
  <2>10. \A b \in Page : b \in r.heap \ gone <=> b \in U \ {a} \/ OnStack(r.stack, b)
    BY <1>1, <1>2, <2>1, <2>7 DEF InOrder
  <2>11. \A b \in U \ {a} : ~OnStack(r.stack, b)
    BY <2>7 DEF InOrder
  <2>12. gone \subseteq r.heap
    BY <2>1 DEF InOrder
  <2> QED BY <1>1, <2>8, <2>9, <2>10, <2>11, <2>12 DEF InOrder, r, a
<1>4. CASE ~(Len(s.stack[p]) < MinCache[p])
  <2>1. r.heap = s.heap \ {a} /\ r.stack = s.stack
    BY <1>1, <1>4 DEF returnPage, Store
  <2> HIDE DEF r, a, p
  <2> QED BY <1>1, <1>2, <2>1 DEF InOrder, r, a
<1> QED BY <1>3, <1>4

\* A pool that dies loses the pages on its stack, and nobody else does.
LEMMA ExpireOK ==
  ASSUME NEW U \in SUBSET Page, InOrder(Memory, U, lost, cell), Expire,
         cell \in [Page -> Seq(Data \cup {None})]
  PROVE  /\ InOrder([stack |-> stack', heap |-> heap'], U, lost', cell')
         /\ cell' \in [Page -> Seq(Data \cup {None})]
         /\ \A a \in U : cell'[a] = cell[a]
<1> DEFINE s == Memory
           dead == { p \in Pool : Alive(p) /\ ~Alive(p)' }
<1>1. /\ heap' = s.heap
      /\ stack' = [p \in Pool |-> IF p \in dead THEN <<>> ELSE s.stack[p]]
      /\ lost' = lost \cup UNION { ToSet(s.stack[p]) : p \in dead }
      /\ cell' = [a \in Page |-> IF a \in heap' \ lost' THEN cell[a] ELSE <<>>]
  BY DEF Expire, Memory
<1>2. /\ s \in Store /\ lost \subseteq s.heap
      /\ \A a \in Page : a \in s.heap \ lost <=> a \in U \/ OnStack(s.stack, a)
      /\ \A a \in U : ~OnStack(s.stack, a)
      /\ StacksApart(s.stack)
      /\ \A p \in Pool : /\ Len(s.stack[p]) <= MinCache[p]
                         /\ \A i \in DOMAIN s.stack[p] : Len(cell[s.stack[p][i]]) = PageSize[p]
  BY DEF InOrder
<1>3. dead \subseteq Pool
  OBVIOUS
<1> HIDE DEF s, dead
<1>4. /\ s.stack \in [Pool -> Seq(Page)] /\ s.heap \in SUBSET Page
      /\ \A p \in Pool : \A i \in DOMAIN s.stack[p] : s.stack[p][i] \in Page
  BY <1>2 DEF Store
<1>5. \A a : a \in lost' <=> a \in lost \/ \E p \in dead : \E i \in DOMAIN s.stack[p] : s.stack[p][i] = a
  BY <1>1 DEF ToSet
<1>6. \A p \in Pool : stack'[p] = IF p \in dead THEN <<>> ELSE s.stack[p]
  BY <1>1
<1>7. stack' \in [Pool -> Seq(Page)]
  BY <1>1, <1>4
<1>8. lost' \subseteq heap'
  BY <1>1, <1>2, <1>3, <1>4, <1>5 DEF OnStack
<1>9. DOMAIN <<>> = {} /\ Len(<<>>) = 0
  OBVIOUS
<1>10. ASSUME NEW p \in Pool, NEW i \in DOMAIN stack'[p]
       PROVE  p \notin dead /\ i \in DOMAIN s.stack[p] /\ stack'[p][i] = s.stack[p][i]
  BY <1>6, <1>9
<1>11. StacksApart(stack')
  BY <1>2, <1>10 DEF StacksApart
<1>12. ASSUME NEW a \in Page
       PROVE  a \in heap' \ lost' <=> a \in U \/ OnStack(stack', a)
  <2>1. ASSUME OnStack(stack', a) PROVE a \in heap' \ lost'
    <3>1. PICK p \in Pool : \E i \in DOMAIN stack'[p] : stack'[p][i] = a
      BY <2>1 DEF OnStack
    <3>2. PICK i \in DOMAIN stack'[p] : stack'[p][i] = a
      BY <3>1
    <3>3. p \notin dead /\ i \in DOMAIN s.stack[p] /\ s.stack[p][i] = a
      BY <1>10, <3>2
    <3>4. a \in s.heap \ lost
      BY <1>2, <3>3 DEF OnStack
    <3>5. ~ \E q \in dead : \E j \in DOMAIN s.stack[q] : s.stack[q][j] = a
      BY <1>2, <1>3, <3>3 DEF StacksApart
    <3> QED BY <1>1, <1>5, <3>4, <3>5
  <2>2. ASSUME a \in U PROVE a \in heap' \ lost'
    <3>1. a \in s.heap \ lost /\ ~OnStack(s.stack, a)
      BY <1>2, <2>2
    <3> QED BY <1>1, <1>3, <1>5, <3>1 DEF OnStack
  <2>3. ASSUME a \in heap' \ lost', a \notin U PROVE OnStack(stack', a)
    <3>1. OnStack(s.stack, a)
      BY <1>1, <1>2, <1>5, <2>3
    <3>2. PICK p \in Pool : \E i \in DOMAIN s.stack[p] : s.stack[p][i] = a
      BY <3>1 DEF OnStack
    <3>3. p \notin dead
      BY <1>5, <2>3, <3>2
    <3>4. stack'[p] = s.stack[p]
      BY <1>6, <3>3
    <3> QED BY <3>2, <3>4 DEF OnStack
  <2> QED BY <2>1, <2>2, <2>3
<1>13. \A a \in Page : a \in U \/ OnStack(stack', a) => cell'[a] = cell[a]
  BY <1>1, <1>12
<1>14. \A a \in U : ~OnStack(stack', a)
  BY <1>2, <1>10 DEF OnStack
<1>15. ASSUME NEW p \in Pool
       PROVE  /\ Len(stack'[p]) <= MinCache[p]
              /\ \A i \in DOMAIN stack'[p] : Len(cell'[stack'[p][i]]) = PageSize[p]
  <2>1. Len(stack'[p]) <= MinCache[p]
    <3>1. MinCache[p] \in Nat
      BY PoolAssumption
    <3>2. CASE p \in dead
      BY <1>6, <1>9, <3>1, <3>2
    <3>3. CASE p \notin dead
      BY <1>2, <1>6, <3>3
    <3> QED BY <3>2, <3>3
  <2>2. ASSUME NEW i \in DOMAIN stack'[p] PROVE Len(cell'[stack'[p][i]]) = PageSize[p]
    <3>1. i \in DOMAIN s.stack[p] /\ stack'[p][i] = s.stack[p][i] /\ stack'[p][i] \in Page
      BY <1>4, <1>10
    <3>2. cell'[stack'[p][i]] = cell[stack'[p][i]]
      BY <1>13, <3>1 DEF OnStack
    <3> QED BY <1>2, <3>1, <3>2
  <2> QED BY <2>1, <2>2
<1>16. cell' \in [Page -> Seq(Data \cup {None})]
  BY <1>1
<1>17. [stack |-> stack', heap |-> heap'] \in Store
  BY <1>1, <1>4, <1>7 DEF Store
<1> QED BY <1>8, <1>11, <1>12, <1>13, <1>14, <1>15, <1>16, <1>17 DEF InOrder

-------------------------------------------------------------------------------
(* What buffers hand over to each other, and what they give back           *)

\* Buffer d has the members of buffer g[d], or is without pages when g[d] is
\* None, and no buffer's members go to two.
HandsOver(f, g) ==
  /\ g \in [Buffer -> Buffer \cup {None}]
  /\ \A d, e \in Buffer : g[d] = g[e] /\ g[d] # None => d = e
  /\ \A d \in Buffer :
       IF g[d] = None THEN /\ f[d].pool \in Pool \cup {None}
                           /\ f[d] = [Nothing EXCEPT !.pool = f[d].pool]
                      ELSE f[d] = Fields(g[d])

\* The pages in buffers are then those of the buffers that g names.
PagesOf(g) ==
  \A a : a \in InBuffers(data') <=>
           \E d \in Buffer : /\ g[d] # None /\ a \in Page
                             /\ \E i \in DOMAIN data[g[d]] : data[g[d]][i].addr = a

LEMMA HandedPages ==
  ASSUME IInv, NEW f, NEW g, HandsOver(f, g), Become(f)
  PROVE  PagesOf(g)
<1>1. ASSUME NEW d \in Buffer PROVE g[d] = None => data'[d] = <<>>
  <2>1. data'[d] = f[d].data
    BY DEF Become
  <2>2. [Nothing EXCEPT !.pool = f[d].pool].data = <<>>
    BY DEF Nothing
  <2> QED BY <2>1, <2>2 DEF HandsOver
<1>2. ASSUME NEW d \in Buffer, g[d] # None PROVE data'[d] = data[g[d]]
  <2>1. data'[d] = f[d].data /\ f[d] = Fields(g[d])
    BY <1>2 DEF Become, HandsOver
  <2> QED BY <2>1 DEF Fields
<1>3. DOMAIN <<>> = {}
  OBVIOUS
<1>4. ASSUME NEW d \in Buffer, NEW a
      PROVE  (\E i \in DOMAIN data'[d] : data'[d][i].addr = a) <=>
             g[d] # None /\ \E i \in DOMAIN data[g[d]] : data[g[d]][i].addr = a
  BY <1>1, <1>2, <1>3
<1> QED BY <1>4 DEF PagesOf, InBuffers

LEMMA HandedFields ==
  ASSUME NEW f, NEW g, HandsOver(f, g), Become(f)
  PROVE  /\ \A d \in Buffer : g[d] = None => /\ pool'[d] \in Pool \cup {None}
                                            /\ data'[d] = <<>> /\ size'[d] = 0
                                            /\ writePos'[d] = NoPos /\ availWrite'[d] = 0
         /\ \A d \in Buffer : g[d] # None => /\ g[d] \in Buffer /\ pool'[d] = pool[g[d]]
                                            /\ data'[d] = data[g[d]] /\ size'[d] = size[g[d]]
                                            /\ writePos'[d] = writePos[g[d]]
                                            /\ availWrite'[d] = availWrite[g[d]]
<1>1. ASSUME NEW d \in Buffer
      PROVE  /\ pool'[d] = f[d].pool /\ data'[d] = f[d].data /\ size'[d] = f[d].size
             /\ writePos'[d] = f[d].pos /\ availWrite'[d] = f[d].avail
  BY DEF Become
<1>2. ASSUME NEW d \in Buffer, g[d] = None
      PROVE  /\ f[d].pool \in Pool \cup {None} /\ f[d].data = <<>> /\ f[d].size = 0
             /\ f[d].pos = NoPos /\ f[d].avail = 0
  <2>1. f[d] = [Nothing EXCEPT !.pool = f[d].pool] /\ f[d].pool \in Pool \cup {None}
    BY <1>2 DEF HandsOver
  <2>2. /\ [Nothing EXCEPT !.pool = f[d].pool].data = <<>>
        /\ [Nothing EXCEPT !.pool = f[d].pool].size = 0
        /\ [Nothing EXCEPT !.pool = f[d].pool].pos = NoPos
        /\ [Nothing EXCEPT !.pool = f[d].pool].avail = 0
    BY DEF Nothing
  <2> QED BY <2>1, <2>2
<1>3. ASSUME NEW d \in Buffer, g[d] # None
      PROVE  /\ g[d] \in Buffer /\ f[d].pool = pool[g[d]] /\ f[d].data = data[g[d]]
             /\ f[d].size = size[g[d]] /\ f[d].pos = writePos[g[d]]
             /\ f[d].avail = availWrite[g[d]]
  <2>1. g[d] \in Buffer /\ f[d] = Fields(g[d])
    BY <1>3 DEF HandsOver
  <2> QED BY <2>1 DEF Fields
<1> QED BY <1>1, <1>2, <1>3

LEMMA HandOver ==
  ASSUME IInv, NEW f, NEW g, HandsOver(f, g), Become(f), running' = None, n' = n, v' = v,
         \A a \in InBuffers(data') : cell'[a] = cell[a]
  PROVE  /\ pool' \in [Buffer -> Pool \cup {None}]
         /\ data' \in [Buffer -> Seq(PageRecord)]
         /\ size' \in [Buffer -> Nat] /\ availWrite' \in [Buffer -> Nat]
         /\ writePos' \in [Buffer -> [page : Page \cup {None}, off : Nat]]
         /\ BuffersApart(data') /\ PagesFit' /\ BookkeepingAgrees' /\ CallRuns'
<1>1. /\ \A d \in Buffer : g[d] = None => /\ pool'[d] \in Pool \cup {None}
                                         /\ data'[d] = <<>> /\ size'[d] = 0
                                         /\ writePos'[d] = NoPos /\ availWrite'[d] = 0
      /\ \A d \in Buffer : g[d] # None => /\ g[d] \in Buffer /\ pool'[d] = pool[g[d]]
                                         /\ data'[d] = data[g[d]] /\ size'[d] = size[g[d]]
                                         /\ writePos'[d] = writePos[g[d]]
                                         /\ availWrite'[d] = availWrite[g[d]]
  BY HandedFields
<1>2. /\ pool \in [Buffer -> Pool \cup {None}]
      /\ data \in [Buffer -> Seq(PageRecord)]
      /\ size \in [Buffer -> Nat] /\ availWrite \in [Buffer -> Nat]
      /\ writePos \in [Buffer -> [page : Page \cup {None}, off : Nat]]
  BY DEF IInv, TypeOK, PageRecord
<1>3. /\ pool' = [b \in Buffer |-> pool'[b]] /\ data' = [b \in Buffer |-> data'[b]]
      /\ size' = [b \in Buffer |-> size'[b]] /\ writePos' = [b \in Buffer |-> writePos'[b]]
      /\ availWrite' = [b \in Buffer |-> availWrite'[b]]
  BY DEF Become
<1>4. NoPos \in [page : Page \cup {None}, off : Nat] /\ <<>> \in Seq(PageRecord)
  BY DEF NoPos
<1>5. ASSUME NEW d \in Buffer
      PROVE  /\ pool'[d] \in Pool \cup {None} /\ data'[d] \in Seq(PageRecord)
             /\ size'[d] \in Nat /\ availWrite'[d] \in Nat
             /\ writePos'[d] \in [page : Page \cup {None}, off : Nat]
  <2>1. CASE g[d] = None
    <3>1. /\ pool'[d] \in Pool \cup {None} /\ data'[d] = <<>> /\ size'[d] = 0
          /\ writePos'[d] = NoPos /\ availWrite'[d] = 0
      BY <1>1, <2>1
    <3> HIDE <1>1
    <3> QED BY <1>4, <3>1
  <2>2. CASE g[d] # None
    BY <1>1, <1>2, <2>2
  <2> QED BY <2>1, <2>2
<1>6. pool' \in [Buffer -> Pool \cup {None}]
  BY <1>3, <1>5
<1>7. data' \in [Buffer -> Seq(PageRecord)]
  BY <1>3, <1>5
<1>8. size' \in [Buffer -> Nat] /\ availWrite' \in [Buffer -> Nat]
  BY <1>3, <1>5
<1>9. writePos' \in [Buffer -> [page : Page \cup {None}, off : Nat]]
  BY <1>3, <1>5
<1>10. ASSUME NEW d \in Buffer, NEW i \in DOMAIN data'[d]
       PROVE  /\ g[d] # None /\ g[d] \in Buffer /\ data'[d] = data[g[d]]
              /\ data'[d][i] \in PageRecord
  <2>1. DOMAIN <<>> = {}
    OBVIOUS
  <2>2. g[d] # None
    BY <1>1, <1>10, <2>1
  <2>3. data'[d] \in Seq(PageRecord)
    BY <1>5
  <2> QED BY <1>1, <2>2, <2>3
<1>11. BuffersApart(data')
  <2> SUFFICES ASSUME NEW d \in Buffer, NEW e \in Buffer, NEW i \in DOMAIN data'[d],
                      NEW j \in DOMAIN data'[e], data'[d][i].addr = data'[e][j].addr
               PROVE  d = e /\ i = j
    BY DEF BuffersApart
  <2>1. g[d] = g[e] /\ i = j
    BY <1>10 DEF IInv, BuffersApart
  <2> QED BY <1>10, <2>1 DEF HandsOver
<1>13. PagesFit'
  <2> SUFFICES ASSUME NEW d \in Buffer, NEW i \in DOMAIN data'[d]
               PROVE  /\ data'[d][i].parent = pool'[d]
                      /\ Len(cell'[data'[d][i].addr]) = PageSize[pool'[d]]
    BY DEF PagesFit
  <2>1. data'[d][i].addr \in InBuffers(data')
    BY <1>10 DEF InBuffers, PageRecord
  <2>2. cell'[data'[d][i].addr] = cell[data'[d][i].addr]
    BY <2>1
  <2> QED BY <1>1, <1>10, <2>2 DEF IInv, PagesFit
<1>14. BookkeepingAgrees'
  <2> SUFFICES ASSUME NEW d \in Buffer
               PROVE  (LET k     == Len(data[d])
                           last  == data[d][k]
                           whole == PageSize[pool[d]]
                       IN  IF k = 0 THEN size[d] = 0 /\ availWrite[d] = 0
                           ELSE /\ \A i \in 1 .. k - 1 : data[d][i].used = whole
                                /\ size[d] = (k - 1) * whole + last.used
                                /\ writePos[d] = [page |-> last.addr, off |-> last.used]
                                /\ last.used + availWrite[d] = whole)'
    BY DEF BookkeepingAgrees
  <2>1. CASE g[d] = None
    <3>1. Len(<<>>) = 0
      OBVIOUS
    <3> QED BY <1>1, <2>1, <3>1
  <2>2. CASE g[d] # None
    BY <1>1, <2>2 DEF IInv, BookkeepingAgrees
  <2> QED BY <2>1, <2>2
<1>15. CallRuns'
  BY DEF CallRuns
<1> QED BY <1>6, <1>7, <1>8, <1>9, <1>11, <1>13, <1>14, <1>15

\* A buffer without a pool has no pages.
LEMMA NoPoolNoPages ==
  ASSUME IInv, NEW b \in Buffer, pool[b] = None
  PROVE  data[b] = <<>>
<1>1. data[b] \in Seq(PageRecord)
  BY DEF IInv, TypeOK
<1>2. ASSUME NEW i \in DOMAIN data[b] PROVE FALSE
  <2>1. data[b][i] \in PageRecord
    BY <1>1
  <2> QED BY <2>1, PoolAssumption DEF IInv, PagesFit, PageRecord
<1>3. Len(data[b]) = 0
  <2>1. Len(data[b]) \in Nat /\ DOMAIN data[b] = 1 .. Len(data[b])
    BY <1>1
  <2>2. Len(data[b]) # 0 => 1 \in DOMAIN data[b]
    BY <2>1
  <2> QED BY <1>2, <2>2
<1> QED BY <1>1, <1>3

LEMMA InvFromParts ==
  ASSUME InOrder(Memory, InUse(data, old), lost, cell)',
         old' \in Seq(PageRecord), oldPool' \in Pool \cup {None}, OldApart', OldFit',
         cell' \in [Page -> Seq(Data \cup {None})], held' \subseteq Pool,
         pool' \in [Buffer -> Pool \cup {None}],
         data' \in [Buffer -> Seq(PageRecord)],
         size' \in [Buffer -> Nat], availWrite' \in [Buffer -> Nat],
         writePos' \in [Buffer -> [page : Page \cup {None}, off : Nat]],
         running' \in Buffer \cup {None}, v' \in Seq(Data), n' \in Nat,
         BuffersApart(data'), PagesFit', BookkeepingAgrees', CallRuns'
  PROVE  IInv'
<1>1. heap' \subseteq Page /\ lost' \subseteq heap' /\ stack' \in [Pool -> Seq(Page)]
  BY DEF InOrder, Store, Memory
<1> QED BY <1>1 DEF IInv, TypeOK

\* Outside of destructions all pages in use are in buffers.
LEMMA NothingOld ==
  ASSUME IInv, old = <<>>
  PROVE  InOrder(Memory, InBuffers(data), lost, cell)
<1>1. InUse(data, old) = InBuffers(data)
  <2>1. DOMAIN <<>> = {}
    OBVIOUS
  <2> QED BY <2>1 DEF InUse, Parting
<1> QED BY <1>1 DEF IInv

LEMMA InvWhenWhole ==
  ASSUME InOrder(Memory, InBuffers(data), lost, cell)', old' = <<>>, oldPool' = None,
         cell' \in [Page -> Seq(Data \cup {None})], held' \subseteq Pool,
         pool' \in [Buffer -> Pool \cup {None}],
         data' \in [Buffer -> Seq(PageRecord)],
         size' \in [Buffer -> Nat], availWrite' \in [Buffer -> Nat],
         writePos' \in [Buffer -> [page : Page \cup {None}, off : Nat]],
         running' \in Buffer \cup {None}, v' \in Seq(Data), n' \in Nat,
         BuffersApart(data'), PagesFit', BookkeepingAgrees', CallRuns'
  PROVE  IInv'
<1>1. DOMAIN <<>> = {} /\ <<>> \in Seq(PageRecord)
  OBVIOUS
<1>2. InUse(data, old)' = InBuffers(data')
  BY <1>1 DEF InUse, Parting
<1>3. InOrder(Memory, InUse(data, old), lost, cell)'
  BY <1>2
<1>4. OldApart' /\ OldFit' /\ old' \in Seq(PageRecord) /\ oldPool' \in Pool \cup {None}
  BY <1>1 DEF OldApart, OldFit
<1> QED BY <1>3, <1>4, InvFromParts

-------------------------------------------------------------------------------
(* The invariant holds at the start, and every step keeps it.              *)

LEMMA InitIInv == Init => IInv
<1> SUFFICES ASSUME Init PROVE IInv
  OBVIOUS
<1>1. DOMAIN <<>> = {} /\ Len(<<>>) = 0
  OBVIOUS
<1>2. /\ \A b \in Buffer : data[b] = <<>> /\ size[b] = 0 /\ availWrite[b] = 0
      /\ \A p \in Pool : stack[p] = <<>>
  BY DEF Init
<1>3. TypeOK
  <2>1. NoPos \in [page : Page \cup {None}, off : Nat]
    BY DEF NoPos
  <2>2. /\ heap \subseteq Page /\ lost \subseteq heap
        /\ cell \in [Page -> Seq(Data \cup {None})]
        /\ stack \in [Pool -> Seq(Page)]
        /\ held \subseteq Pool
        /\ pool \in [Buffer -> Pool \cup {None}]
    BY DEF Init
  <2>3. /\ data \in [Buffer -> Seq([addr : Page, parent : Pool, used : Nat])]
        /\ size \in [Buffer -> Nat] /\ availWrite \in [Buffer -> Nat]
    BY DEF Init
  <2>4. writePos \in [Buffer -> [page : Page \cup {None}, off : Nat]]
    BY <2>1 DEF Init
  <2>5. running \in Buffer \cup {None} /\ v \in Seq(Data) /\ n \in Nat
    BY DEF Init
  <2>6. old \in Seq(PageRecord) /\ oldPool \in Pool \cup {None}
    BY DEF Init
  <2>7. data \in [Buffer -> Seq(PageRecord)]
    BY DEF Init
  <2> QED BY <2>2, <2>3, <2>4, <2>5, <2>6, <2>7 DEF TypeOK
<1>4. \A a : a \notin InUse(data, old) /\ ~OnStack(stack, a)
  BY <1>1, <1>2 DEF Init, InUse, Parting, InBuffers, OnStack
<1>5. InOrder(Memory, InUse(data, old), lost, cell)
  <2>1. Memory \in Store
    BY <1>3 DEF Memory, Store, TypeOK
  <2>2. \A p \in Pool : Len(stack[p]) <= MinCache[p]
    <3>1. \A p \in Pool : MinCache[p] \in Nat
      BY PoolAssumption
    <3> QED BY <1>1, <1>2, <3>1
  <2>3. Memory.stack = stack /\ Memory.heap = {} /\ lost = {}
    BY DEF Memory, Init
  <2>4. StacksApart(stack)
    BY <1>1, <1>2 DEF StacksApart
  <2>5. \A p \in Pool : \A i \in DOMAIN stack[p] : FALSE
    BY <1>1, <1>2
  <2> QED BY <1>4, <2>1, <2>2, <2>3, <2>4, <2>5 DEF InOrder
<1>6. BuffersApart(data) /\ PagesFit /\ OldApart /\ OldFit
  BY <1>1, <1>2 DEF Init, BuffersApart, PagesFit, OldApart, OldFit
<1>7. BookkeepingAgrees
  BY <1>1, <1>2 DEF BookkeepingAgrees
<1>8. CallRuns
  BY DEF Init, CallRuns
<1> QED BY <1>3, <1>5, <1>6, <1>7, <1>8 DEF IInv

\* Nothing happens to the buffers and the pages.
LEMMA SameBuffers ==
  ASSUME IInv, UNCHANGED <<heap, lost, cell, stack, pool, data, size, writePos, availWrite>>,
         UNCHANGED <<old, oldPool>>,
         held' \subseteq Pool, running' \in Buffer \cup {None}, v' \in Seq(Data), n' \in Nat,
         CallRuns'
  PROVE  IInv'
<1>1. InOrder(Memory, InUse(data, old), lost, cell)'
  BY DEF IInv, Memory
<1>2. PagesFit' /\ BookkeepingAgrees' /\ BuffersApart(data') /\ OldApart' /\ OldFit'
  BY DEF IInv, PagesFit, BookkeepingAgrees, OldApart, OldFit
<1>3. TypeOK'
  BY DEF IInv, TypeOK
<1> QED BY <1>1, <1>2, <1>3 DEF IInv

LEMMA NewPoolOK ==
  ASSUME IInv, NEW p \in Pool, NewPool(p)
  PROVE  IInv'
<1>1. /\ UNCHANGED <<heap, lost, cell, stack, pool, data, size, writePos, availWrite, running, v, n>>
      /\ UNCHANGED <<old, oldPool>>
      /\ held' \subseteq Pool
      /\ running \in Buffer \cup {None} /\ v \in Seq(Data) /\ n \in Nat /\ CallRuns
  BY DEF NewPool, buffers, call, dying, IInv, TypeOK
<1>2. CallRuns'
  BY <1>1 DEF CallRuns
<1> QED BY <1>1, <1>2, SameBuffers

\* The addresses of the pages in use are pages.
LEMMA UsedPages ==
  ASSUME IInv
  PROVE  /\ InUse(data, old) \in SUBSET Page /\ InBuffers(data) \subseteq InUse(data, old)
         /\ \A b \in Buffer : \A i \in DOMAIN data[b] : data[b][i].addr \in InUse(data, old)
         /\ \A i \in DOMAIN old : old[i] \in PageRecord /\ old[i].addr \in InUse(data, old)
<1>1. data \in [Buffer -> Seq(PageRecord)] /\ old \in Seq(PageRecord)
  BY DEF IInv, TypeOK
<1>2. ASSUME NEW b \in Buffer, NEW i \in DOMAIN data[b] PROVE data[b][i].addr \in InBuffers(data)
  <2>1. data[b] \in Seq(PageRecord)
    BY <1>1
  <2>2. data[b][i] \in PageRecord
    BY <2>1
  <2> QED BY <2>2 DEF InBuffers, PageRecord
<1>3. ASSUME NEW i \in DOMAIN old PROVE old[i] \in PageRecord /\ old[i].addr \in Parting(old)
  <2>1. old[i] \in PageRecord
    BY <1>1
  <2> QED BY <2>1 DEF Parting, PageRecord
<1>4. InBuffers(data) \subseteq Page /\ Parting(old) \subseteq Page
  BY DEF InBuffers, Parting
<1> QED BY <1>2, <1>3, <1>4 DEF InUse

\* The buffers and the pages in use stay as they are while memory changes, or
\* some of what is being destroyed goes.
LEMMA SamePagesInUse ==
  ASSUME IInv, UNCHANGED <<pool, data, size, writePos, availWrite, running, v, n>>,
         held' \subseteq Pool, oldPool' \in Pool \cup {None}, CallRuns',
         old' \in Seq(PageRecord), OldApart', Parting(old') \subseteq Parting(old),
         \A i \in DOMAIN old' : \E j \in DOMAIN old : old'[i] = old[j],
         InOrder(Memory, InUse(data, old), lost, cell)',
         cell' \in [Page -> Seq(Data \cup {None})],
         \A a \in InUse(data, old') : cell'[a] = cell[a]
  PROVE  IInv'
<1>1. PagesFit'
  <2>1. \A b \in Buffer : \A i \in DOMAIN data[b] : data[b][i].addr \in InBuffers(data)
    <3> SUFFICES ASSUME NEW b \in Buffer, NEW i \in DOMAIN data[b]
                 PROVE  data[b][i].addr \in InBuffers(data)
      OBVIOUS
    <3>1. data[b] \in Seq(PageRecord)
      BY DEF IInv, TypeOK
    <3>2. data[b][i] \in PageRecord
      BY <3>1
    <3> QED BY <3>2 DEF InBuffers, PageRecord
  <2>2. \A b \in Buffer : \A i \in DOMAIN data[b] : cell'[data[b][i].addr] = cell[data[b][i].addr]
    BY <2>1 DEF InUse
  <2> QED BY <2>2 DEF IInv, PagesFit
<1>2. OldFit'
  <2> SUFFICES ASSUME NEW i \in DOMAIN old'
               PROVE  Len(cell'[old'[i].addr]) = PageSize[old'[i].parent]
    BY DEF OldFit
  <2>1. PICK j \in DOMAIN old : old'[i] = old[j]
    OBVIOUS
  <2>2. old'[i] \in PageRecord
    OBVIOUS
  <2>3. old'[i].addr \in InUse(data, old')
    BY <2>2 DEF InUse, Parting, PageRecord
  <2> QED BY <2>1, <2>3 DEF IInv, OldFit
<1>3. BuffersApart(data') /\ BookkeepingAgrees'
  BY DEF IInv, BookkeepingAgrees
<1>4. /\ pool' \in [Buffer -> Pool \cup {None}] /\ data' \in [Buffer -> Seq(PageRecord)]
      /\ size' \in [Buffer -> Nat] /\ availWrite' \in [Buffer -> Nat]
      /\ writePos' \in [Buffer -> [page : Page \cup {None}, off : Nat]]
      /\ running' \in Buffer \cup {None} /\ v' \in Seq(Data) /\ n' \in Nat
  BY DEF IInv, TypeOK
<1> QED BY <1>1, <1>2, <1>3, <1>4, InvFromParts

\* The last reference to a pool goes, and nothing else.
LEMMA ReferenceGoes ==
  ASSUME IInv, Expire, UNCHANGED <<pool, data, size, writePos, availWrite, running, v, n, old>>,
         held' \subseteq Pool, oldPool' \in Pool \cup {None}, CallRuns'
  PROVE  IInv' /\ \A a \in InBuffers(data) : cell'[a] = cell[a]
<1> DEFINE U == InUse(data, old)
<1>1. /\ U \in SUBSET Page /\ InOrder(Memory, U, lost, cell)
      /\ cell \in [Page -> Seq(Data \cup {None})] /\ InBuffers(data) \subseteq U
  BY UsedPages DEF IInv, TypeOK
<1>2. /\ InOrder([stack |-> stack', heap |-> heap'], U, lost', cell')
      /\ cell' \in [Page -> Seq(Data \cup {None})]
      /\ \A a \in U : cell'[a] = cell[a]
  <2> HIDE DEF U
  <2> QED BY <1>1, ExpireOK
<1>3. InOrder(Memory, U, lost, cell)' /\ \A a \in InUse(data, old') : cell'[a] = cell[a]
  BY <1>2 DEF Memory
<1>4. OldApart' /\ old' \in Seq(PageRecord)
  BY DEF IInv, TypeOK, OldApart
<1> HIDE DEF U
<1>5. \A a \in InBuffers(data) : cell'[a] = cell[a]
  BY <1>1, <1>2
<1> QED BY <1>2, <1>3, <1>4, <1>5, SamePagesInUse DEF U

LEMMA DropPoolOK ==
  ASSUME IInv, NEW p \in Pool, DropPool(p)
  PROVE  IInv' /\ \A a \in InBuffers(data) : cell'[a] = cell[a]
<1>1. /\ UNCHANGED <<pool, data, size, writePos, availWrite, running, v, n, old, oldPool>>
      /\ held' \subseteq Pool /\ Expire /\ oldPool \in Pool \cup {None}
  BY DEF DropPool, buffers, call, dying, IInv, TypeOK
<1>2. CallRuns'
  BY <1>1 DEF IInv, CallRuns
<1> QED BY <1>1, <1>2, ReferenceGoes

LEMMA ReleasePoolOK ==
  ASSUME IInv, ReleasePool
  PROVE  IInv' /\ \A a \in InBuffers(data) : cell'[a] = cell[a]
<1>1. /\ UNCHANGED <<pool, data, size, writePos, availWrite, running, v, n, old>>
      /\ held' \subseteq Pool /\ Expire /\ oldPool' = None
  BY DEF ReleasePool, buffers, call, IInv, TypeOK
<1>2. CallRuns'
  BY <1>1 DEF IInv, CallRuns
<1> QED BY <1>1, <1>2, ReferenceGoes

\* A page fewer to destroy: deleted, on the stack of its pool, or lost.
LEMMA ReturnPageStepOK ==
  ASSUME IInv, ReturnPage
  PROVE  IInv' /\ \A a \in InBuffers(data) : cell'[a] = cell[a]
<1> DEFINE page == Head(old)
           U    == InUse(data, old)
           W    == U \ {page.addr}
           m    == Len(old)
<1>1. /\ old \in Seq(PageRecord) /\ old # <<>> /\ cell \in [Page -> Seq(Data \cup {None})]
      /\ m \in Nat /\ DOMAIN old = 1 .. m /\ 1 \in DOMAIN old /\ page = old[1]
      /\ page \in PageRecord
  BY DEF ReturnPage, IInv, TypeOK
<1>2. /\ old' = Tail(old) /\ old' \in Seq(PageRecord) /\ DOMAIN old' = 1 .. m - 1
      /\ \A i \in 1 .. m - 1 : old'[i] = old[i + 1] /\ i + 1 \in DOMAIN old
  BY <1>1 DEF ReturnPage
<1>3. PICK s \in IF Alive(page.parent) THEN { returnPage(Memory, page) }
                 ELSE { Memory, [Memory EXCEPT !.heap = @ \ {page.addr}] } :
        /\ stack' = s.stack /\ heap' = s.heap
        /\ lost' = IF Alive(page.parent) THEN lost ELSE lost \cup ({page.addr} \cap s.heap)
        /\ cell' = [cell EXCEPT ![page.addr] = IF page.addr \in heap' \ lost' THEN @ ELSE <<>>]
  BY DEF ReturnPage
<1>4. UNCHANGED <<held, oldPool, pool, data, size, writePos, availWrite, running, v, n>>
  BY DEF ReturnPage, buffers, call
<1>5. /\ page.addr \in U /\ page.addr \in Page /\ U \in SUBSET Page
      /\ Len(cell[page.addr]) = PageSize[page.parent] /\ InOrder(Memory, U, lost, cell)
      /\ page.addr \notin InBuffers(data)
  BY <1>1, UsedPages DEF IInv, OldFit, OldApart
<1>6. OldApart'
  <2>1. ASSUME NEW i \in 1 .. m - 1, NEW j \in 1 .. m - 1, old'[i].addr = old'[j].addr
        PROVE  i = j
    <3>1. i + 1 = j + 1
      BY <1>2, <2>1 DEF IInv, OldApart
    <3> QED BY <3>1
  <2>2. \A i \in 1 .. m - 1 : old'[i].addr \notin InBuffers(data)
    BY <1>2 DEF IInv, OldApart
  <2> QED BY <1>2, <1>4, <2>1, <2>2 DEF OldApart
<1>7. Parting(old') = Parting(old) \ {page.addr}
  <2>1. \A i \in 1 .. m - 1 : old'[i].addr # page.addr
    <3>1. ASSUME NEW i \in 1 .. m - 1 PROVE old[i + 1].addr # old[1].addr
      <4>1. i + 1 \in DOMAIN old /\ i + 1 # 1
        BY <1>2
      <4> QED BY <1>1, <4>1 DEF IInv, OldApart
    <3> QED BY <1>1, <1>2, <3>1
  <2>2. \A i \in DOMAIN old : i = 1 \/ (i - 1 \in 1 .. m - 1 /\ old'[i - 1] = old[i])
    <3> SUFFICES ASSUME NEW i \in DOMAIN old, i # 1
                 PROVE  i - 1 \in 1 .. m - 1 /\ old'[i - 1] = old[i]
      OBVIOUS
    <3>1. i - 1 \in 1 .. m - 1 /\ i - 1 + 1 = i
      BY <1>1
    <3> QED BY <1>2, <3>1
  <2>3. ASSUME NEW a \in Parting(old') PROVE a \in Parting(old) \ {page.addr}
    <3>1. PICK i \in 1 .. m - 1 : old'[i].addr = a
      BY <1>2 DEF Parting
    <3> HIDE DEF page
    <3> QED BY <1>2, <2>1, <3>1 DEF Parting
  <2>4. ASSUME NEW a \in Parting(old), a # page.addr PROVE a \in Parting(old')
    <3>1. PICK i \in DOMAIN old : old[i].addr = a
      BY DEF Parting
    <3>2. i # 1
      BY <1>1, <2>4, <3>1
    <3>3. i - 1 \in DOMAIN old' /\ old'[i - 1].addr = a
      BY <1>2, <2>2, <3>1, <3>2
    <3> QED BY <3>3 DEF Parting
  <2> HIDE DEF page
  <2> QED BY <2>3, <2>4
<1>8. InUse(data, old') = W
  BY <1>5, <1>7 DEF InUse
<1>9. \A a \in Page : a # page.addr => cell'[a] = cell[a]
  BY <1>1, <1>3
<1>10. cell' \in [Page -> Seq(Data \cup {None})]
  <2>1. cell'[page.addr] \in Seq(Data \cup {None})
    BY <1>1, <1>3, <1>5
  <2> QED BY <1>1, <1>3, <1>5, <2>1
<1> HIDE DEF page, U, m
<1>11. InOrder(s, W, lost', cell)
  <2>1. CASE Alive(page.parent)
    <3>1. s = returnPage(Memory, page) /\ lost' = lost
      BY <1>3, <2>1
    <3> QED BY <1>1, <1>5, <3>1, ReturnPageOK
  <2>2. CASE ~Alive(page.parent)
    <3>1. s \in Store
      <4>1. Memory \in Store
        BY <1>5 DEF InOrder
      <4>2. CASE s = Memory
        BY <4>1, <4>2 DEF Memory
      <4>3. CASE s = [Memory EXCEPT !.heap = @ \ {page.addr}]
        BY <4>1, <4>3 DEF Memory, Store
      <4> QED BY <1>3, <2>2, <4>2, <4>3
    <3>2. s.stack = stack
      BY <1>3, <2>2 DEF Memory
    <3>3. lost' = lost \cup ({page.addr} \cap s.heap) /\ (s.heap = heap \/ s.heap = heap \ {page.addr})
      BY <1>3, <2>2 DEF Memory
    <3>4. /\ lost \subseteq heap /\ page.addr \in heap \ lost
          /\ \A a \in Page : a \in heap \ lost <=> a \in U \/ OnStack(stack, a)
          /\ \A a \in U : ~OnStack(stack, a)
          /\ StacksApart(stack)
          /\ \A p \in Pool : /\ Len(stack[p]) <= MinCache[p]
                             /\ \A i \in DOMAIN stack[p] : Len(cell[stack[p][i]]) = PageSize[p]
      BY <1>5 DEF InOrder, Memory
    <3>5. lost' \subseteq s.heap
      BY <3>3, <3>4
    <3>6. \A a \in Page : a \in s.heap \ lost' <=> a \in W \/ OnStack(stack, a)
      BY <1>5, <3>3, <3>4
    <3> QED BY <3>1, <3>2, <3>4, <3>5, <3>6 DEF InOrder
  <2> QED BY <2>1, <2>2
<1>12. InOrder(Memory, InUse(data, old), lost, cell)'
  <2>1. Memory' = s
    <3>1. s \in Store
      BY <1>11 DEF InOrder
    <3>2. s = [stack |-> s.stack, heap |-> s.heap]
      BY <3>1 DEF Store
    <3> QED BY <1>3, <3>2 DEF Memory
  <2>2. \A p \in Pool : \A i \in DOMAIN stack'[p] : Len(cell'[stack'[p][i]]) = PageSize[p]
    <3> SUFFICES ASSUME NEW p \in Pool, NEW i \in DOMAIN stack'[p]
                 PROVE  Len(cell'[stack'[p][i]]) = PageSize[p]
      OBVIOUS
    <3>1. s.stack = stack' /\ stack'[p] \in Seq(Page)
      BY <1>3, <1>11 DEF InOrder, Store
    <3>2. stack'[p][i] \in Page /\ OnStack(stack', stack'[p][i])
      BY <3>1 DEF OnStack
    <3>3. stack'[p][i] \in s.heap \ lost' /\ Len(cell[stack'[p][i]]) = PageSize[p]
      BY <1>11, <3>1, <3>2 DEF InOrder
    <3>4. cell'[stack'[p][i]] = cell[stack'[p][i]]
      BY <1>1, <1>3, <1>5, <3>2, <3>3
    <3> QED BY <3>3, <3>4
  <2>3. InOrder(s, W, lost', cell')
    BY <1>3, <1>11, <2>2 DEF InOrder
  <2> QED BY <1>4, <1>8, <2>1, <2>3
<1>13. \A a \in InUse(data, old') : cell'[a] = cell[a]
  BY <1>5, <1>8, <1>9
<1>14. CallRuns' /\ held' \subseteq Pool /\ oldPool' \in Pool \cup {None}
  <2>1. running = None
    BY <1>1 DEF IInv, CallRuns
  <2> QED BY <1>4, <2>1 DEF IInv, TypeOK, CallRuns
<1>15. \A i \in DOMAIN old' : \E j \in DOMAIN old : old'[i] = old[j]
  BY <1>2
<1>16. \A a \in InBuffers(data) : cell'[a] = cell[a]
  BY <1>13 DEF InUse
<1> QED BY <1>2, <1>4, <1>6, <1>7, <1>10, <1>12, <1>13, <1>14, <1>15, <1>16, SamePagesInUse

\* The buffers but b keep their pages, wherever they are now.
Overwrites(g, b) ==
  /\ \A d \in Buffer : g[d] # None => g[d] \in Buffer \ {b}
  /\ \A e \in Buffer \ {b} : \E d \in Buffer : g[d] = e

\* The pages of b are those that are to be destroyed.
PartsWith(b) == /\ old' = data[b] /\ oldPool' \in Pool \cup {None}
                /\ Expire \/ UNCHANGED <<heap, lost, cell, stack>>

LEMMA PagesHanded ==
  ASSUME IInv, Idle, NEW f, NEW g, NEW b \in Buffer, HandsOver(f, g), Become(f),
         Overwrites(g, b), PartsWith(b)
  PROVE  /\ InUse(data', old') = InUse(data, old)
         /\ \A i \in DOMAIN data[b] : data[b][i].addr \notin InBuffers(data')
<1>1. PagesOf(g)
  BY HandedPages
<1>2. InUse(data, old) = InBuffers(data) /\ Parting(old') = Parting(data[b])
  <2>1. DOMAIN <<>> = {}
    OBVIOUS
  <2> QED BY <2>1 DEF Idle, InUse, Parting, PartsWith
<1>3. ASSUME NEW a \in InBuffers(data')
      PROVE  a \in InBuffers(data) /\ \A i \in DOMAIN data[b] : data[b][i].addr # a
  <2>1. PICK d \in Buffer : /\ g[d] # None /\ a \in Page
                            /\ \E i \in DOMAIN data[g[d]] : data[g[d]][i].addr = a
    BY <1>1 DEF PagesOf
  <2>2. g[d] \in Buffer /\ g[d] # b
    BY <2>1 DEF Overwrites
  <2>3. \A i \in DOMAIN data[b] : data[b][i].addr # a
    BY <2>1, <2>2 DEF IInv, BuffersApart
  <2> QED BY <2>1, <2>2, <2>3 DEF InBuffers
<1>4. ASSUME NEW a \in InBuffers(data), a \notin Parting(data[b])
      PROVE  a \in InBuffers(data')
  <2>1. PICK e \in Buffer : \E i \in DOMAIN data[e] : data[e][i].addr = a
    BY DEF InBuffers
  <2>2. e # b /\ a \in Page
    BY <1>4, <2>1 DEF InBuffers, Parting
  <2>3. PICK d \in Buffer : g[d] = e
    BY <2>2 DEF Overwrites
  <2>4. g[d] # None
    BY <2>3, PoolAssumption
  <2> QED BY <1>1, <2>1, <2>2, <2>3, <2>4 DEF PagesOf
<1>5. Parting(data[b]) \subseteq InBuffers(data)
  BY DEF Parting, InBuffers
<1>6. InBuffers(data') \cup Parting(data[b]) = InBuffers(data)
  BY <1>3, <1>4, <1>5
<1> QED BY <1>2, <1>3, <1>6 DEF InUse

LEMMA KeptCells ==
  ASSUME IInv, Idle, NEW f, NEW g, NEW b \in Buffer, HandsOver(f, g), Become(f),
         Overwrites(g, b), PartsWith(b)
  PROVE  /\ InOrder([stack |-> stack', heap |-> heap'], InUse(data', old'), lost', cell')
         /\ cell' \in [Page -> Seq(Data \cup {None})]
         /\ \A a \in InUse(data', old') : cell'[a] = cell[a]
<1> DEFINE U == InUse(data, old)
<1>1. /\ U \in SUBSET Page /\ InOrder(Memory, U, lost, cell)
      /\ cell \in [Page -> Seq(Data \cup {None})]
  BY UsedPages DEF IInv, TypeOK
<1>2. InUse(data', old') = U
  BY PagesHanded
<1> HIDE DEF U
<1>3. CASE Expire
  BY <1>1, <1>2, <1>3, ExpireOK
<1>4. CASE UNCHANGED <<heap, lost, cell, stack>>
  <2>1. [stack |-> stack', heap |-> heap'] = Memory
    BY <1>4 DEF Memory
  <2> QED BY <1>1, <1>2, <1>4, <2>1
<1> QED BY <1>3, <1>4 DEF PartsWith

LEMMA OldNext ==
  ASSUME IInv, Idle, NEW f, NEW g, NEW b \in Buffer, HandsOver(f, g), Become(f),
         Overwrites(g, b), PartsWith(b)
  PROVE  old' \in Seq(PageRecord) /\ oldPool' \in Pool \cup {None} /\ OldApart' /\ OldFit'
<1>1. /\ data[b] \in Seq(PageRecord) /\ old' = data[b] /\ oldPool' \in Pool \cup {None}
  BY DEF IInv, TypeOK, PartsWith
<1>2. OldApart'
  <2>1. \A i, j \in DOMAIN data[b] : data[b][i].addr = data[b][j].addr => i = j
    BY DEF IInv, BuffersApart
  <2>2. \A i \in DOMAIN data[b] : data[b][i].addr \notin InBuffers(data')
    BY PagesHanded
  <2> QED BY <1>1, <2>1, <2>2 DEF OldApart
<1>3. OldFit'
  <2> SUFFICES ASSUME NEW i \in DOMAIN data[b]
               PROVE  Len(cell'[data[b][i].addr]) = PageSize[data[b][i].parent]
    BY <1>1 DEF OldFit
  <2>1. data[b][i].addr \in InUse(data', old')
    BY UsedPages, PagesHanded
  <2>2. cell'[data[b][i].addr] = cell[data[b][i].addr]
    BY <2>1, KeptCells
  <2> QED BY <2>2 DEF IInv, PagesFit
<1> QED BY <1>1, <1>2, <1>3

LEMMA HandOverOK ==
  ASSUME IInv, NEW f, NEW g, NEW b \in Buffer, HandsOver(f, g), Become(f), Overwrites(g, b),
         PartsWith(b), Idle, UNCHANGED <<held, running, v, n>>
  PROVE  IInv'
<1>1. /\ InOrder([stack |-> stack', heap |-> heap'], InUse(data', old'), lost', cell')
      /\ cell' \in [Page -> Seq(Data \cup {None})]
      /\ \A a \in InUse(data', old') : cell'[a] = cell[a]
  BY KeptCells
<1>2. running' = None /\ n' = n /\ v' = v
  BY DEF Idle
<1>6. \A a \in InBuffers(data') : cell'[a] = cell[a]
  BY <1>1 DEF InUse
<1>3. /\ pool' \in [Buffer -> Pool \cup {None}]
      /\ data' \in [Buffer -> Seq(PageRecord)]
      /\ size' \in [Buffer -> Nat] /\ availWrite' \in [Buffer -> Nat]
      /\ writePos' \in [Buffer -> [page : Page \cup {None}, off : Nat]]
      /\ BuffersApart(data') /\ PagesFit' /\ BookkeepingAgrees' /\ CallRuns'
  BY <1>2, <1>6, HandOver
<1>4. InOrder(Memory, InUse(data, old), lost, cell)'
  BY <1>1 DEF Memory
<1>5. /\ held' \subseteq Pool /\ running' \in Buffer \cup {None} /\ v' \in Seq(Data) /\ n' \in Nat
  BY <1>2 DEF IInv, TypeOK
<1>7. old' \in Seq(PageRecord) /\ oldPool' \in Pool \cup {None} /\ OldApart' /\ OldFit'
  BY OldNext
<1> QED BY <1>1, <1>3, <1>4, <1>5, <1>7, InvFromParts

\* One buffer begins or ends, the others are as they were.
LEMMA OtherFields ==
  ASSUME NEW b \in Buffer, NEW p \in Pool \cup {None}
  PROVE  \E g : /\ HandsOver([Same EXCEPT ![b] = [Nothing EXCEPT !.pool = p]], g)
                /\ Overwrites(g, b)
                /\ \A d \in Buffer : g[d] = IF d = b THEN None ELSE d
<1> DEFINE f == [Same EXCEPT ![b] = [Nothing EXCEPT !.pool = p]]
           g == [d \in Buffer |-> IF d = b THEN None ELSE d]
<1>1. f[b] = [Nothing EXCEPT !.pool = p] /\ f[b].pool = p
  BY DEF Same, Nothing
<1>2. \A d \in Buffer : d # b => f[d] = Fields(d)
  BY DEF Same
<1>3. /\ g \in [Buffer -> Buffer \cup {None}]
      /\ \A d \in Buffer : g[d] = IF d = b THEN None ELSE d
  OBVIOUS
<1>4. Overwrites(g, b)
  BY DEF Overwrites
<1> HIDE DEF f, g
<1>5. HandsOver(f, g)
  BY <1>1, <1>2, <1>3, PoolAssumption DEF HandsOver
<1> QED BY <1>3, <1>4, <1>5 DEF f

LEMMA ConstructOK ==
  ASSUME IInv, NEW b \in Buffer, NEW p \in Pool, Construct(b, p)
  PROVE  IInv'
<1> DEFINE f == [Same EXCEPT ![b] = [Nothing EXCEPT !.pool = p]]
<1>1. /\ Idle /\ pool[b] = None /\ Become(f)
      /\ UNCHANGED <<heap, lost, cell, stack, held, running, v, n, old, oldPool>>
  BY DEF Construct, call, dying
<1>2. PICK g : HandsOver(f, g) /\ Overwrites(g, b)
  BY OtherFields
<1>3. PartsWith(b)
  BY <1>1, NoPoolNoPages DEF PartsWith, Idle
<1> HIDE DEF f
<1> QED BY <1>1, <1>2, <1>3, HandOverOK

LEMMA NothingIs == Nothing = [Nothing EXCEPT !.pool = None]
BY DEF Nothing

LEMMA DestroyParts ==
  ASSUME IInv, NEW b \in Buffer, Destroy(b)
  PROVE  PartsWith(b)
<1>1. pool[b] \in Pool \cup {None}
  BY DEF IInv, TypeOK
<1> QED BY <1>1 DEF Destroy, PartsWith

LEMMA DestroyOK ==
  ASSUME IInv, NEW b \in Buffer, Destroy(b)
  PROVE  IInv'
<1> DEFINE f == [Same EXCEPT ![b] = [Nothing EXCEPT !.pool = None]]
<1>1. /\ Idle /\ Become(f) /\ UNCHANGED <<held, running, v, n>>
  BY NothingIs DEF Destroy, call
<1>2. PICK g : HandsOver(f, g) /\ Overwrites(g, b)
  BY OtherFields
<1>3. PartsWith(b)
  BY DestroyParts
<1> HIDE DEF f
<1> QED BY <1>1, <1>2, <1>3, HandOverOK

LEMMA MoveFields ==
  ASSUME NEW b \in Buffer, NEW c \in Buffer, b # c
  PROVE  \E g : /\ HandsOver([Same EXCEPT ![b] = Fields(c), ![c] = Nothing], g)
                /\ Overwrites(g, b)
                /\ g[b] = c /\ g[c] = None /\ \A d \in Buffer \ {b, c} : g[d] = d
<1> DEFINE f == [Same EXCEPT ![b] = Fields(c), ![c] = Nothing]
           g == [d \in Buffer |-> IF d = b THEN c ELSE IF d = c THEN None ELSE d]
<1>1. f[b] = Fields(c) /\ f[c] = Nothing /\ \A d \in Buffer \ {b, c} : f[d] = Fields(d)
  BY DEF Same
<1>2. Nothing.pool = None /\ Nothing = [Nothing EXCEPT !.pool = Nothing.pool]
  BY DEF Nothing
<1>3. /\ g \in [Buffer -> Buffer \cup {None}] /\ g[b] = c /\ g[c] = None
      /\ \A d \in Buffer \ {b, c} : g[d] = d
  OBVIOUS
<1>4. None \notin Buffer
  BY PoolAssumption
<1> HIDE DEF f, g
<1>5. HandsOver(f, g)
  <2>1. \A d, e \in Buffer : g[d] = g[e] /\ g[d] # None => d = e
    BY <1>3
  <2>2. ASSUME NEW d \in Buffer
        PROVE  IF g[d] = None THEN /\ f[d].pool \in Pool \cup {None}
                                   /\ f[d] = [Nothing EXCEPT !.pool = f[d].pool]
                              ELSE f[d] = Fields(g[d])
    <3>1. CASE d = b
      BY <1>1, <1>3, <1>4, <3>1
    <3>2. CASE d = c
      BY <1>1, <1>2, <1>3, <3>2
    <3>3. CASE d # b /\ d # c
      BY <1>1, <1>3, <1>4, <3>3
    <3> QED BY <3>1, <3>2, <3>3
  <2> QED BY <1>3, <2>1, <2>2 DEF HandsOver
<1>6. Overwrites(g, b)
  BY <1>3 DEF Overwrites
<1> QED BY <1>3, <1>5, <1>6 DEF f

LEMMA MoveParts ==
  ASSUME IInv, NEW b \in Buffer, NEW c \in Buffer, Move(b, c) \/ MoveAssign(b, c)
  PROVE  PartsWith(b)
<1>1. CASE Move(b, c)
  BY <1>1, NoPoolNoPages DEF Move, PartsWith, Idle, dying
<1>2. CASE MoveAssign(b, c)
  BY <1>2 DEF MoveAssign, PartsWith
<1> QED BY <1>1, <1>2

LEMMA MoveOK ==
  ASSUME IInv, NEW b \in Buffer, NEW c \in Buffer, Move(b, c) \/ MoveAssign(b, c)
  PROVE  IInv'
<1> DEFINE f == [Same EXCEPT ![b] = Fields(c), ![c] = Nothing]
<1>1. /\ Idle /\ b # c /\ Become(f) /\ UNCHANGED <<held, running, v, n>>
  BY DEF Move, MoveAssign, call
<1>2. PartsWith(b)
  BY MoveParts
<1>3. PICK g : HandsOver(f, g) /\ Overwrites(g, b)
  BY <1>1, MoveFields
<1> HIDE DEF f
<1> QED BY <1>1, <1>2, <1>3, HandOverOK

LEMMA AppendCallOK ==
  ASSUME IInv, NEW b \in Buffer, NEW x \in Inputs, AppendCall(b, x)
  PROVE  IInv'
<1>1. x \in Seq(Data) /\ x # <<>>
  BY InputAssumption
<1>2. Len(x) \in 1 .. Len(x)
  BY <1>1
<1>3. /\ UNCHANGED <<heap, lost, cell, stack, held, pool, data, size, writePos, availWrite>>
      /\ UNCHANGED <<old, oldPool>> /\ Idle
      /\ running' = b /\ v' = x /\ n' = Len(x) /\ pool[b] # None
  BY DEF AppendCall, buffers, dying
<1>4. CallRuns'
  BY <1>2, <1>3 DEF CallRuns, Idle
<1>5. held' \subseteq Pool /\ n' \in Nat
  BY <1>1, <1>3 DEF IInv, TypeOK
<1> QED BY <1>1, <1>3, <1>4, <1>5, SameBuffers

\* A page that getPage gives is in no buffer and has the pool's page size.
LEMMA PageGiven ==
  ASSUME IInv, getNewPage, NEW p \in Pool, p = pool[running], NEW a \in getPage(p),
         heap' = heap \cup {a},
         cell' = IF stack[p] = <<>>
                 THEN [cell EXCEPT ![a] = [i \in 1 .. PageSize[p] |-> None]] ELSE cell
  PROVE  /\ a \in Page \ InBuffers(data)
         /\ cell' \in [Page -> Seq(Data \cup {None})] /\ Len(cell'[a]) = PageSize[p]
         /\ \A c \in InBuffers(data) : cell'[c] = cell[c]
         /\ InOrder([stack |-> stack', heap |-> heap'], InBuffers(data) \cup {a}, lost, cell')
<1> DEFINE U == InBuffers(data)
<1>1. /\ stack' = [stack EXCEPT ![p] = IF @ = <<>> THEN @ ELSE Front(@)] /\ lost' = lost
      /\ stack \in [Pool -> Seq(Page)] /\ heap \in SUBSET Page
      /\ cell \in [Page -> Seq(Data \cup {None})] /\ PageSize[p] \in Nat /\ U \subseteq Page
  BY PoolAssumption DEF getNewPage, IInv, TypeOK, InBuffers
<1>2. /\ lost \subseteq heap
      /\ \A c \in Page : c \in heap \ lost <=> c \in U \/ OnStack(stack, c)
      /\ \A c \in U : ~OnStack(stack, c)
      /\ StacksApart(stack)
      /\ \A q \in Pool : /\ Len(stack[q]) <= MinCache[q]
                         /\ \A i \in DOMAIN stack[q] : Len(cell[stack[q][i]]) = PageSize[q]
  <2>1. InOrder(Memory, U, lost, cell)
    BY NothingOld DEF getNewPage, IInv, CallRuns
  <2> HIDE DEF U
  <2> QED BY <2>1 DEF InOrder, Memory
<1> HIDE DEF U
<1>3. CASE stack[p] = <<>>
  <2>1. a \in Page \ heap /\ stack' = stack
    BY <1>1, <1>3 DEF getPage
  <2>2. a \notin U /\ ~OnStack(stack, a) /\ a \notin lost
    BY <1>2, <2>1
  <2>3. [i \in 1 .. PageSize[p] |-> None] \in Seq(Data \cup {None})
        /\ Len([i \in 1 .. PageSize[p] |-> None]) = PageSize[p]
    BY <1>1
  <2>4. /\ cell' = [cell EXCEPT ![a] = [i \in 1 .. PageSize[p] |-> None]]
        /\ cell' \in [Page -> Seq(Data \cup {None})] /\ Len(cell'[a]) = PageSize[p]
        /\ \A c \in Page : c # a => cell'[c] = cell[c]
    BY <1>1, <1>3, <2>1, <2>3
  <2>5. \A q \in Pool : \A i \in DOMAIN stack[q] : stack[q][i] \in Page /\ stack[q][i] # a
    BY <1>1, <2>2 DEF OnStack
  <2>6. [stack |-> stack', heap |-> heap'] \in Store
    BY <1>1, <2>1 DEF Store
  <2>7. InOrder([stack |-> stack', heap |-> heap'], U \cup {a}, lost, cell')
    <3>1. \A c \in Page : c \in heap' \ lost <=> c \in U \cup {a} \/ OnStack(stack, c)
      BY <1>2, <2>1, <2>2
    <3>2. \A c \in U \cup {a} : ~OnStack(stack, c)
      BY <1>2, <2>2
    <3>3. \A q \in Pool : \A i \in DOMAIN stack[q] : Len(cell'[stack[q][i]]) = PageSize[q]
      BY <1>2, <2>4, <2>5
    <3>4. lost \subseteq heap'
      BY <1>2
    <3> QED BY <1>2, <2>1, <2>6, <3>1, <3>2, <3>3, <3>4 DEF InOrder
  <2> QED BY <1>1, <2>1, <2>2, <2>4, <2>7 DEF U
<1>4. CASE stack[p] # <<>>
  <2> DEFINE m == Len(stack[p])
  <2>1. /\ stack[p] \in Seq(Page) /\ m \in Nat /\ m > 0 /\ m \in DOMAIN stack[p]
        /\ DOMAIN stack[p] = 1 .. m
    BY <1>1, <1>4
  <2>2. a = stack[p][m] /\ stack'[p] = SubSeq(stack[p], 1, m - 1)
        /\ \A q \in Pool : q # p => stack'[q] = stack[q]
    BY <1>1, <1>4 DEF getPage, Last, Front
  <2>3. /\ SubSeq(stack[p], 1, m - 1) \in Seq(Page) /\ Len(SubSeq(stack[p], 1, m - 1)) = m - 1
        /\ \A i \in 1 .. m - 1 : SubSeq(stack[p], 1, m - 1)[i] = stack[p][i]
    BY <2>1
  <2>4. DOMAIN stack'[p] = 1 .. m - 1 /\ Len(stack'[p]) = m - 1
        /\ \A i \in 1 .. m - 1 : i \in DOMAIN stack[p] /\ stack'[p][i] = stack[p][i] /\ i # m
    BY <2>1, <2>2, <2>3
  <2>5. /\ a \in Page /\ OnStack(stack, a)
    BY <2>1, <2>2 DEF OnStack
  <2>6. heap' = heap /\ cell' = cell /\ a \notin U
    BY <1>2, <1>4, <2>5
  <2> HIDE DEF m
  <2>7. ASSUME NEW q \in Pool, NEW i \in DOMAIN stack'[q]
        PROVE  i \in DOMAIN stack[q] /\ stack'[q][i] = stack[q][i] /\ stack[q][i] # a
    <3>1. i \in DOMAIN stack[q] /\ stack'[q][i] = stack[q][i] /\ (q = p => i # m)
      BY <2>2, <2>4
    <3>2. stack[q][i] # a
      BY <1>2, <2>1, <2>2, <3>1 DEF StacksApart
    <3> QED BY <3>1, <3>2
  <2>8. ASSUME NEW q \in Pool, NEW i \in DOMAIN stack[q], stack[q][i] # a
        PROVE  i \in DOMAIN stack'[q] /\ stack'[q][i] = stack[q][i]
    <3>1. CASE q = p
      <4>1. i \in 1 .. m /\ i # m
        BY <2>1, <2>2, <2>8, <3>1
      <4>2. i \in 1 .. m - 1
        BY <2>1, <4>1
      <4> QED BY <2>4, <3>1, <4>2
    <3>2. CASE q # p
      BY <2>2, <3>2
    <3> QED BY <3>1, <3>2
  <2>9. \A c : OnStack(stack', c) <=> OnStack(stack, c) /\ c # a
    BY <2>7, <2>8 DEF OnStack
  <2>10. StacksApart(stack')
    BY <1>2, <2>7 DEF StacksApart
  <2>11. ASSUME NEW q \in Pool
         PROVE  /\ Len(stack'[q]) <= MinCache[q]
                /\ \A i \in DOMAIN stack'[q] : Len(cell[stack'[q][i]]) = PageSize[q]
    <3>1. Len(stack'[q]) <= MinCache[q]
      <4>1. CASE q = p
        <5>1. MinCache[p] \in Nat /\ m <= MinCache[p]
          BY <1>2, PoolAssumption DEF m
        <5> QED BY <2>1, <2>4, <4>1, <5>1
      <4>2. CASE q # p
        BY <1>2, <2>2, <4>2
      <4> QED BY <4>1, <4>2
    <3> QED BY <1>2, <2>7, <3>1
  <2>12. [stack |-> stack', heap |-> heap'] \in Store
    <3>1. stack' \in [Pool -> Seq(Page)]
      BY <1>1, <2>2, <2>3
    <3> QED BY <1>1, <2>6, <3>1 DEF Store
  <2>13. \A c \in Page : c \in heap \ lost <=> c \in U \cup {a} \/ OnStack(stack', c)
    BY <1>2, <2>5, <2>9
  <2>14. \A c \in U \cup {a} : ~OnStack(stack', c)
    BY <1>2, <2>9
  <2>15. InOrder([stack |-> stack', heap |-> heap'], U \cup {a}, lost, cell')
    BY <1>2, <2>6, <2>10, <2>11, <2>12, <2>13, <2>14 DEF InOrder
  <2>16. Len(cell[a]) = PageSize[p]
    BY <1>2, <2>1, <2>2
  <2> QED BY <1>1, <2>5, <2>6, <2>15, <2>16 DEF U
<1> QED BY <1>3, <1>4

LEMMA OneMore ==
  ASSUME NEW k \in Nat, NEW w \in Nat
  PROVE  (k - 1) * w + w = k * w
OBVIOUS

\* What BookkeepingAgrees says of one buffer.
Booked(d, s, avail, pos, whole) ==
  LET k    == Len(d)
      last == d[k]
  IN  IF k = 0 THEN s = 0 /\ avail = 0
      ELSE /\ \A i \in 1 .. k - 1 : d[i].used = whole
           /\ s = (k - 1) * whole + last.used
           /\ pos = [page |-> last.addr, off |-> last.used]
           /\ last.used + avail = whole

LEMMA WriteDown ==
  ASSUME NEW d, NEW s, NEW avail, NEW pos, NEW whole, Len(d) # 0,
         \A i \in 1 .. Len(d) - 1 : d[i].used = whole,
         s = (Len(d) - 1) * whole + d[Len(d)].used,
         pos = [page |-> d[Len(d)].addr, off |-> d[Len(d)].used],
         d[Len(d)].used + avail = whole
  PROVE  Booked(d, s, avail, pos, whole)
BY DEF Booked

LEMMA BookedAll ==
  BookkeepingAgrees <=>
    \A b \in Buffer : Booked(data[b], size[b], availWrite[b], writePos[b], PageSize[pool[b]])
BY DEF BookkeepingAgrees, Booked

LEMMA BookedAllNext ==
  BookkeepingAgrees' <=>
    \A b \in Buffer :
      Booked(data'[b], size'[b], availWrite'[b], writePos'[b], PageSize[pool'[b]])
BY DEF BookkeepingAgrees, Booked

LEMMA GetNewPageOK ==
  ASSUME IInv, getNewPage
  PROVE  IInv'
<1> DEFINE b == running
           p == pool[b]
           k == Len(data[b])
           U == InBuffers(data)
<1>1. /\ b \in Buffer /\ p \in Pool /\ n \in 1 .. Len(v)
      /\ pool \in [Buffer -> Pool \cup {None}]
      /\ data \in [Buffer -> Seq(PageRecord)] /\ size \in [Buffer -> Nat]
      /\ availWrite \in [Buffer -> Nat]
      /\ writePos \in [Buffer -> [page : Page \cup {None}, off : Nat]]
      /\ PageSize[p] \in Nat
  <2>1. /\ b # None /\ b \in Buffer \cup {None}
        /\ pool \in [Buffer -> Pool \cup {None}]
        /\ data \in [Buffer -> Seq(PageRecord)] /\ size \in [Buffer -> Nat]
        /\ availWrite \in [Buffer -> Nat]
        /\ writePos \in [Buffer -> [page : Page \cup {None}, off : Nat]]
    BY DEF getNewPage, IInv, TypeOK, PageRecord
  <2>2. p # None /\ n \in 1 .. Len(v)
    BY <2>1 DEF IInv, CallRuns
  <2>3. p \in Pool
    BY <2>1, <2>2
  <2> QED BY <2>1, <2>2, <2>3, PoolAssumption
<1>2. PICK a \in getPage(p) :
        /\ heap' = heap \cup {a}
        /\ cell' = IF stack[p] = <<>>
                   THEN [cell EXCEPT ![a] = [i \in 1 .. PageSize[p] |-> None]] ELSE cell
        /\ data' = [data EXCEPT ![b] = Append(@, [addr |-> a, parent |-> p, used |-> 0])]
        /\ writePos' = [writePos EXCEPT ![b] = [page |-> a, off |-> 0]]
  BY DEF getNewPage
<1>3. /\ availWrite[b] = 0
      /\ availWrite' = [availWrite EXCEPT ![b] = @ + PageSize[p]]
      /\ UNCHANGED <<lost, held, pool, size, running, v, n>>
  BY DEF getNewPage, call
<1>4. /\ a \in Page \ U
      /\ cell' \in [Page -> Seq(Data \cup {None})] /\ Len(cell'[a]) = PageSize[p]
      /\ \A c \in U : cell'[c] = cell[c]
      /\ InOrder([stack |-> stack', heap |-> heap'], U \cup {a}, lost, cell')
  BY <1>1, <1>2, PageGiven
<1> DEFINE r == [addr |-> a, parent |-> p, used |-> 0]
<1>5. r \in PageRecord /\ r.addr = a /\ r.parent = p /\ r.used = 0
  BY <1>1, <1>4 DEF PageRecord
<1>6. /\ data[b] \in Seq(PageRecord) /\ k \in Nat /\ DOMAIN data[b] = 1 .. k
  BY <1>1
<1> HIDE DEF U, r, p, b
<1>7. /\ data'[b] = Append(data[b], r) /\ data' \in [Buffer -> Seq(PageRecord)]
      /\ \A d \in Buffer : d # b => data'[d] = data[d]
  BY <1>1, <1>2, <1>5 DEF r
<1>8. /\ DOMAIN data'[b] = 1 .. k + 1 /\ Len(data'[b]) = k + 1
      /\ \A i \in 1 .. k : data'[b][i] = data[b][i]
      /\ data'[b][k + 1] = r
  BY <1>5, <1>6, <1>7
<1> HIDE DEF k
<1>9. ASSUME NEW d \in Buffer, NEW i \in DOMAIN data'[d]
      PROVE  \/ i \in DOMAIN data[d] /\ data'[d][i] = data[d][i] /\ data[d][i].addr \in U
             \/ d = b /\ i = k + 1 /\ data'[d][i] = r
  <2>1. \/ i \in DOMAIN data[d] /\ data'[d][i] = data[d][i]
        \/ d = b /\ i = k + 1 /\ data'[d][i] = r
    <3>1. CASE d = b
      <4>1. i \in 1 .. k \/ i = k + 1
        BY <1>6, <1>8, <3>1
      <4> QED BY <1>6, <1>8, <3>1, <4>1
    <3>2. CASE d # b
      BY <1>7, <3>2
    <3> QED BY <3>1, <3>2
  <2>2. ASSUME i \in DOMAIN data[d] PROVE data[d][i].addr \in U
    <3>1. data[d] \in Seq(PageRecord)
      BY <1>1
    <3>2. data[d][i] \in PageRecord
      BY <2>2, <3>1
    <3> QED BY <2>2, <3>2 DEF U, InBuffers, PageRecord
  <2> QED BY <2>1, <2>2
<1>10. ASSUME NEW d \in Buffer, NEW i \in DOMAIN data[d]
       PROVE  i \in DOMAIN data'[d] /\ data'[d][i] = data[d][i]
  <2>1. CASE d = b
    <3>1. i \in 1 .. k /\ i \in 1 .. k + 1
      BY <1>6, <2>1
    <3> QED BY <1>8, <2>1, <3>1
  <2>2. CASE d # b
    BY <1>7, <2>2
  <2> QED BY <2>1, <2>2
<1>11. InBuffers(data') = U \cup {a}
  <2> SUFFICES ASSUME NEW c \in Page PROVE c \in InBuffers(data') <=> c \in U \cup {a}
    BY <1>4 DEF InBuffers, U
  <2>1. ASSUME c \in InBuffers(data') PROVE c \in U \cup {a}
    BY <1>5, <1>9, <2>1 DEF InBuffers
  <2>2. ASSUME c \in U PROVE c \in InBuffers(data')
    BY <1>10, <2>2 DEF InBuffers, U
  <2>3. a \in InBuffers(data')
    <3>1. k + 1 \in 1 .. k + 1
      BY <1>6
    <3> QED BY <1>1, <1>4, <1>5, <1>8, <3>1 DEF InBuffers
  <2> QED BY <2>1, <2>2, <2>3
<1>12. BuffersApart(data')
  <2> SUFFICES ASSUME NEW d \in Buffer, NEW e \in Buffer, NEW i \in DOMAIN data'[d],
                      NEW j \in DOMAIN data'[e], data'[d][i].addr = data'[e][j].addr
               PROVE  d = e /\ i = j
    BY DEF BuffersApart
  <2> QED BY <1>4, <1>5, <1>9 DEF IInv, BuffersApart
<1>13. PagesFit'
  <2> SUFFICES ASSUME NEW d \in Buffer, NEW i \in DOMAIN data'[d]
               PROVE  /\ data'[d][i].parent = pool[d]
                      /\ Len(cell'[data'[d][i].addr]) = PageSize[pool[d]]
    BY <1>3 DEF PagesFit
  <2>1. CASE i \in DOMAIN data[d] /\ data'[d][i] = data[d][i] /\ data[d][i].addr \in U
    <3>1. data[d][i].parent = pool[d] /\ Len(cell[data[d][i].addr]) = PageSize[pool[d]]
      BY <2>1 DEF IInv, PagesFit
    <3> QED BY <1>4, <2>1, <3>1
  <2>2. CASE d = b /\ i = k + 1 /\ data'[d][i] = r
    BY <1>4, <1>5, <2>2 DEF p
  <2> QED BY <1>9, <2>1, <2>2
<1>14. /\ availWrite'[b] = PageSize[p] /\ writePos'[b] = [page |-> a, off |-> 0]
       /\ \A d \in Buffer : d # b => availWrite'[d] = availWrite[d] /\ writePos'[d] = writePos[d]
       /\ availWrite' \in [Buffer -> Nat]
       /\ writePos' \in [Buffer -> [page : Page \cup {None}, off : Nat]]
  <2>1. [page |-> a, off |-> 0] \in [page : Page \cup {None}, off : Nat]
    BY <1>4
  <2> QED BY <1>1, <1>2, <1>3, <2>1
<1>15. BookkeepingAgrees'
  <2>1. ASSUME NEW d \in Buffer, d # b
        PROVE  Booked(data'[d], size'[d], availWrite'[d], writePos'[d], PageSize[pool'[d]])
    BY <1>3, <1>7, <1>14, <2>1, BookedAll DEF IInv
  <2>2. \A i \in 1 .. k : data[b][i].used = PageSize[p]
    <3>1. CASE k = 0
      BY <3>1
    <3>2. CASE k # 0
      <4>1. /\ \A i \in 1 .. k - 1 : data[b][i].used = PageSize[p]
            /\ data[b][k].used + 0 = PageSize[p]
        BY <1>1, <1>3, <3>2 DEF IInv, BookkeepingAgrees, k, p
      <4>2. data[b][k].used = PageSize[p]
        <5>1. k \in 1 .. k
          BY <1>6, <3>2
        <5>2. data[b][k] \in PageRecord
          BY <1>6, <5>1
        <5> QED BY <4>1, <5>2 DEF PageRecord
      <4>3. \A i \in 1 .. k : i \in 1 .. k - 1 \/ i = k
        BY <1>6
      <4> QED BY <4>1, <4>2, <4>3
    <3> QED BY <3>1, <3>2
  <2>3. size[b] = k * PageSize[p]
    <3>1. CASE k = 0
      <4>1. size[b] = 0 /\ 0 * PageSize[p] = 0
        BY <1>1, <3>1 DEF IInv, BookkeepingAgrees, k
      <4> QED BY <3>1, <4>1
    <3>2. CASE k # 0
      <4>1. size[b] = (k - 1) * PageSize[p] + data[b][k].used
        BY <1>1, <3>2 DEF IInv, BookkeepingAgrees, k, p
      <4>2. data[b][k].used = PageSize[p]
        BY <1>6, <2>2, <3>2
      <4> QED BY <1>1, <1>6, <4>1, <4>2, OneMore
    <3> QED BY <3>1, <3>2
  <2>4. /\ Len(data'[b]) = k + 1 /\ data'[b][k + 1] = r /\ pool'[b] = p /\ size'[b] = size[b]
        /\ k + 1 # 0 /\ k + 1 - 1 = k
    BY <1>3, <1>6, <1>8 DEF p
  <2>5. /\ \A i \in 1 .. k + 1 - 1 : data'[b][i].used = PageSize[p]
        /\ size'[b] = (k + 1 - 1) * PageSize[p] + r.used
        /\ writePos'[b] = [page |-> r.addr, off |-> r.used]
        /\ r.used + availWrite'[b] = PageSize[p]
    <3>1. \A i \in 1 .. k : data'[b][i].used = PageSize[p]
      BY <1>8, <2>2
    <3>2. k * PageSize[p] + 0 = k * PageSize[p]
      BY <1>1, <1>6
    <3> QED BY <1>1, <1>5, <1>14, <2>3, <2>4, <3>1, <3>2
  <2>6. Booked(data'[b], size'[b], availWrite'[b], writePos'[b], PageSize[pool'[b]])
    <3>1. Len(data'[b]) # 0
      BY <2>4
    <3>2. data'[b][Len(data'[b])] = r
      BY <2>4
    <3>3. \A i \in 1 .. Len(data'[b]) - 1 : data'[b][i].used = PageSize[pool'[b]]
      BY <1>1, <1>6, <2>4, <2>5
    <3>4. size'[b] = (Len(data'[b]) - 1) * PageSize[pool'[b]] + r.used
      BY <1>1, <1>6, <2>4, <2>5
    <3>5. writePos'[b] = [page |-> r.addr, off |-> r.used]
      BY <2>5
    <3>6. r.used + availWrite'[b] = PageSize[pool'[b]]
      BY <2>4, <2>5
    <3> QED BY <3>1, <3>2, <3>3, <3>4, <3>5, <3>6, WriteDown, Zenon
  <2> QED BY <2>1, <2>6, BookedAllNext
<1>16. InOrder(Memory, InBuffers(data), lost, cell)'
  BY <1>3, <1>4, <1>11 DEF Memory
<1>18. old' = <<>> /\ oldPool' = None
  BY DEF getNewPage, dying, IInv, CallRuns
<1>17. CallRuns' /\ held' \subseteq Pool /\ running' \in Buffer \cup {None}
       /\ v' \in Seq(Data) /\ n' \in Nat /\ pool' \in [Buffer -> Pool \cup {None}]
       /\ size' \in [Buffer -> Nat]
  BY <1>3, <1>18 DEF IInv, TypeOK, CallRuns
<1> QED BY <1>4, <1>7, <1>12, <1>13, <1>14, <1>15, <1>16, <1>17, <1>18, InvWhenWhole

LEMMA SourceIndex ==
  ASSUME NEW l \in Nat, NEW m \in 1 .. l, NEW z \in 1 .. m, NEW off \in Nat,
         NEW i \in off + 1 .. off + z
  PROVE  l - m + 1 + i - off - 1 \in 1 .. l
OBVIOUS

\* What a chunk of append is, by the guards and the invariant.
LEMMA ChunkStep ==
  ASSUME IInv, AppendChunk
  PROVE  LET b    == running
             p    == pool[b]
             k    == Len(data[b])
             last == data[b][k]
             sz   == ChunkSize
         IN
         /\ /\ b \in Buffer /\ p \in Pool /\ n \in 1 .. Len(v) /\ v \in Seq(Data) /\ Len(v) \in Nat
            /\ pool \in [Buffer -> Pool \cup {None}]
            /\ data \in [Buffer -> Seq(PageRecord)] /\ size \in [Buffer -> Nat]
            /\ availWrite \in [Buffer -> Nat]
            /\ writePos \in [Buffer -> [page : Page \cup {None}, off : Nat]]
            /\ cell \in [Page -> Seq(Data \cup {None})]
            /\ PageSize[p] \in Nat
         /\ /\ cell' = [cell EXCEPT ![writePos[b].page] =
                          [i \in DOMAIN @ |-> IF i \in writePos[b].off + 1 .. writePos[b].off + sz
                                              THEN v[Len(v) - n + 1 + i - writePos[b].off - 1]
                                              ELSE @[i]]]
            /\ writePos' = [writePos EXCEPT ![b].off = @ + sz]
            /\ size' = [size EXCEPT ![b] = @ + sz]
            /\ availWrite' = [availWrite EXCEPT ![b] = @ - sz]
            /\ data' = [data EXCEPT ![b][k].used = @ + sz]
            /\ IF n = sz THEN running' = None /\ v' = <<>> /\ n' = 0
                         ELSE running' = b /\ v' = v /\ n' = n - sz
            /\ UNCHANGED <<heap, lost, stack, held, pool>>
         /\ sz \in Nat /\ sz \in 1 .. n /\ sz <= availWrite[b] /\ availWrite[b] # 0 /\ n \in Nat
         /\ /\ k # 0
            /\ \A i \in 1 .. k - 1 : data[b][i].used = PageSize[p]
            /\ size[b] = (k - 1) * PageSize[p] + last.used
            /\ writePos[b] = [page |-> last.addr, off |-> last.used]
            /\ last.used + availWrite[b] = PageSize[p]
<1> DEFINE b    == running
           p    == pool[b]
           k    == Len(data[b])
           last == data[b][k]
           sz   == ChunkSize
<1>1. /\ b \in Buffer /\ p \in Pool /\ n \in 1 .. Len(v) /\ v \in Seq(Data) /\ Len(v) \in Nat
      /\ pool \in [Buffer -> Pool \cup {None}]
      /\ data \in [Buffer -> Seq(PageRecord)] /\ size \in [Buffer -> Nat]
      /\ availWrite \in [Buffer -> Nat]
      /\ writePos \in [Buffer -> [page : Page \cup {None}, off : Nat]]
      /\ cell \in [Page -> Seq(Data \cup {None})]
      /\ PageSize[p] \in Nat
  <2>1. /\ b # None /\ b \in Buffer \cup {None} /\ v \in Seq(Data)
        /\ pool \in [Buffer -> Pool \cup {None}]
        /\ data \in [Buffer -> Seq(PageRecord)] /\ size \in [Buffer -> Nat]
        /\ availWrite \in [Buffer -> Nat]
        /\ writePos \in [Buffer -> [page : Page \cup {None}, off : Nat]]
        /\ cell \in [Page -> Seq(Data \cup {None})]
    BY DEF AppendChunk, Appending, IInv, TypeOK, PageRecord
  <2>2. p # None /\ n \in 1 .. Len(v)
    BY <2>1 DEF IInv, CallRuns
  <2>3. p \in Pool
    BY <2>1, <2>2
  <2> QED BY <2>1, <2>2, <2>3, PoolAssumption
<1>2. /\ cell' = [cell EXCEPT ![writePos[b].page] =
                    [i \in DOMAIN @ |-> IF i \in writePos[b].off + 1 .. writePos[b].off + sz
                                        THEN v[Len(v) - n + 1 + i - writePos[b].off - 1]
                                        ELSE @[i]]]
      /\ writePos' = [writePos EXCEPT ![b].off = @ + sz]
      /\ size' = [size EXCEPT ![b] = @ + sz]
      /\ availWrite' = [availWrite EXCEPT ![b] = @ - sz]
      /\ data' = [data EXCEPT ![b][k].used = @ + sz]
      /\ IF n = sz THEN running' = None /\ v' = <<>> /\ n' = 0
                   ELSE running' = b /\ v' = v /\ n' = n - sz
      /\ UNCHANGED <<heap, lost, stack, held, pool>>
  BY DEF AppendChunk, CopyChunk
<1>3. sz \in Nat /\ sz \in 1 .. n /\ sz <= availWrite[b] /\ availWrite[b] # 0 /\ n \in Nat
  <2>1. availWrite[b] > 0 /\ availWrite[b] \in Nat
    BY <1>1 DEF AppendChunk, Appending
  <2> QED BY <1>1, <2>1 DEF ChunkSize, Least
<1> HIDE DEF b, p, sz
<1>4. k \in Nat /\ DOMAIN data[b] = 1 .. k /\ data[b] \in Seq(PageRecord)
  BY <1>1
<1>5. /\ k # 0
      /\ \A i \in 1 .. k - 1 : data[b][i].used = PageSize[p]
      /\ size[b] = (k - 1) * PageSize[p] + last.used
      /\ writePos[b] = [page |-> last.addr, off |-> last.used]
      /\ last.used + availWrite[b] = PageSize[p]
  <2>1. Booked(data[b], size[b], availWrite[b], writePos[b], PageSize[p])
    BY <1>1, BookedAll DEF IInv, p
  <2> QED BY <1>3, <2>1 DEF Booked
<1> QED BY <1>1, <1>2, <1>3, <1>5 DEF b, p, sz

\* Only how full the last page is, and the bytes in it, change.
LEMMA AppendChunkOK ==
  ASSUME IInv, AppendChunk
  PROVE  IInv'
<1> DEFINE b    == running
           p    == pool[b]
           k    == Len(data[b])
           last == data[b][k]
           sz   == ChunkSize
           new  == [last EXCEPT !.used = @ + sz]
<1>1. /\ b \in Buffer /\ p \in Pool /\ n \in 1 .. Len(v) /\ v \in Seq(Data) /\ Len(v) \in Nat
      /\ pool \in [Buffer -> Pool \cup {None}]
      /\ data \in [Buffer -> Seq(PageRecord)] /\ size \in [Buffer -> Nat]
      /\ availWrite \in [Buffer -> Nat]
      /\ writePos \in [Buffer -> [page : Page \cup {None}, off : Nat]]
      /\ cell \in [Page -> Seq(Data \cup {None})]
      /\ PageSize[p] \in Nat
  BY ChunkStep
<1>2. /\ cell' = [cell EXCEPT ![writePos[b].page] =
                    [i \in DOMAIN @ |-> IF i \in writePos[b].off + 1 .. writePos[b].off + sz
                                        THEN v[Len(v) - n + 1 + i - writePos[b].off - 1]
                                        ELSE @[i]]]
      /\ writePos' = [writePos EXCEPT ![b].off = @ + sz]
      /\ size' = [size EXCEPT ![b] = @ + sz]
      /\ availWrite' = [availWrite EXCEPT ![b] = @ - sz]
      /\ data' = [data EXCEPT ![b][k].used = @ + sz]
      /\ IF n = sz THEN running' = None /\ v' = <<>> /\ n' = 0
                   ELSE running' = b /\ v' = v /\ n' = n - sz
      /\ UNCHANGED <<heap, lost, stack, held, pool>>
  BY ChunkStep
<1>3. sz \in Nat /\ sz \in 1 .. n /\ sz <= availWrite[b] /\ availWrite[b] # 0 /\ n \in Nat
  BY ChunkStep
<1>5. /\ k # 0
      /\ \A i \in 1 .. k - 1 : data[b][i].used = PageSize[p]
      /\ size[b] = (k - 1) * PageSize[p] + last.used
      /\ writePos[b] = [page |-> last.addr, off |-> last.used]
      /\ last.used + availWrite[b] = PageSize[p]
  BY ChunkStep
<1> HIDE DEF b, p, sz
<1>4. k \in Nat /\ DOMAIN data[b] = 1 .. k /\ data[b] \in Seq(PageRecord)
  BY <1>1
<1>6. k \in 1 .. k /\ last \in PageRecord
  BY <1>4, <1>5
<1>7. last.addr \in Page /\ last.parent \in Pool /\ last.used \in Nat
  BY <1>6 DEF PageRecord
<1>8. new \in PageRecord /\ new.addr = last.addr /\ new.parent = last.parent
      /\ new.used = last.used + sz
  BY <1>3, <1>6, <1>7 DEF PageRecord
<1> HIDE DEF k, new, last
<1>9. /\ data' = [data EXCEPT ![b] = [data[b] EXCEPT ![k] = new]]
  BY <1>1, <1>2, <1>4, <1>6 DEF new, last
<1>10. /\ data'[b] \in Seq(PageRecord) /\ DOMAIN data'[b] = 1 .. k /\ Len(data'[b]) = k
       /\ data'[b][k] = new /\ \A i \in 1 .. k : i # k => data'[b][i] = data[b][i]
       /\ \A d \in Buffer : d # b => data'[d] = data[d]
       /\ data' \in [Buffer -> Seq(PageRecord)]
  <2>1. [data[b] EXCEPT ![k] = new] \in Seq(PageRecord)
    BY <1>4, <1>6, <1>8
  <2> QED BY <1>1, <1>4, <1>6, <1>8, <1>9, <2>1
<1>11. ASSUME NEW d \in Buffer
       PROVE  /\ DOMAIN data'[d] = DOMAIN data[d]
              /\ \A i \in DOMAIN data[d] : /\ data'[d][i].addr = data[d][i].addr
                                           /\ data'[d][i].parent = data[d][i].parent
  <2>1. CASE d = b
    <3>1. ASSUME NEW i \in 1 .. k
          PROVE  data'[b][i].addr = data[b][i].addr /\ data'[b][i].parent = data[b][i].parent
      <4>1. CASE i = k
        BY <1>8, <1>10, <4>1 DEF last
      <4>2. CASE i # k
        BY <1>10, <4>2
      <4> QED BY <4>1, <4>2
    <3> QED BY <1>4, <1>10, <2>1, <3>1
  <2>2. CASE d # b
    BY <1>10, <2>2
  <2> QED BY <2>1, <2>2
<1>12. InBuffers(data') = InBuffers(data)
  BY <1>11 DEF InBuffers
<1>13. BuffersApart(data')
  BY <1>11 DEF IInv, BuffersApart
<1>14. /\ cell' \in [Page -> Seq(Data \cup {None})]
       /\ \A c \in Page : Len(cell'[c]) = Len(cell[c])
  <2> DEFINE a    == last.addr
             off  == last.used
             text == [i \in DOMAIN cell[a] |-> IF i \in off + 1 .. off + sz
                                              THEN v[Len(v) - n + 1 + i - off - 1]
                                              ELSE cell[a][i]]
  <2>1. cell' = [cell EXCEPT ![a] = text]
    <3>1. writePos[b].page = a /\ writePos[b].off = off
      BY <1>5
    <3> QED BY <1>1, <1>2, <1>7, <3>1
  <2>2. cell[a] \in Seq(Data \cup {None}) /\ Len(cell[a]) \in Nat
        /\ DOMAIN cell[a] = 1 .. Len(cell[a])
    BY <1>1, <1>7
  <2>3. ASSUME NEW i \in 1 .. Len(cell[a]) PROVE text[i] \in Data \cup {None}
    <3>1. CASE i \in off + 1 .. off + sz
      <4>1. Len(v) - n + 1 + i - off - 1 \in 1 .. Len(v)
        BY <1>1, <1>3, <1>7, <3>1, SourceIndex
      <4>2. v[Len(v) - n + 1 + i - off - 1] \in Data
        BY <1>1, <4>1
      <4> QED BY <2>2, <3>1, <4>2
    <3>2. CASE i \notin off + 1 .. off + sz
      BY <2>2, <3>2
    <3> QED BY <3>1, <3>2
  <2>4. text \in [1 .. Len(cell[a]) -> Data \cup {None}]
    <3>1. text = [i \in 1 .. Len(cell[a]) |-> text[i]]
      BY <2>2
    <3> HIDE DEF text
    <3> QED BY <2>3, <3>1
  <2> HIDE DEF text
  <2>5. text \in Seq(Data \cup {None}) /\ Len(text) = Len(cell[a])
    BY <2>2, <2>4
  <2> HIDE DEF a
  <2> QED BY <1>1, <1>7, <2>1, <2>5 DEF a
<1>15. PagesFit'
  <2> SUFFICES ASSUME NEW d \in Buffer, NEW i \in DOMAIN data'[d]
               PROVE  /\ data'[d][i].parent = pool[d]
                      /\ Len(cell'[data'[d][i].addr]) = PageSize[pool[d]]
    BY <1>2 DEF PagesFit
  <2>1. i \in DOMAIN data[d] /\ data[d] \in Seq(PageRecord)
    BY <1>1, <1>11
  <2>2. data[d][i] \in PageRecord
    BY <2>1
  <2>3. data[d][i].addr \in Page
    BY <2>2 DEF PageRecord
  <2>4. data[d][i].parent = pool[d] /\ Len(cell[data[d][i].addr]) = PageSize[pool[d]]
    BY <2>1 DEF IInv, PagesFit
  <2> QED BY <1>11, <1>14, <2>1, <2>3, <2>4
<1>16. InOrder(Memory, InBuffers(data), lost, cell)'
  <2>1. Memory' = Memory /\ lost' = lost
    BY <1>2 DEF Memory
  <2>2. InOrder(Memory, InBuffers(data), lost, cell)
    BY NothingOld DEF AppendChunk, Appending, IInv, CallRuns
  <2>3. \A q \in Pool : \A i \in DOMAIN stack[q] : Len(cell'[stack[q][i]]) = PageSize[q]
    <3> SUFFICES ASSUME NEW q \in Pool, NEW i \in DOMAIN stack[q]
                 PROVE  Len(cell'[stack[q][i]]) = PageSize[q]
      OBVIOUS
    <3>1. stack[q] \in Seq(Page)
      BY DEF IInv, TypeOK
    <3>2. stack[q][i] \in Page /\ Len(cell[stack[q][i]]) = PageSize[q]
      BY <2>2, <3>1 DEF InOrder, Memory
    <3> QED BY <1>14, <3>2
  <2>4. InOrder(Memory, InBuffers(data), lost, cell')
    BY <2>2, <2>3 DEF InOrder, Memory
  <2> QED BY <1>12, <2>1, <2>4
<1>17. /\ availWrite' \in [Buffer -> Nat] /\ availWrite'[b] = availWrite[b] - sz
       /\ size' \in [Buffer -> Nat] /\ size'[b] = size[b] + sz
       /\ writePos' \in [Buffer -> [page : Page \cup {None}, off : Nat]]
       /\ writePos'[b] = [page |-> last.addr, off |-> last.used + sz]
       /\ \A d \in Buffer : d # b => /\ availWrite'[d] = availWrite[d] /\ size'[d] = size[d]
                                     /\ writePos'[d] = writePos[d]
  <2>1. availWrite[b] - sz \in Nat /\ size[b] + sz \in Nat
    BY <1>1, <1>3
  <2>2. [writePos[b] EXCEPT !.off = @ + sz] = [page |-> last.addr, off |-> last.used + sz]
    BY <1>5
  <2>3. [page |-> last.addr, off |-> last.used + sz] \in [page : Page \cup {None}, off : Nat]
    BY <1>3, <1>7
  <2>4. writePos' = [writePos EXCEPT ![b] = [page |-> last.addr, off |-> last.used + sz]]
    BY <1>1, <1>2, <2>2
  <2> QED BY <1>1, <1>2, <2>1, <2>3, <2>4
<1>18. BookkeepingAgrees'
  <2>1. ASSUME NEW d \in Buffer, d # b
        PROVE  Booked(data'[d], size'[d], availWrite'[d], writePos'[d], PageSize[pool'[d]])
    BY <1>2, <1>10, <1>17, <2>1, BookedAll DEF IInv
  <2>2. Booked(data'[b], size'[b], availWrite'[b], writePos'[b], PageSize[pool'[b]])
    <3>1. pool'[b] = p /\ Len(data'[b]) = k /\ data'[b][Len(data'[b])] = new /\ Len(data'[b]) # 0
      BY <1>2, <1>5, <1>10 DEF p
    <3>2. \A i \in 1 .. Len(data'[b]) - 1 : data'[b][i].used = PageSize[pool'[b]]
      <4>1. \A i \in 1 .. k - 1 : i \in 1 .. k /\ i # k
        BY <1>4
      <4> QED BY <1>4, <1>5, <1>10, <3>1, <4>1
    <3>3. size'[b] = (Len(data'[b]) - 1) * PageSize[pool'[b]] + new.used
      <4>1. (k - 1) * PageSize[p] \in Int
        BY <1>1, <1>4
      <4>2. (k - 1) * PageSize[p] + last.used + sz = (k - 1) * PageSize[p] + (last.used + sz)
        BY <1>3, <1>7, <4>1
      <4>3. size'[b] = (k - 1) * PageSize[p] + new.used
        BY <1>5, <1>8, <1>17, <4>2
      <4> QED BY <1>1, <1>4, <3>1, <4>3
    <3>4. writePos'[b] = [page |-> new.addr, off |-> new.used]
      BY <1>8, <1>17
    <3>5. new.used + availWrite'[b] = PageSize[pool'[b]]
      BY <1>1, <1>3, <1>5, <1>7, <1>8, <1>17, <3>1
    <3> QED BY <3>1, <3>2, <3>3, <3>4, <3>5, WriteDown, Zenon
  <2> QED BY <2>1, <2>2, BookedAllNext
<1>21. old' = <<>> /\ oldPool' = None
  BY DEF AppendChunk, Appending, CopyChunk, dying, IInv, CallRuns
<1>19. /\ CallRuns' /\ running' \in Buffer \cup {None} /\ v' \in Seq(Data) /\ n' \in Nat
  <2>1. CASE n = sz
    BY <1>2, <2>1 DEF CallRuns
  <2>2. CASE n # sz
    <3>1. n - sz \in 1 .. Len(v) /\ n - sz \in Nat
      BY <1>1, <1>3, <2>2
    <3>2. running' = b /\ v' = v /\ n' = n - sz /\ pool' = pool
      BY <1>2, <2>2
    <3>3. pool[running'] # None
      BY <1>1, <3>2, PoolAssumption DEF p
    <3> QED BY <1>1, <1>21, <3>1, <3>2, <3>3 DEF CallRuns
  <2> QED BY <2>1, <2>2
<1>20. held' \subseteq Pool /\ pool' \in [Buffer -> Pool \cup {None}]
  BY <1>2 DEF IInv, TypeOK
<1> QED BY <1>10, <1>13, <1>14, <1>15, <1>16, <1>17, <1>18, <1>19, <1>20, <1>21, InvWhenWhole

LEMMA NextIInv ==
  ASSUME IInv, [Next]_vars
  PROVE  IInv'
<1>1. CASE \E p \in Pool : NewPool(p)
  BY <1>1, NewPoolOK
<1>2. CASE \E p \in Pool : DropPool(p)
  BY <1>2, DropPoolOK
<1>3. CASE \E b \in Buffer, p \in Pool : Construct(b, p)
  BY <1>3, ConstructOK
<1>4. CASE \E b \in Buffer, x \in Inputs : AppendCall(b, x)
  BY <1>4, AppendCallOK
<1>5. CASE \E b, c \in Buffer : Move(b, c) \/ MoveAssign(b, c)
  BY <1>5, MoveOK
<1>6. CASE \E b \in Buffer : Destroy(b)
  BY <1>6, DestroyOK
<1>7. CASE getNewPage
  BY <1>7, GetNewPageOK
<1>8. CASE AppendChunk
  BY <1>8, AppendChunkOK
<1>9. CASE UNCHANGED vars
  <2>1. UNCHANGED <<heap, lost, cell, stack, pool, data, size, writePos, availWrite>>
        /\ UNCHANGED <<held, running, v, n, old, oldPool>>
    BY <1>9 DEF vars
  <2>2. held \subseteq Pool /\ running \in Buffer \cup {None} /\ v \in Seq(Data) /\ n \in Nat
        /\ CallRuns
    BY DEF IInv, TypeOK
  <2> QED BY <2>1, <2>2, SameBuffers DEF CallRuns
<1>10. CASE ReturnPage
  BY <1>10, ReturnPageStepOK
<1>11. CASE ReleasePool
  BY <1>11, ReleasePoolOK
<1> QED BY <1>1, <1>2, <1>3, <1>4, <1>5, <1>6, <1>7, <1>8, <1>9, <1>10, <1>11 DEF Next

-------------------------------------------------------------------------------
(* The theorems                                                            *)

(* What every operation and every step of append keeps: the pages are in   *)
(* order, each in one place, the counts of every buffer agree, and the     *)
(* append that runs has bytes left to copy.                                *)
THEOREM InductiveInvariant == Spec => []IInv
<1>1. Init => IInv
  BY InitIInv
<1>2. IInv /\ [Next]_vars => IInv'
  BY NextIInv
<1> QED BY <1>1, <1>2, PTL DEF Spec

(* The members of every buffer and pool keep their types; no offset or     *)
(* count falls below zero (the unsigned subtractions of append).           *)
THEOREM TypeCorrect == Spec => []TypeOK
<1>1. IInv => TypeOK
  BY DEF IInv
<1> QED BY <1>1, InductiveInvariant, PTL

(* The counts of a buffer never part (append, getNewPage).                 *)
THEOREM CountsAgree == Spec => []BookkeepingAgrees
<1>1. IInv => BookkeepingAgrees
  BY DEF IInv
<1> QED BY <1>1, InductiveInvariant, PTL

\* Who is about to lose a page still has its pool.
PoolsThere == \A i \in DOMAIN old : Alive(old[i].parent)

LEMMA PoolsThereKept ==
  ASSUME IInv, PoolsThere, [Next]_vars, DropsLast = FALSE
  PROVE  PoolsThere'
<1>1. CASE old' = <<>>
  <2>1. DOMAIN <<>> = {}
    OBVIOUS
  <2> QED BY <1>1, <2>1 DEF PoolsThere
<1>2. CASE UNCHANGED <<held, pool, oldPool>> /\ \A i \in DOMAIN old' : \E j \in DOMAIN old : old'[i] = old[j]
  BY <1>2 DEF PoolsThere, Alive
<1>3. ASSUME NEW b \in Buffer, Destroy(b) PROVE PoolsThere'
  BY <1>3 DEF Destroy, PoolsThere, Alive, IInv, PagesFit
<1>4. ASSUME NEW b \in Buffer, NEW c \in Buffer, MoveAssign(b, c) PROVE PoolsThere'
  <2>1. /\ \A i \in DOMAIN old' : old'[i].parent = pool[b]
        /\ held' = held /\ b # c
        /\ pool[b] \in held \/ \E d \in Buffer \ {b} : pool[d] = pool[b]
        /\ pool' = [d \in Buffer |-> [Same EXCEPT ![b] = Fields(c), ![c] = Nothing][d].pool]
    BY <1>4 DEF MoveAssign, Become, IInv, PagesFit
  <2>2. pool'[b] = pool[c] /\ \A d \in Buffer \ {b, c} : pool'[d] = pool[d]
    BY <2>1 DEF Same, Fields
  <2>3. pool[b] \in held' \/ \E d \in Buffer : pool'[d] = pool[b]
    BY <2>1, <2>2
  <2> QED BY <2>1, <2>3 DEF PoolsThere, Alive
<1>5. CASE ReturnPage
  <2>1. old \in Seq(PageRecord) /\ old # <<>> /\ old' = Tail(old)
    BY <1>5 DEF ReturnPage, IInv, TypeOK
  <2>2. \A i \in DOMAIN old' : i + 1 \in DOMAIN old /\ old'[i] = old[i + 1]
    BY <2>1
  <2>3. UNCHANGED <<held, pool, oldPool>>
    BY <1>5 DEF ReturnPage, buffers
  <2> QED BY <1>2, <2>2, <2>3
<1>6. CASE UNCHANGED <<held, pool, oldPool, old>>
  BY <1>6 DEF PoolsThere, Alive
<1>7. CASE ReleasePool
  BY <1>1, <1>7 DEF ReleasePool
<1>8. CASE Idle /\ old' = old
  BY <1>1, <1>8 DEF Idle
<1>9. ASSUME NEW p \in Pool, NewPool(p) \/ DropPool(p) PROVE PoolsThere'
  BY <1>8, <1>9 DEF NewPool, DropPool, dying
<1>10. ASSUME NEW b \in Buffer,
              \/ \E p \in Pool : Construct(b, p)
              \/ \E x \in Inputs : AppendCall(b, x)
              \/ \E c \in Buffer : Move(b, c)
       PROVE  PoolsThere'
  BY <1>8, <1>10 DEF Construct, AppendCall, Move, dying
<1>11. CASE getNewPage \/ AppendChunk
  BY <1>6, <1>11 DEF getNewPage, AppendChunk, CopyChunk, dying
<1>12. CASE UNCHANGED vars
  BY <1>6, <1>12 DEF vars
<1> QED BY <1>3, <1>4, <1>5, <1>7, <1>9, <1>10, <1>11, <1>12 DEF Next

(* When a page is destroyed its m_parent is a pool that lives and made it: *)
(* m_data goes before m_pool in the destructor, and before an assignment   *)
(* callers have seen to it that the old pool survives (DropsLast).  No     *)
(* stack grows past m_minNumberPageCahce (returnPage, the implicit moves). *)
THEOREM PagesOutlivedByPools == DropsLast = FALSE => (Spec => []ParentsAlive)
<1> SUFFICES ASSUME DropsLast = FALSE PROVE Spec => []ParentsAlive
  OBVIOUS
<1>1. ASSUME IInv, PoolsThere PROVE ParentsAlive
  <2>1. /\ InOrder(Memory, InUse(data, old), lost, cell) /\ PagesFit /\ OldFit
    BY <1>1 DEF IInv
  <2>2. ASSUME NEW page \in LivePages
        PROVE  Alive(page.parent) /\ Len(cell[page.addr]) = PageSize[page.parent]
    <3>1. CASE \E b \in Buffer : page \in ToSet(data[b])
      <4>1. PICK b \in Buffer : \E i \in DOMAIN data[b] : page = data[b][i]
        BY <3>1 DEF ToSet
      <4>2. page.parent = pool[b] /\ Len(cell[page.addr]) = PageSize[pool[b]]
        BY <2>1, <4>1 DEF PagesFit
      <4>3. Alive(pool[b])
        BY DEF Alive
      <4> QED BY <4>2, <4>3
    <3>2. CASE page \in ToSet(old)
      <4>1. PICK i \in DOMAIN old : page = old[i]
        BY <3>2 DEF ToSet
      <4> QED BY <1>1, <2>1, <4>1 DEF PoolsThere, OldFit
    <3> QED BY <3>1, <3>2 DEF LivePages
  <2>3. ASSUME NEW p \in Pool
        PROVE  Len(stack[p]) <= MinCache[p] /\ \A a \in Cached(p) : Len(cell[a]) = PageSize[p]
    BY <2>1 DEF InOrder, Memory, Cached
  <2> QED BY <2>2, <2>3 DEF ParentsAlive
<1>2. Init => PoolsThere
  <2>1. DOMAIN <<>> = {}
    OBVIOUS
  <2> QED BY <2>1 DEF Init, PoolsThere
<1>3. IInv /\ PoolsThere /\ [Next]_vars => PoolsThere'
  BY PoolsThereKept
<1> QED BY <1>1, <1>2, <1>3, InductiveInvariant, PTL DEF Spec

(* Every page is in one place, and what is nowhere has been deleted        *)
(* (getPage, returnPage, the implicit moves and the destructors).          *)
THEOREM OnePlaceForAPage == Spec => []PagesOwnedOnce
<1>1. ASSUME IInv PROVE PagesOwnedOnce
  <2> DEFINE BS == UNION { {b} \X DOMAIN data[b] : b \in Buffer }
             OS == {None} \X DOMAIN old
             PS == UNION { {p} \X DOMAIN stack[p] : p \in Pool }
  <2>1. /\ data \in [Buffer -> Seq(PageRecord)] /\ stack \in [Pool -> Seq(Page)]
        /\ old \in Seq(PageRecord) /\ heap \subseteq Page
    BY <1>1 DEF IInv, TypeOK
  <2>0. Slots = BS \cup OS \cup PS
    BY DEF Slots
  <2>2. /\ \A a \in Page : a \in heap \ lost <=> a \in InUse(data, old) \/ OnStack(stack, a)
        /\ \A a \in InUse(data, old) : ~OnStack(stack, a)
        /\ StacksApart(stack) /\ BuffersApart(data) /\ OldApart
    BY <1>1 DEF IInv, InOrder, Memory
  <2>3. ASSUME NEW s \in BS
        PROVE  \E b \in Buffer : \E i \in DOMAIN data[b] :
                 s = <<b, i>> /\ PageAt(s) = data[b][i].addr /\ data[b][i].addr \in Page
    <3>0. PICK b \in Buffer : s \in {b} \X DOMAIN data[b]
      OBVIOUS
    <3>1. PICK i \in DOMAIN data[b] : s = <<b, i>>
      BY <3>0
    <3>2. data[b] \in Seq(PageRecord)
      BY <2>1
    <3>3. data[b][i] \in PageRecord
      BY <3>2
    <3>4. data[b][i].addr \in Page
      BY <3>3 DEF PageRecord
    <3>5. b \notin Pool
      BY PoolAssumption
    <3>6. PageAt(s) = data[b][i].addr
      BY <3>1, <3>5 DEF PageAt
    <3> QED BY <3>1, <3>4, <3>6
  <2>4. ASSUME NEW s \in PS
        PROVE  \E p \in Pool : \E i \in DOMAIN stack[p] :
                 s = <<p, i>> /\ PageAt(s) = stack[p][i] /\ stack[p][i] \in Page
    <3>0. PICK p \in Pool : s \in {p} \X DOMAIN stack[p]
      OBVIOUS
    <3>1. PICK i \in DOMAIN stack[p] : s = <<p, i>>
      BY <3>0
    <3>2. stack[p] \in Seq(Page) /\ p \notin Buffer
      BY <2>1, PoolAssumption
    <3>3. stack[p][i] \in Page
      BY <3>2
    <3>4. PageAt(s) = stack[p][i]
      BY <3>1, <3>2 DEF PageAt
    <3> QED BY <3>1, <3>3, <3>4
  <2>12. ASSUME NEW i \in DOMAIN old
         PROVE  /\ <<None, i>> \in OS /\ PageAt(<<None, i>>) = old[i].addr
                /\ old[i].addr \in Parting(old)
    <3>1. None \notin Buffer /\ None \notin Pool
      BY PoolAssumption
    <3>2. PageAt(<<None, i>>) = old[i].addr
      BY <3>1 DEF PageAt
    <3>3. old[i] \in PageRecord
      BY <2>1
    <3> QED BY <3>2, <3>3 DEF Parting, PageRecord
  <2>13. ASSUME NEW s \in OS
         PROVE  \E i \in DOMAIN old : s = <<None, i>> /\ PageAt(s) = old[i].addr
    <3>1. PICK i \in DOMAIN old : s = <<None, i>>
      OBVIOUS
    <3> QED BY <2>12, <3>1
  <2>5. ASSUME NEW b \in Buffer, NEW i \in DOMAIN data[b]
        PROVE  <<b, i>> \in BS /\ PageAt(<<b, i>>) = data[b][i].addr
    <3>1. <<b, i>> \in {b} \X DOMAIN data[b]
      OBVIOUS
    <3>2. b \notin Pool
      BY PoolAssumption
    <3>3. PageAt(<<b, i>>) = data[b][i].addr
      BY <3>2 DEF PageAt
    <3> QED BY <3>1, <3>3
  <2>6. ASSUME NEW p \in Pool, NEW i \in DOMAIN stack[p]
        PROVE  <<p, i>> \in PS /\ PageAt(<<p, i>>) = stack[p][i]
    <3>1. <<p, i>> \in {p} \X DOMAIN stack[p]
      OBVIOUS
    <3>2. p \notin Buffer
      BY PoolAssumption
    <3>3. PageAt(<<p, i>>) = stack[p][i]
      BY <3>2 DEF PageAt
    <3> QED BY <3>1, <3>3
  <2> HIDE DEF BS, OS, PS
  <2>7. ASSUME NEW s \in BS PROVE PageAt(s) \in InBuffers(data)
    BY <2>3 DEF InBuffers
  <2>8. ASSUME NEW s \in PS PROVE PageAt(s) \in Page /\ OnStack(stack, PageAt(s))
    BY <2>4 DEF OnStack
  <2>14. ASSUME NEW s \in OS PROVE PageAt(s) \in Parting(old) /\ PageAt(s) \notin InBuffers(data)
    BY <2>2, <2>12, <2>13 DEF OldApart
  <2>9. ASSUME NEW s \in Slots, NEW t \in Slots, PageAt(s) = PageAt(t) PROVE s = t
    <3>1. CASE s \in BS /\ t \in BS
      BY <2>2, <2>3, <2>9, <3>1 DEF BuffersApart
    <3>2. CASE s \in PS /\ t \in PS
      BY <2>2, <2>4, <2>9, <3>2 DEF StacksApart
    <3>3. CASE s \in OS /\ t \in OS
      BY <2>2, <2>9, <2>13, <3>3 DEF OldApart
    <3>4. ~(s \in BS \cup OS /\ t \in PS) /\ ~(s \in PS /\ t \in BS \cup OS)
      BY <2>2, <2>7, <2>8, <2>9, <2>14 DEF InUse
    <3>5. ~(s \in BS /\ t \in OS) /\ ~(s \in OS /\ t \in BS)
      BY <2>7, <2>9, <2>14
    <3> QED BY <2>0, <3>1, <3>2, <3>3, <3>4, <3>5
  <2>10. ASSUME NEW a \in heap \ lost PROVE \E s \in Slots : PageAt(s) = a
    <3>1. a \in InBuffers(data) \/ a \in Parting(old) \/ OnStack(stack, a)
      BY <2>1, <2>2 DEF InUse
    <3>2. CASE a \in InBuffers(data)
      BY <2>0, <2>5, <3>2 DEF InBuffers
    <3>3. CASE OnStack(stack, a)
      BY <2>0, <2>6, <3>3 DEF OnStack
    <3>4. CASE a \in Parting(old)
      BY <2>0, <2>12, <3>4 DEF Parting
    <3> QED BY <3>1, <3>2, <3>3, <3>4
  <2>11. ASSUME NEW s \in Slots PROVE PageAt(s) \in heap \ lost
    <3>1. InBuffers(data) \subseteq Page /\ Parting(old) \subseteq Page
      BY DEF InBuffers, Parting
    <3> QED BY <2>0, <2>2, <2>7, <2>8, <2>14, <3>1 DEF InUse
  <2> QED BY <2>9, <2>10, <2>11 DEF PagesOwnedOnce
<1> QED BY <1>1, InductiveInvariant, PTL

-------------------------------------------------------------------------------
(* What a buffer holds                                                     *)

Byte == Data \cup {None}

\* The bytes s lie in the pages d one after the other; f says how many of them
\* lie before the page that comes next.
Laid(d, c, s, f) ==
  /\ f \in [0 .. Len(d) -> 0 .. Len(s)] /\ f[0] = 0 /\ f[Len(d)] = Len(s)
  /\ \A i \in 1 .. Len(d) :
       /\ f[i] = f[i - 1] + d[i].used
       /\ d[i].used <= Len(c[d[i].addr])
       /\ \A o \in 1 .. d[i].used : s[f[i - 1] + o] = c[d[i].addr][o]
Holds(d, c, s) == \E f : Laid(d, c, s, f)

\* Peek, of any pages and bytes.
PeekOf(d, c, k) ==
  LET read[i \in 0 .. Len(d)] ==
        IF i = 0 THEN <<>>
        ELSE read[i - 1] \o SubSeq(c[d[i].addr], 1, Least(d[i].used, k - Len(read[i - 1])))
  IN  read[Len(d)]

LEMMA Joined ==
  ASSUME NEW S, NEW a \in Seq(S), NEW r \in Seq(S)
  PROVE  /\ a \o r \in Seq(S) /\ Len(a \o r) = Len(a) + Len(r)
         /\ \A i \in 1 .. Len(a) + Len(r) : (a \o r)[i] = IF i <= Len(a) THEN a[i] ELSE r[i - Len(a)]
OBVIOUS

\* The first m of s and the t that come after them are the first m + t.
LEMMA Onward ==
  ASSUME NEW S, NEW T, NEW s \in Seq(S), NEW q \in Seq(T), NEW m \in 0 .. Len(s),
         NEW t \in 0 .. Len(q), m + t <= Len(s), \A o \in 1 .. t : s[m + o] = q[o]
  PROVE  SubSeq(s, 1, m) \o SubSeq(q, 1, t) = SubSeq(s, 1, m + t)
<1> DEFINE a == SubSeq(s, 1, m)
           r == SubSeq(q, 1, t)
           w == SubSeq(s, 1, m + t)
<1>1. a \in Seq(S) /\ Len(a) = m /\ \A i \in 1 .. m : a[i] = s[i]
  OBVIOUS
<1>2. r \in Seq(T) /\ Len(r) = t /\ \A i \in 1 .. t : r[i] = q[i]
  OBVIOUS
<1>3. w \in Seq(S) /\ Len(w) = m + t /\ \A i \in 1 .. m + t : w[i] = s[i]
  OBVIOUS
<1>4. m \in Nat /\ t \in Nat
  OBVIOUS
<1> HIDE DEF a, r, w
<1>5. /\ a \o r \in Seq(S \cup T) /\ Len(a \o r) = m + t
      /\ \A i \in 1 .. m + t : (a \o r)[i] = IF i <= m THEN a[i] ELSE r[i - m]
  <2>1. a \in Seq(S \cup T) /\ r \in Seq(S \cup T) /\ Len(a) = m /\ Len(r) = t
    BY <1>1, <1>2
  <2>2. /\ a \o r \in Seq(S \cup T) /\ Len(a \o r) = Len(a) + Len(r)
        /\ \A i \in 1 .. Len(a) + Len(r) :
             (a \o r)[i] = IF i <= Len(a) THEN a[i] ELSE r[i - Len(a)]
    BY <2>1, Joined, Zenon
  <2> QED BY <2>1, <2>2
<1>6. ASSUME NEW i \in 1 .. m + t PROVE (a \o r)[i] = w[i]
  <2>1. CASE i <= m
    <3>1. i \in 1 .. m
      BY <1>4, <2>1
    <3> QED BY <1>1, <1>3, <1>5, <2>1, <3>1
  <2>2. CASE ~(i <= m)
    <3>1. i - m \in 1 .. t /\ m + (i - m) = i
      BY <1>4, <2>2
    <3> QED BY <1>2, <1>3, <1>5, <2>2, <3>1
  <2> QED BY <2>1, <2>2
<1>7. w \in Seq(S \cup T)
  BY <1>3
<1>8. a \o r = w
  BY <1>3, <1>5, <1>6, <1>7
<1> QED BY <1>8 DEF a, r, w

LEMMA OfEachPage ==
  ASSUME NEW k \in Nat, NEW before \in Nat, NEW used \in Nat
  PROVE  /\ Least(k, before) \in Nat /\ Least(k, before) <= before /\ Least(k, before) <= k
         /\ Least(used, k - Least(k, before)) \in 0 .. used
         /\ Least(k, before) + Least(used, k - Least(k, before)) = Least(k, before + used)
BY DEF Least

\* peek gives the first k of the bytes that lie in the pages.
LEMMA PeekGives ==
  ASSUME NEW d \in Seq(PageRecord), NEW c \in [Page -> Seq(Byte)], NEW s \in Seq(Data),
         Holds(d, c, s), NEW k \in 0 .. Len(s)
  PROVE  PeekOf(d, c, k) = SubSeq(s, 1, k)
<1> DEFINE N == Len(d)
           h == CHOOSE g : g = [i \in 0 .. N |->
                  IF i = 0 THEN <<>>
                  ELSE g[i - 1] \o SubSeq(c[d[i].addr], 1, Least(d[i].used, k - Len(g[i - 1])))]
<1>1. N \in Nat /\ \A i \in 1 .. N : d[i] \in PageRecord
  OBVIOUS
<1>2. PeekOf(d, c, k) = h[N]
  BY DEF PeekOf
<1>3. PICK f : Laid(d, c, s, f)
  BY DEF Holds
<1>4. /\ f \in [0 .. N -> 0 .. Len(s)] /\ f[0] = 0 /\ f[N] = Len(s) /\ k \in Nat
      /\ Len(s) \in Nat
      /\ \A i \in 1 .. N :
           /\ f[i] = f[i - 1] + d[i].used
           /\ d[i].used <= Len(c[d[i].addr])
           /\ \A o \in 1 .. d[i].used : s[f[i - 1] + o] = c[d[i].addr][o]
  BY <1>3 DEF Laid
<1> DEFINE G == [i \in 0 .. N |-> SubSeq(s, 1, Least(k, f[i]))]
<1> HIDE DEF N, h
<1>5. ASSUME NEW i \in 1 .. N
      PROVE  /\ G[i - 1] \o SubSeq(c[d[i].addr], 1, Least(d[i].used, k - Len(G[i - 1]))) = G[i]
             /\ i # 0
  <2>1. i - 1 \in 0 .. N /\ i \in 0 .. N /\ i # 0 /\ f[i - 1] \in Nat /\ f[i] \in Nat
        /\ f[i] <= Len(s)
    BY <1>1, <1>4
  <2>2. d[i].used \in Nat /\ d[i].addr \in Page
    BY <1>1 DEF PageRecord
  <2>3. c[d[i].addr] \in Seq(Byte) /\ d[i].used <= Len(c[d[i].addr])
        /\ Len(c[d[i].addr]) \in Nat
    BY <1>4, <2>2
  <2> DEFINE m == Least(k, f[i - 1])
             t == Least(d[i].used, k - m)
             q == c[d[i].addr]
  <2>4. /\ m \in Nat /\ m <= f[i - 1] /\ m <= k
        /\ t \in 0 .. d[i].used /\ m + t = Least(k, f[i])
    <3>1. f[i] = f[i - 1] + d[i].used
      BY <1>4
    <3>2. /\ m \in Nat /\ m <= f[i - 1] /\ m <= k
          /\ t \in 0 .. d[i].used /\ m + t = Least(k, f[i - 1] + d[i].used)
      BY <1>4, <2>1, <2>2, OfEachPage
    <3> HIDE DEF m, t
    <3> QED BY <3>1, <3>2
  <2>5. G[i - 1] = SubSeq(s, 1, m) /\ G[i] = SubSeq(s, 1, Least(k, f[i]))
    BY <2>1
  <2>6. m <= Len(s) /\ Len(SubSeq(s, 1, m)) = m
    BY <1>4, <2>4
  <2>7. ASSUME NEW o \in 1 .. t PROVE s[m + o] = q[o]
    <3>1. t # 0
      BY <2>2, <2>4
    <3>2. m = f[i - 1]
      BY <1>4, <2>1, <2>2, <3>1 DEF Least
    <3>3. o \in 1 .. d[i].used
      BY <2>2, <2>4
    <3> QED BY <1>4, <3>2, <3>3
  <2>8. Least(k, f[i]) <= Len(s)
    BY <1>4, <2>1 DEF Least
  <2>9. /\ m \in 0 .. Len(s) /\ t \in 0 .. Len(q) /\ m + t <= Len(s)
    BY <1>4, <2>2, <2>3, <2>4, <2>6, <2>8
  <2> HIDE DEF m, t, q, G
  <2>10. SubSeq(s, 1, m) \o SubSeq(q, 1, t) = SubSeq(s, 1, m + t)
    <3>1. q \in Seq(Byte)
      BY <2>3 DEF q
    <3> QED BY <2>7, <2>9, <3>1, Onward
  <2>11. t = Least(d[i].used, k - Len(G[i - 1]))
    BY <2>5, <2>6 DEF t
  <2> QED BY <2>1, <2>4, <2>5, <2>10, <2>11 DEF q
<1>6. G = [i \in 0 .. N |-> IF i = 0 THEN <<>>
             ELSE G[i - 1] \o SubSeq(c[d[i].addr], 1, Least(d[i].used, k - Len(G[i - 1])))]
  <2>1. G[0] = <<>>
    <3>1. Least(k, f[0]) = 0 /\ SubSeq(s, 1, 0) = <<>> /\ 0 \in 0 .. N
      BY <1>1, <1>4 DEF Least
    <3> QED BY <3>1
  <2>2. ASSUME NEW i \in 0 .. N
        PROVE  G[i] = IF i = 0 THEN <<>>
             ELSE G[i - 1] \o SubSeq(c[d[i].addr], 1, Least(d[i].used, k - Len(G[i - 1])))
    <3> HIDE DEF G
    <3>1. CASE i = 0
      BY <2>1, <3>1
    <3>2. CASE i # 0
      <4>1. i \in 1 .. N
        BY <1>1, <3>2
      <4> QED BY <1>5, <3>2, <4>1
    <3> QED BY <3>1, <3>2
  <2>3. G = [i \in 0 .. N |-> G[i]]
    OBVIOUS
  <2> HIDE DEF G
  <2> QED BY <2>2, <2>3
<1>7. h = [i \in 0 .. N |-> IF i = 0 THEN <<>>
             ELSE h[i - 1] \o SubSeq(c[d[i].addr], 1, Least(d[i].used, k - Len(h[i - 1])))]
  <2> HIDE DEF G
  <2> QED BY <1>6 DEF h
<1> DEFINE E == { i \in 0 .. N : h[i] # G[i] }
<1>8. E = {}
  <2> SUFFICES ASSUME E # {} PROVE FALSE
    OBVIOUS
  <2> HIDE DEF G
  <2>1. E \in SUBSET Nat
    BY <1>1
  <2>2. PICK m \in E : \A i \in E : m <= i
    <3> HIDE DEF E
    <3> QED BY <2>1, LeastNumber
  <2>3. m \in 0 .. N /\ h[m] # G[m]
    BY <2>2
  <2>4. m # 0
    <3>1. 0 \in 0 .. N
      BY <1>1
    <3>2. h[0] = <<>>
      BY <1>7, <3>1
    <3>3. G[0] = <<>>
      BY <1>6, <3>1
    <3> QED BY <2>3, <3>2, <3>3
  <2>5. m \in 1 .. N /\ m - 1 \in 0 .. N /\ ~(m <= m - 1)
    BY <1>1, <2>3, <2>4
  <2>6. h[m - 1] = G[m - 1]
    BY <2>2, <2>5
  <2>7. h[m] = h[m - 1] \o SubSeq(c[d[m].addr], 1, Least(d[m].used, k - Len(h[m - 1])))
    BY <1>7, <2>3, <2>4
  <2> HIDE DEF E
  <2> QED BY <1>5, <2>3, <2>5, <2>6, <2>7
<1>9. h[N] = G[N] /\ N \in 0 .. N
  <2> HIDE DEF G
  <2>1. N \in 0 .. N
    BY <1>1
  <2> QED BY <1>8, <2>1
<1>10. Least(k, f[N]) = k
  BY <1>4 DEF Least
<1>11. G[N] = SubSeq(s, 1, k)
  BY <1>9, <1>10
<1> QED BY <1>2, <1>9, <1>11

\* The last m of s are the first m of x.
EndsIn(s, x, m) == m <= Len(s) /\ \A i \in 1 .. m : s[Len(s) - m + i] = x[i]

\* The bytes of buffer b are s, and what the running append has copied of v
\* are the last of them.
Says(b, s) ==
  /\ s \in Seq(Data) /\ Holds(data[b], cell, s) /\ Len(s) = size[b]
  /\ running = b => v \in Inputs /\ EndsIn(s, v, Len(v) - n)
LogInv == \A b \in Buffer : \E s : Says(b, s)

\* The log of a buffer, as Log has it, and what it is then.
Seen(p, d, c, z, b, r, copied) == CASE p = None -> None
                                    [] r = b    -> PeekOf(d, c, z - copied)
                                    [] OTHER    -> PeekOf(d, c, z)
Shown(p, s, copied) == IF p = None THEN None ELSE SubSeq(s, 1, Len(s) - copied)

LEMMA SeenIsShown ==
  ASSUME NEW p, NEW d \in Seq(PageRecord), NEW c \in [Page -> Seq(Byte)], NEW s \in Seq(Data),
         Holds(d, c, s), NEW b, NEW r, NEW copied,
         r = b => p # None /\ copied \in 0 .. Len(s)
  PROVE  /\ r = b => Seen(p, d, c, Len(s), b, r, copied) = Shown(p, s, copied)
         /\ r # b => Seen(p, d, c, Len(s), b, r, copied) = Shown(p, s, 0)
<1>1. CASE p = None
  BY <1>1 DEF Seen, Shown
<1>2. CASE p # None /\ r = b
  <2>1. Len(s) - copied \in 0 .. Len(s)
    BY <1>2
  <2>2. PeekOf(d, c, Len(s) - copied) = SubSeq(s, 1, Len(s) - copied)
    BY <2>1, PeekGives
  <2> QED BY <1>2, <2>2 DEF Seen, Shown
<1>3. CASE p # None /\ r # b
  <2>1. Len(s) \in 0 .. Len(s) /\ Len(s) - 0 = Len(s)
    OBVIOUS
  <2>2. PeekOf(d, c, Len(s)) = SubSeq(s, 1, Len(s))
    BY <2>1, PeekGives
  <2> QED BY <1>3, <2>1, <2>2 DEF Seen, Shown
<1> QED BY <1>1, <1>2, <1>3

LEMMA LogShows ==
  ASSUME IInv, NEW b \in Buffer, NEW s, Says(b, s)
  PROVE  Log[b] = Shown(pool[b], s, IF running = b THEN Len(v) - n ELSE 0)
<1>1. /\ data[b] \in Seq(PageRecord) /\ cell \in [Page -> Seq(Byte)]
      /\ s \in Seq(Data) /\ Holds(data[b], cell, s)
  BY DEF Says, IInv, TypeOK, PageRecord, Byte
<1>2. running = b => pool[b] # None /\ Len(v) - n \in 0 .. Len(s)
  BY PoolAssumption DEF IInv, TypeOK, CallRuns, Says, EndsIn
<1>3. Log[b] = Seen(pool[b], data[b], cell, Len(s), b, running, Len(v) - n)
  BY DEF Log, Peek, PeekOf, Seen, Says
<1>4. /\ running = b => Seen(pool[b], data[b], cell, Len(s), b, running, Len(v) - n)
                            = Shown(pool[b], s, Len(v) - n)
      /\ running # b => Seen(pool[b], data[b], cell, Len(s), b, running, Len(v) - n)
                            = Shown(pool[b], s, 0)
  <2> DEFINE d == data[b]
             w == Len(v) - n
             p == pool[b]
  <2>1. d \in Seq(PageRecord) /\ Holds(d, cell, s) /\ (running = b => p # None /\ w \in 0 .. Len(s))
    BY <1>1, <1>2
  <2>2. cell \in [Page -> Seq(Byte)] /\ s \in Seq(Data)
    BY <1>1
  <2> HIDE DEF d, w, p
  <2>3. /\ running = b => Seen(p, d, cell, Len(s), b, running, w) = Shown(p, s, w)
        /\ running # b => Seen(p, d, cell, Len(s), b, running, w) = Shown(p, s, 0)
    BY <2>1, <2>2, SeenIsShown
  <2> QED BY <2>3 DEF d, w, p
<1> QED BY <1>3, <1>4

LEMMA LogShowsNext ==
  ASSUME IInv', NEW b \in Buffer, NEW s, Says(b, s)'
  PROVE  Log'[b] = Shown(pool'[b], s, IF running' = b THEN Len(v') - n' ELSE 0)
<1>1. /\ data'[b] \in Seq(PageRecord) /\ cell' \in [Page -> Seq(Byte)]
      /\ s \in Seq(Data) /\ Holds(data'[b], cell', s)
  BY DEF Says, IInv, TypeOK, PageRecord, Byte
<1>2. running' = b => pool'[b] # None /\ Len(v') - n' \in 0 .. Len(s)
  BY PoolAssumption DEF IInv, TypeOK, CallRuns, Says, EndsIn
<1>3. Log'[b] = Seen(pool'[b], data'[b], cell', Len(s), b, running', Len(v') - n')
  BY DEF Log, Peek, PeekOf, Seen, Says
<1>4. /\ running' = b => Seen(pool'[b], data'[b], cell', Len(s), b, running', Len(v') - n')
                            = Shown(pool'[b], s, Len(v') - n')
      /\ running' # b => Seen(pool'[b], data'[b], cell', Len(s), b, running', Len(v') - n')
                            = Shown(pool'[b], s, 0)
  <2> DEFINE d == data'[b]
             w == Len(v') - n'
             p == pool'[b]
             c == cell'
             r == running'
  <2>1. d \in Seq(PageRecord) /\ Holds(d, c, s) /\ (r = b => p # None /\ w \in 0 .. Len(s))
    BY <1>1, <1>2
  <2>2. c \in [Page -> Seq(Byte)] /\ s \in Seq(Data)
    BY <1>1
  <2> HIDE DEF d, w, p, c, r
  <2>3. /\ r = b => Seen(p, d, c, Len(s), b, r, w) = Shown(p, s, w)
        /\ r # b => Seen(p, d, c, Len(s), b, r, w) = Shown(p, s, 0)
    BY <2>1, <2>2, SeenIsShown
  <2> QED BY <2>3 DEF d, w, p, c, r
<1> QED BY <1>3, <1>4

\* The same pages with the same bytes in them hold the same.
LEMMA SamePages ==
  ASSUME NEW d \in Seq(PageRecord), NEW c, NEW e, NEW s, Holds(d, c, s),
         \A i \in DOMAIN d : e[d[i].addr] = c[d[i].addr]
  PROVE  Holds(d, e, s)
<1>1. PICK f : Laid(d, c, s, f)
  BY DEF Holds
<1>2. DOMAIN d = 1 .. Len(d)
  OBVIOUS
<1>3. Laid(d, e, s, f)
  BY <1>1, <1>2 DEF Laid
<1> QED BY <1>3 DEF Holds

LEMMA NoPages ==
  ASSUME NEW c
  PROVE  Holds(<<>>, c, <<>>) /\ <<>> \in Seq(Data) /\ Len(<<>>) = 0
<1> DEFINE f == [i \in 0 .. 0 |-> 0]
<1>1. f \in [0 .. 0 -> 0 .. 0] /\ f[0] = 0 /\ Len(<<>>) = 0 /\ \A i \in 1 .. 0 : FALSE
  OBVIOUS
<1> HIDE DEF f
<1>2. Laid(<<>>, c, <<>>, f)
  BY <1>1 DEF Laid
<1> QED BY <1>1, <1>2 DEF Holds

\* A new page has nothing in it.
LEMMA OnePageMore ==
  ASSUME NEW d \in Seq(PageRecord), NEW c \in [Page -> Seq(Byte)], NEW s \in Seq(Data),
         Holds(d, c, s), NEW r \in PageRecord, r.used = 0
  PROVE  Holds(Append(d, r), c, s)
<1> DEFINE N == Len(d)
           e == Append(d, r)
<1>1. PICK f : Laid(d, c, s, f)
  BY DEF Holds
<1>2. /\ N \in Nat /\ Len(e) = N + 1 /\ e[N + 1] = r /\ \A i \in 1 .. N : e[i] = d[i]
  OBVIOUS
<1>3. r.addr \in Page /\ Len(c[r.addr]) \in Nat /\ Len(s) \in Nat
  BY DEF PageRecord
<1>4. /\ f \in [0 .. N -> 0 .. Len(s)] /\ f[0] = 0 /\ f[N] = Len(s)
      /\ \A i \in 1 .. N : /\ f[i] = f[i - 1] + d[i].used
                           /\ d[i].used <= Len(c[d[i].addr])
                           /\ \A o \in 1 .. d[i].used : s[f[i - 1] + o] = c[d[i].addr][o]
  BY <1>1 DEF Laid
<1> DEFINE g == [i \in 0 .. N + 1 |-> IF i = N + 1 THEN Len(s) ELSE f[i]]
<1> HIDE DEF N, e
<1>5. /\ g \in [0 .. N + 1 -> 0 .. Len(s)] /\ g[N + 1] = Len(s)
      /\ \A i \in 0 .. N : g[i] = f[i]
  BY <1>2, <1>3, <1>4
<1> HIDE DEF g
<1>6. ASSUME NEW i \in 1 .. N + 1
      PROVE  /\ g[i] = g[i - 1] + e[i].used
             /\ e[i].used <= Len(c[e[i].addr])
             /\ \A o \in 1 .. e[i].used : s[g[i - 1] + o] = c[e[i].addr][o]
  <2>1. CASE i = N + 1
    <3>1. i - 1 = N /\ N \in 0 .. N
      BY <1>2, <2>1
    <3>2. g[i - 1] = Len(s) /\ g[i] = Len(s) /\ e[i] = r
      BY <1>2, <1>4, <1>5, <2>1, <3>1
    <3> QED BY <1>3, <3>2
  <2>2. CASE i # N + 1
    <3>1. i \in 1 .. N /\ i \in 0 .. N /\ i - 1 \in 0 .. N
      BY <1>2, <2>2
    <3>2. g[i - 1] = f[i - 1] /\ g[i] = f[i] /\ e[i] = d[i]
      BY <1>2, <1>5, <3>1
    <3> QED BY <1>4, <3>1, <3>2
  <2> QED BY <2>1, <2>2
<1>7. g[0] = 0
  <2>1. 0 \in 0 .. N
    BY <1>2
  <2> QED BY <1>4, <1>5, <2>1
<1>8. Laid(e, c, s, g)
  BY <1>2, <1>5, <1>6, <1>7 DEF Laid
<1> QED BY <1>8 DEF Holds, e

LEMMA EndOfLast ==
  ASSUME NEW z \in Nat, NEW w \in Nat, NEW l \in Nat, NEW m \in Nat, z + w = l
  PROVE  l + m = z + (w + m)
OBVIOUS

LEMMA BehindLast ==
  ASSUME NEW z \in Nat, NEW w \in Nat, NEW l \in Nat, NEW m \in Nat, z + w = l,
         NEW o \in 1 .. w + m, ~(o <= w)
  PROVE  /\ o - w \in 1 .. m /\ w + (o - w) = o
         /\ z + o \in 1 .. l + m /\ ~(z + o <= l) /\ z + o - l = o - w
OBVIOUS

\* The last page of d becomes r, which has the bytes q behind those it had.
Lengthened(d, c, e, r, q) ==
  /\ r.addr = d[Len(d)].addr /\ r.used = d[Len(d)].used + Len(q) /\ r.used <= Len(e[r.addr])
  /\ \A i \in 1 .. Len(d) - 1 : e[d[i].addr] = c[d[i].addr]
  /\ \A o \in 1 .. d[Len(d)].used : e[r.addr][o] = c[r.addr][o]
  /\ \A o \in 1 .. Len(q) : e[r.addr][d[Len(d)].used + o] = q[o]

LEMMA MoreInLastPage ==
  ASSUME NEW d \in Seq(PageRecord), d # <<>>, NEW c \in [Page -> Seq(Byte)],
         NEW e, NEW s \in Seq(Data), Holds(d, c, s), NEW q \in Seq(Data),
         NEW r \in PageRecord, Lengthened(d, c, e, r, q)
  PROVE  Holds([d EXCEPT ![Len(d)] = r], e, s \o q)
<1> DEFINE N == Len(d)
           u == d[N].used
           h == [d EXCEPT ![N] = r]
           t == s \o q
<1>1. PICK f : Laid(d, c, s, f)
  BY DEF Holds
<1>2. /\ N \in Nat /\ N # 0 /\ N \in 1 .. N /\ d[N] \in PageRecord
      /\ h \in Seq(PageRecord) /\ Len(h) = N /\ h[N] = r /\ \A i \in 1 .. N : i # N => h[i] = d[i]
  OBVIOUS
<1>3. u \in Nat /\ r.addr \in Page /\ Len(q) \in Nat /\ Len(s) \in Nat
  <2>1. u \in Nat /\ r.addr \in Page
    <3> HIDE DEF N
    <3> QED BY <1>2 DEF PageRecord
  <2> QED BY <2>1
<1>4. /\ f \in [0 .. N -> 0 .. Len(s)] /\ f[0] = 0 /\ f[N] = Len(s)
      /\ \A i \in 1 .. N : /\ f[i] = f[i - 1] + d[i].used
                           /\ d[i].used <= Len(c[d[i].addr])
                           /\ \A o \in 1 .. d[i].used : s[f[i - 1] + o] = c[d[i].addr][o]
  BY <1>1 DEF Laid
<1>5. /\ t \in Seq(Data) /\ Len(t) = Len(s) + Len(q)
      /\ \A i \in 1 .. Len(s) + Len(q) : t[i] = IF i <= Len(s) THEN s[i] ELSE q[i - Len(s)]
  BY Joined
<1> DEFINE g == [i \in 0 .. N |-> IF i = N THEN Len(t) ELSE f[i]]
<1>11. r.addr = d[N].addr /\ r.used = u + Len(q) /\ r.used <= Len(e[r.addr])
  BY DEF Lengthened
<1>6. /\ \A i \in 1 .. N - 1 : e[d[i].addr] = c[d[i].addr]
      /\ \A o \in 1 .. u : e[r.addr][o] = c[r.addr][o]
      /\ \A o \in 1 .. Len(q) : e[r.addr][u + o] = q[o]
  BY DEF Lengthened
<1> HIDE DEF N, h, t, u
<1>7. /\ g \in [0 .. N -> 0 .. Len(t)] /\ g[N] = Len(t)
      /\ \A i \in 0 .. N - 1 : g[i] = f[i]
  BY <1>2, <1>3, <1>4, <1>5
<1> HIDE DEF g
<1>8. ASSUME NEW i \in 1 .. N
      PROVE  /\ g[i] = g[i - 1] + h[i].used
             /\ h[i].used <= Len(e[h[i].addr])
             /\ \A o \in 1 .. h[i].used : t[g[i - 1] + o] = e[h[i].addr][o]
  <2>1. i - 1 \in 0 .. N - 1 /\ i - 1 \in 0 .. N
    BY <1>2
  <2>2. g[i - 1] = f[i - 1] /\ f[i - 1] \in Nat /\ f[i - 1] <= Len(s)
    <3>1. \A j \in 0 .. N : f[j] \in Nat /\ f[j] <= Len(s)
      BY <1>3, <1>4
    <3> HIDE <1>4
    <3> QED BY <1>7, <2>1, <3>1
  <2>3. d[i].used \in Nat
    <3>1. d[i] \in PageRecord
      BY DEF N
    <3> QED BY <3>1 DEF PageRecord
  <2>4. ASSUME NEW o \in 1 .. d[i].used
        PROVE  t[f[i - 1] + o] = s[f[i - 1] + o] /\ s[f[i - 1] + o] = c[d[i].addr][o]
    <3>1. f[i] = f[i - 1] + d[i].used /\ f[i] \in 0 .. Len(s)
      BY <1>2, <1>4
    <3>2. f[i - 1] + o \in 1 .. Len(s) + Len(q) /\ f[i - 1] + o <= Len(s)
      BY <1>3, <2>2, <2>3, <3>1
    <3> QED BY <1>4, <1>5, <3>2
  <2>5. CASE i = N
    <3> DEFINE z == f[i - 1]
    <3>1. z \in Nat /\ z <= Len(s) /\ g[i - 1] = z
      BY <2>2
    <3>6. \A o \in 1 .. u : t[z + o] = s[z + o] /\ s[z + o] = c[r.addr][o]
      BY <1>11, <2>4, <2>5 DEF u
    <3>2. h[i] = r /\ g[i] = Len(s) + Len(q)
      BY <1>2, <1>5, <1>7, <2>5
    <3>7. z + u = Len(s)
      BY <1>2, <1>4, <2>5 DEF u
    <3> DEFINE l == Len(s)
               w == Len(q)
    <3>8. z \in Nat /\ u \in Nat /\ l \in Nat /\ w \in Nat /\ z + u = l
      BY <1>3, <3>1, <3>7
    <3> HIDE DEF z, l, w
    <3>9. l + w = z + (u + w)
      BY <3>8, EndOfLast
    <3>3. Len(s) + Len(q) = z + (u + Len(q))
      BY <3>9 DEF l, w
    <3>4. g[i] = g[i - 1] + h[i].used
      BY <1>11, <3>1, <3>2, <3>3
    <3>5. ASSUME NEW o \in 1 .. r.used PROVE t[z + o] = e[r.addr][o]
      <4>1. CASE o <= u
        <5>1. o \in 1 .. u
          BY <1>3, <1>11, <4>1
        <5> QED BY <1>6, <3>6, <5>1
      <4>2. CASE ~(o <= u)
        <5> DEFINE m == o - u
                   j == z + o
        <5>1. o \in 1 .. u + w
          BY <1>11 DEF w
        <5>4. /\ m \in 1 .. w /\ u + m = o
              /\ j \in 1 .. l + w /\ ~(j <= l) /\ j - l = m
          BY <3>8, <4>2, <5>1, BehindLast
        <5>2. /\ m \in 1 .. Len(q) /\ u + m = o
              /\ j \in 1 .. Len(s) + Len(q) /\ ~(j <= Len(s)) /\ j - Len(s) = m
          BY <5>4 DEF l, w
        <5> HIDE DEF m, j
        <5>3. t[j] = q[m]
          BY <1>5, <5>2
        <5> QED BY <1>6, <5>2, <5>3 DEF j
      <4> QED BY <4>1, <4>2
    <3> QED BY <1>11, <3>1, <3>2, <3>4, <3>5
  <2>6. CASE i # N
    <3>1. i \in 1 .. N - 1 /\ i \in 0 .. N - 1
      BY <1>2, <2>6
    <3>2. h[i] = d[i] /\ g[i] = f[i] /\ e[d[i].addr] = c[d[i].addr]
      BY <1>2, <1>6, <1>7, <2>6, <3>1
    <3> QED BY <1>4, <2>2, <2>4, <3>2
  <2> QED BY <2>5, <2>6
<1>9. g[0] = 0
  <2>1. 0 \in 0 .. N - 1
    BY <1>2
  <2> QED BY <1>4, <1>7, <2>1
<1>10. Laid(h, e, t, g)
  BY <1>2, <1>7, <1>8, <1>9 DEF Laid
<1> QED BY <1>10 DEF Holds, h, t, N

\* A buffer that has the pages of e, with the same bytes, says what e said.
LEMMA SaysOn ==
  ASSUME IInv, NEW d \in Buffer, NEW e \in Buffer, NEW s, Says(e, s),
         data'[d] = data[e], size'[d] = size[e], running' # d,
         \A i \in DOMAIN data[e] : cell'[data[e][i].addr] = cell[data[e][i].addr]
  PROVE  Says(d, s)'
<1>1. data[e] \in Seq(PageRecord)
  BY DEF IInv, TypeOK, PageRecord
<1>2. s \in Seq(Data) /\ Holds(data[e], cell, s) /\ Len(s) = size[e]
  BY DEF Says
<1>3. Holds(data[e], cell', s)
  BY <1>1, <1>2, SamePages
<1> QED BY <1>2, <1>3 DEF Says

LEMMA AddressOfPage ==
  ASSUME NEW D, D \in [Buffer -> Seq(PageRecord)], NEW e \in Buffer, NEW i \in DOMAIN D[e]
  PROVE  D[e][i].addr \in InBuffers(D) /\ D[e][i] \in PageRecord
<1>1. D[e] \in Seq(PageRecord)
  OBVIOUS
<1>2. D[e][i] \in PageRecord
  BY <1>1
<1> QED BY <1>2 DEF InBuffers, PageRecord

LEMMA NoText ==
  /\ \A s \in Seq(Data) : s # None /\ SubSeq(s, 1, Len(s) - 0) = s
  /\ SubSeq(<<>>, 1, Len(<<>>) - 0) = <<>>
<1>1. ASSUME NEW s \in Seq(Data) PROVE SubSeq(s, 1, Len(s) - 0) = s
  <2>1. Len(s) \in Nat /\ Len(s) - 0 = Len(s)
    OBVIOUS
  <2>2. SubSeq(s, 1, Len(s)) = s
    OBVIOUS
  <2> QED BY <2>1, <2>2
<1>2. <<>> \in Seq(Data)
  OBVIOUS
<1> QED BY <1>1, <1>2, InputAssumption

\* A buffer that no append works on has its bytes for its log.
LEMMA IdleLog ==
  ASSUME IInv, NEW b \in Buffer, NEW s, Says(b, s), running # b
  PROVE  Log[b] = (IF pool[b] = None THEN None ELSE s) /\ s \in Seq(Data)
<1>1. s \in Seq(Data)
  BY DEF Says
<1>2. Log[b] = Shown(pool[b], s, 0)
  BY LogShows
<1> QED BY <1>1, <1>2, NoText DEF Shown

LEMMA IdleLogNext ==
  ASSUME IInv', NEW b \in Buffer, NEW s, Says(b, s)', running' # b
  PROVE  Log'[b] = (IF pool'[b] = None THEN None ELSE s) /\ s \in Seq(Data)
<1>1. s \in Seq(Data)
  BY DEF Says
<1>2. Log'[b] = Shown(pool'[b], s, 0)
  BY LogShowsNext
<1> QED BY <1>1, <1>2, NoText DEF Shown

\* What buffers hand over they hand over with their logs.
LEMMA HandOverLog ==
  ASSUME IInv, LogInv, NEW f, NEW g, NEW b \in Buffer, HandsOver(f, g), Become(f),
         Overwrites(g, b), PartsWith(b), Idle, UNCHANGED <<held, running, v, n>>
  PROVE  /\ LogInv'
         /\ \A d \in Buffer : Log'[d] = IF pool'[d] = None THEN None
                                        ELSE IF g[d] = None THEN <<>> ELSE Log[g[d]]
<1>1. IInv'
  BY HandOverOK
<1>2. \A a \in InBuffers(data') : cell'[a] = cell[a]
  BY KeptCells DEF InUse
<1>3. /\ \A d \in Buffer : g[d] = None => data'[d] = <<>> /\ size'[d] = 0
      /\ \A d \in Buffer : g[d] # None => /\ g[d] \in Buffer /\ pool'[d] = pool[g[d]]
                                         /\ data'[d] = data[g[d]] /\ size'[d] = size[g[d]]
  BY HandedFields
<1>4. \A d \in Buffer : running # d /\ running' # d
  BY PoolAssumption DEF Idle
<1>5. data' \in [Buffer -> Seq(PageRecord)]
  BY <1>1 DEF IInv, TypeOK, PageRecord
<1>6. ASSUME NEW d \in Buffer
      PROVE  \E s : /\ Says(d, s)'
                    /\ Log'[d] = IF pool'[d] = None THEN None
                                 ELSE IF g[d] = None THEN <<>> ELSE Log[g[d]]
  <2>1. CASE g[d] = None
    <3>1. data'[d] = <<>> /\ size'[d] = 0
      BY <1>3, <2>1
    <3>2. Says(d, <<>>)'
      BY <1>4, <3>1, NoPages DEF Says
    <3>3. Log'[d] = IF pool'[d] = None THEN None ELSE <<>>
      BY <1>1, <1>4, <3>2, IdleLogNext
    <3> QED BY <2>1, <3>2, <3>3
  <2>2. CASE g[d] # None
    <3>1. g[d] \in Buffer /\ pool'[d] = pool[g[d]] /\ data'[d] = data[g[d]] /\ size'[d] = size[g[d]]
      BY <1>3, <2>2
    <3>2. PICK s : Says(g[d], s)
      BY <3>1 DEF LogInv
    <3>3. \A i \in DOMAIN data[g[d]] : cell'[data[g[d]][i].addr] = cell[data[g[d]][i].addr]
      <4>1. \A i \in DOMAIN data'[d] : cell'[data'[d][i].addr] = cell[data'[d][i].addr]
        BY <1>2, <1>5, AddressOfPage
      <4> QED BY <3>1, <4>1
    <3>4. Says(d, s)'
      BY <1>4, <3>1, <3>2, <3>3, SaysOn
    <3>5. Log'[d] = IF pool'[d] = None THEN None ELSE s
      BY <1>1, <1>4, <3>4, IdleLogNext
    <3>6. Log[g[d]] = IF pool[g[d]] = None THEN None ELSE s
      BY <1>4, <3>1, <3>2, IdleLog
    <3> QED BY <2>2, <3>1, <3>4, <3>5, <3>6
  <2> QED BY <2>1, <2>2
<1> QED BY <1>6 DEF LogInv

LEMMA LogThere ==
  ASSUME IInv, LogInv, running = None, NEW b \in Buffer
  PROVE  Log[b] = None <=> pool[b] = None
<1>1. PICK s : Says(b, s)
  BY DEF LogInv
<1>2. Log[b] = (IF pool[b] = None THEN None ELSE s) /\ s \in Seq(Data)
  BY <1>1, IdleLog, PoolAssumption
<1> QED BY <1>2, NoText

-------------------------------------------------------------------------------
(* Every step is a step of the logs or none.                               *)

LEMMA LogIsFunction ==
  /\ DOMAIN Log = Buffer /\ Log = [b \in Buffer |-> Log[b]]
  /\ DOMAIN Log' = Buffer /\ Log' = [b \in Buffer |-> Log'[b]]
BY DEF Log

\* No buffer's log changes when all say what they said.
LEMMA LogsAsBefore ==
  ASSUME \A b \in Buffer : Log'[b] = Log[b]
  PROVE  Log' = Log
<1>1. Log = [b \in Buffer |-> Log[b]] /\ Log' = [b \in Buffer |-> Log'[b]]
  BY LogIsFunction
<1> DEFINE p == Log
           q == Log'
<1> HIDE DEF p, q
<1>2. p = [b \in Buffer |-> p[b]] /\ q = [b \in Buffer |-> q[b]] /\ \A b \in Buffer : q[b] = p[b]
  BY <1>1 DEF p, q
<1>3. q = p
  BY <1>2
<1> QED BY <1>3 DEF p, q

LEMMA ConstructLog ==
  ASSUME IInv, LogInv, NEW b \in Buffer, NEW p \in Pool, Construct(b, p)
  PROVE  LogInv' /\ A!Construct(b)
<1> DEFINE f == [Same EXCEPT ![b] = [Nothing EXCEPT !.pool = p]]
<1>1. /\ running = None /\ Idle /\ pool[b] = None /\ Become(f)
      /\ UNCHANGED <<heap, lost, cell, stack, held, running, v, n, old, oldPool>>
  BY DEF Construct, call, dying, Idle
<1>2. PICK g : /\ HandsOver(f, g) /\ Overwrites(g, b)
               /\ \A d \in Buffer : g[d] = IF d = b THEN None ELSE d
  BY OtherFields
<1>3. PartsWith(b)
  BY <1>1, NoPoolNoPages DEF PartsWith, Idle
<1>4. pool'[b] = p
  BY <1>1 DEF Become, Same, Nothing
<1> HIDE DEF f
<1>5. /\ LogInv'
      /\ \A d \in Buffer : Log'[d] = IF pool'[d] = None THEN None
                                     ELSE IF g[d] = None THEN <<>> ELSE Log[g[d]]
  BY <1>1, <1>2, <1>3, HandOverLog
<1>6. \A d \in Buffer : d # b => pool'[d] = pool[d]
  BY <1>1, <1>2, HandedFields, PoolAssumption
<1>7. \A d \in Buffer : Log[d] = None <=> pool[d] = None
  BY <1>1, LogThere
<1>8. \A d \in Buffer : Log'[d] = IF d = b THEN <<>> ELSE Log[d]
  BY <1>2, <1>4, <1>5, <1>6, <1>7, PoolAssumption
<1>9. Log' = [Log EXCEPT ![b] = <<>>]
  <2>1. [Log EXCEPT ![b] = <<>>] = [d \in Buffer |-> IF d = b THEN <<>> ELSE Log[d]]
    BY LogIsFunction
  <2> QED BY <1>8, <2>1, LogIsFunction
<1> QED BY <1>1, <1>5, <1>7, <1>9 DEF A!Construct

LEMMA DestroyLog ==
  ASSUME IInv, LogInv, NEW b \in Buffer, Destroy(b)
  PROVE  LogInv' /\ A!Destroy(b)
<1> DEFINE f == [Same EXCEPT ![b] = [Nothing EXCEPT !.pool = None]]
<1>1. /\ running = None /\ Idle /\ pool[b] # None /\ Become(f) /\ PartsWith(b)
      /\ UNCHANGED <<held, running, v, n>>
  BY NothingIs, DestroyParts DEF Destroy, call, Idle
<1>2. PICK g : /\ HandsOver(f, g) /\ Overwrites(g, b)
               /\ \A d \in Buffer : g[d] = IF d = b THEN None ELSE d
  BY OtherFields
<1>3. pool'[b] = None
  BY <1>1 DEF Become, Same, Nothing
<1> HIDE DEF f
<1>4. /\ LogInv'
      /\ \A d \in Buffer : Log'[d] = IF pool'[d] = None THEN None
                                     ELSE IF g[d] = None THEN <<>> ELSE Log[g[d]]
  BY <1>1, <1>2, HandOverLog
<1>5. \A d \in Buffer : d # b => pool'[d] = pool[d]
  BY <1>1, <1>2, HandedFields, PoolAssumption
<1>6. \A d \in Buffer : Log[d] = None <=> pool[d] = None
  BY <1>1, LogThere
<1>7. \A d \in Buffer : Log'[d] = IF d = b THEN None ELSE Log[d]
  BY <1>2, <1>3, <1>4, <1>5, <1>6, PoolAssumption
<1>8. Log' = [Log EXCEPT ![b] = None]
  <2>1. [Log EXCEPT ![b] = None] = [d \in Buffer |-> IF d = b THEN None ELSE Log[d]]
    BY LogIsFunction
  <2> QED BY <1>7, <2>1, LogIsFunction
<1> QED BY <1>1, <1>4, <1>6, <1>8 DEF A!Destroy

LEMMA MoveLog ==
  ASSUME IInv, LogInv, NEW b \in Buffer, NEW c \in Buffer, Move(b, c) \/ MoveAssign(b, c)
  PROVE  LogInv' /\ A!Move(b, c)
<1> DEFINE f == [Same EXCEPT ![b] = Fields(c), ![c] = Nothing]
<1>1. /\ running = None /\ Idle /\ b # c /\ pool[c] # None /\ Become(f)
      /\ UNCHANGED <<held, running, v, n>>
  BY DEF Move, MoveAssign, call, Idle
<1>2. PartsWith(b)
  BY MoveParts
<1>3. PICK g : /\ HandsOver(f, g) /\ Overwrites(g, b)
               /\ g[b] = c /\ g[c] = None /\ \A d \in Buffer \ {b, c} : g[d] = d
  BY <1>1, MoveFields
<1>4. pool'[c] = None
  BY <1>1 DEF Become, Same, Nothing
<1> HIDE DEF f
<1>5. /\ LogInv'
      /\ \A d \in Buffer : Log'[d] = IF pool'[d] = None THEN None
                                     ELSE IF g[d] = None THEN <<>> ELSE Log[g[d]]
  BY <1>1, <1>2, <1>3, HandOverLog
<1>6. pool'[b] = pool[c] /\ \A d \in Buffer \ {b, c} : pool'[d] = pool[d]
  BY <1>1, <1>3, HandedFields, PoolAssumption
<1>7. \A d \in Buffer : Log[d] = None <=> pool[d] = None
  BY <1>1, LogThere
<1>8. \A d \in Buffer : Log'[d] = IF d = c THEN None ELSE IF d = b THEN Log[c] ELSE Log[d]
  <2>1. Log'[c] = None
    BY <1>4, <1>5
  <2>2. Log'[b] = Log[c]
    BY <1>1, <1>3, <1>5, <1>6, PoolAssumption
  <2>3. ASSUME NEW d \in Buffer \ {b, c} PROVE Log'[d] = Log[d]
    BY <1>3, <1>5, <1>6, <1>7, PoolAssumption
  <2> QED BY <1>1, <2>1, <2>2, <2>3
<1>9. Log' = [Log EXCEPT ![b] = Log[c], ![c] = None]
  <2>1. [Log EXCEPT ![b] = Log[c], ![c] = None]
          = [d \in Buffer |-> IF d = c THEN None ELSE IF d = b THEN Log[c] ELSE Log[d]]
    BY <1>1, LogIsFunction
  <2> QED BY <1>8, <2>1, LogIsFunction
<1> QED BY <1>1, <1>5, <1>7, <1>9 DEF A!Move
LEMMA SameLog ==
  ASSUME IInv, IInv', NEW d \in Buffer, NEW s, Says(d, s), Says(d, s)',
         pool'[d] = pool[d], UNCHANGED <<running, v, n>>
  PROVE  Log'[d] = Log[d]
<1>1. Log[d] = Shown(pool[d], s, IF running = d THEN Len(v) - n ELSE 0)
  BY LogShows
<1>2. Log'[d] = Shown(pool'[d], s, IF running' = d THEN Len(v') - n' ELSE 0)
  BY LogShowsNext
<1> QED BY <1>1, <1>2

\* The pages of d are the same or all moved together, and append goes on.
LEMMA SaysStill ==
  ASSUME IInv, NEW d \in Buffer, NEW s, Says(d, s), Holds(data'[d], cell', s),
         size'[d] = size[d], UNCHANGED <<running, v, n>>
  PROVE  Says(d, s)'
BY DEF Says

\* What leaves the buffers and their bytes alone leaves the logs alone.
LEMMA BuffersLeftAlone ==
  ASSUME IInv, IInv', LogInv, UNCHANGED <<pool, data, size, running, v, n>>,
         \A a \in InBuffers(data) : cell'[a] = cell[a]
  PROVE  LogInv' /\ Log' = Log
<1>1. data \in [Buffer -> Seq(PageRecord)]
  BY DEF IInv, TypeOK, PageRecord
<1>2. ASSUME NEW d \in Buffer PROVE (\E s : Says(d, s)') /\ Log'[d] = Log[d]
  <2>1. PICK s : Says(d, s)
    BY DEF LogInv
  <2>2. Holds(data[d], cell, s) /\ data[d] \in Seq(PageRecord)
    BY <1>1, <2>1 DEF Says
  <2>3. \A i \in DOMAIN data[d] : cell'[data[d][i].addr] = cell[data[d][i].addr]
    BY <1>1, AddressOfPage
  <2>4. Holds(data[d], cell', s)
    BY <2>2, <2>3, SamePages
  <2>5. Says(d, s)'
    BY <2>1, <2>4, SaysStill
  <2> QED BY <2>1, <2>5, SameLog
<1>3. Log' = Log
  BY <1>2, LogsAsBefore
<1> QED BY <1>2, <1>3 DEF LogInv

LEMMA NewPoolLog ==
  ASSUME IInv, LogInv, NEW p \in Pool, NewPool(p)
  PROVE  LogInv' /\ Log' = Log
<1>1. UNCHANGED <<pool, data, size, running, v, n>> /\ cell' = cell
  BY DEF NewPool, buffers, call
<1> QED BY <1>1, NewPoolOK, BuffersLeftAlone

LEMMA DropPoolLog ==
  ASSUME IInv, LogInv, NEW p \in Pool, DropPool(p)
  PROVE  LogInv' /\ Log' = Log
<1>1. UNCHANGED <<pool, data, size, running, v, n>>
  BY DEF DropPool, buffers, call
<1> QED BY <1>1, DropPoolOK, BuffersLeftAlone

LEMMA DestructionLog ==
  ASSUME IInv, LogInv, ReturnPage \/ ReleasePool
  PROVE  LogInv' /\ Log' = Log
<1>1. UNCHANGED <<pool, data, size, running, v, n>>
  BY DEF ReturnPage, ReleasePool, buffers, call
<1> QED BY <1>1, ReturnPageStepOK, ReleasePoolOK, BuffersLeftAlone

\* append has copied nothing yet.
LEMMA AppendCallLog ==
  ASSUME IInv, LogInv, NEW b \in Buffer, NEW x \in Inputs, AppendCall(b, x)
  PROVE  LogInv' /\ Log' = Log
<1>1. x \in Seq(Data) /\ Len(x) \in Nat /\ Len(x) - Len(x) = 0
  BY InputAssumption
<1>2. /\ UNCHANGED <<cell, pool, data, size>> /\ running = None
      /\ running' = b /\ v' = x /\ n' = Len(x)
  BY DEF AppendCall, buffers, Idle
<1>3. IInv'
  BY AppendCallOK
<1>4. ASSUME NEW d \in Buffer PROVE (\E s : Says(d, s)') /\ Log'[d] = Log[d]
  <2>1. PICK s : Says(d, s)
    BY DEF LogInv
  <2>2. Len(v') - n' = 0 /\ v' \in Inputs
    BY <1>1, <1>2
  <2>3. s \in Seq(Data) /\ Holds(data'[d], cell', s) /\ Len(s) = size'[d] /\ 0 <= Len(s)
    BY <1>2, <2>1 DEF Says
  <2>4. Says(d, s)'
    <3>1. \A i \in 1 .. 0 : FALSE
      OBVIOUS
    <3> QED BY <2>2, <2>3, <3>1 DEF Says, EndsIn
  <2>5. running # d
    BY <1>2, PoolAssumption
  <2>6. Log[d] = Shown(pool[d], s, 0)
    BY <2>1, <2>5, LogShows
  <2>7. Log'[d] = Shown(pool'[d], s, IF running' = d THEN Len(v') - n' ELSE 0)
    BY <1>3, <2>4, LogShowsNext
  <2> QED BY <1>2, <2>2, <2>4, <2>6, <2>7
<1>5. Log' = Log
  BY <1>4, LogsAsBefore
<1> QED BY <1>4, <1>5 DEF LogInv

\* The page that a buffer gets is empty.
LEMMA GetNewPageLog ==
  ASSUME IInv, LogInv, getNewPage
  PROVE  LogInv' /\ Log' = Log
<1> DEFINE b == running
           p == pool[b]
           r(a) == [addr |-> a, parent |-> p, used |-> 0]
<1>1. b \in Buffer /\ p \in Pool
  <2>1. b # None /\ b \in Buffer
    BY DEF getNewPage, IInv, TypeOK
  <2>2. p # None /\ pool[b] \in Pool \cup {None}
    BY <2>1 DEF IInv, CallRuns, TypeOK
  <2> QED BY <2>1, <2>2
<1>2. PICK a \in getPage(p) :
        /\ heap' = heap \cup {a}
        /\ cell' = IF stack[p] = <<>>
                   THEN [cell EXCEPT ![a] = [i \in 1 .. PageSize[p] |-> None]] ELSE cell
        /\ data' = [data EXCEPT ![b] = Append(@, r(a))]
  BY DEF getNewPage
<1>3. UNCHANGED <<pool, size, running, v, n>>
  BY DEF getNewPage, call
<1>4. a \in Page /\ \A c \in InBuffers(data) : cell'[c] = cell[c]
  BY <1>1, <1>2, PageGiven
<1>5. IInv'
  BY GetNewPageOK
<1>6. data \in [Buffer -> Seq(PageRecord)] /\ cell' \in [Page -> Seq(Byte)]
  BY <1>5 DEF IInv, TypeOK, PageRecord, Byte
<1> DEFINE q == r(a)
<1>7. q \in PageRecord /\ q.used = 0
  BY <1>1, <1>4 DEF PageRecord
<1>8. \A d \in Buffer : data'[d] = IF d = b THEN Append(data[d], q) ELSE data[d]
  BY <1>2, <1>6
<1> HIDE DEF q, r, b, p
<1>9. ASSUME NEW d \in Buffer PROVE (\E s : Says(d, s)') /\ Log'[d] = Log[d]
  <2>1. PICK s : Says(d, s)
    BY DEF LogInv
  <2>2. Holds(data[d], cell, s) /\ data[d] \in Seq(PageRecord) /\ s \in Seq(Data)
    BY <1>6, <2>1 DEF Says
  <2>3. \A i \in DOMAIN data[d] : cell'[data[d][i].addr] = cell[data[d][i].addr]
    BY <1>4, <1>6, AddressOfPage
  <2>4. Holds(data[d], cell', s)
    BY <2>2, <2>3, SamePages
  <2>5. Holds(Append(data[d], q), cell', s)
    BY <1>6, <1>7, <2>2, <2>4, OnePageMore
  <2>6. Holds(data'[d], cell', s)
    BY <1>8, <2>4, <2>5
  <2>7. Says(d, s)'
    BY <1>3, <2>1, <2>6, SaysStill
  <2> QED BY <1>3, <1>5, <2>1, <2>7, SameLog
<1>10. Log' = Log
  BY <1>9, LogsAsBefore
<1> QED BY <1>9, <1>10 DEF LogInv
\* The next z of x after its first m.
Chunk(x, m, z) == SubSeq(x, m + 1, m + z)

LEMMA ChunkIs ==
  ASSUME NEW x \in Seq(Data), NEW m \in Nat, NEW z \in Nat, m + z <= Len(x)
  PROVE  /\ Chunk(x, m, z) \in Seq(Data) /\ Len(Chunk(x, m, z)) = z
         /\ \A o \in 1 .. z : Chunk(x, m, z)[o] = x[m + o]
<1>1. \A o \in m + 1 .. m + z : o \in 1 .. Len(x)
  OBVIOUS
<1>2. m + 1 \in Nat /\ m + z \in Nat /\ (m + z) - (m + 1) + 1 = z
  OBVIOUS
<1>3. SubSeq(x, m + 1, m + z) = [o \in 1 .. z |-> x[m + o]]
  <2>1. SubSeq(x, m + 1, m + z) = [o \in 1 .. (m + z) - (m + 1) + 1 |-> x[o + (m + 1) - 1]]
    BY <1>2
  <2>2. \A o \in 1 .. z : o + (m + 1) - 1 = m + o
    OBVIOUS
  <2> QED BY <1>2, <2>1, <2>2
<1>4. \A o \in 1 .. z : x[m + o] \in Data
  <2>1. \A o \in 1 .. z : m + o \in m + 1 .. m + z
    OBVIOUS
  <2> QED BY <1>1, <2>1
<1>5. [o \in 1 .. z |-> x[m + o]] \in Seq(Data) /\ Len([o \in 1 .. z |-> x[m + o]]) = z
  BY <1>4
<1> QED BY <1>3, <1>5 DEF Chunk

LEMMA ChunkIndex ==
  ASSUME NEW l \in Nat, NEW m \in Nat, NEW z \in Nat, m <= l
  PROVE  /\ l - m \in Nat /\ l - m <= l
         /\ (l + z) - (m + z) = l - m /\ m + z <= l + z
         /\ \A i \in 1 .. m + z : l - m + i \in 1 .. l + z
         /\ \A i \in 1 .. m + z : IF i <= m THEN i \in 1 .. m /\ l - m + i <= l
                                 ELSE /\ i - m \in 1 .. z /\ ~(l - m + i <= l)
                                      /\ l - m + i - l = i - m /\ m + (i - m) = i
         /\ \A i \in 1 .. l - m : i \in 1 .. l + z /\ i <= l /\ i \in 1 .. l
         /\ \A i \in 1 .. l + z : ~(i <= l - m) => i - (l - m) \in 1 .. m + z
                                                  /\ l - m + (i - (l - m)) = i
OBVIOUS

\* s ends in the first m of x, and x has the next z; t is s with them behind it.
Awaits(s, x, m, z)   == /\ s \in Seq(Data) /\ x \in Seq(Data) /\ m \in Nat /\ z \in Nat
                        /\ EndsIn(s, x, m) /\ m + z <= Len(x)
Reached(s, x, m, z, t) ==
  /\ t \in Seq(Data) /\ Len(t) = Len(s) + z /\ EndsIn(t, x, m + z)
  /\ SubSeq(t, 1, Len(t) - (m + z)) = SubSeq(s, 1, Len(s) - m)
  /\ m + z = Len(x) => t = SubSeq(s, 1, Len(s) - m) \o x

LEMMA AfterChunk ==
  ASSUME NEW s, NEW x, NEW m, NEW z, Awaits(s, x, m, z)
  PROVE  Reached(s, x, m, z, s \o Chunk(x, m, z))
<1>25. PICK t : t = s \o Chunk(x, m, z)
  OBVIOUS
<1>26. /\ s \in Seq(Data) /\ x \in Seq(Data) /\ m \in Nat /\ z \in Nat /\ EndsIn(s, x, m)
       /\ m + z <= Len(x)
  BY DEF Awaits
<1> DEFINE l == Len(s)
           q == Chunk(x, m, z)
           a == SubSeq(s, 1, l - m)
<1>1. q \in Seq(Data) /\ Len(q) = z /\ \A o \in 1 .. z : q[o] = x[m + o]
  BY <1>26, ChunkIs
<1>2. /\ t \in Seq(Data) /\ Len(t) = l + z
      /\ \A i \in 1 .. l + z : t[i] = IF i <= l THEN s[i] ELSE q[i - l]
  <2> HIDE DEF q
  <2>1. t = s \o q
    BY <1>25 DEF q
  <2>2. /\ s \o q \in Seq(Data) /\ Len(s \o q) = Len(s) + Len(q)
        /\ \A i \in 1 .. Len(s) + Len(q) : (s \o q)[i] = IF i <= Len(s) THEN s[i] ELSE q[i - Len(s)]
    BY <1>1, <1>26, Joined, Zenon
  <2> QED BY <1>1, <2>1, <2>2
<1>3. l \in Nat /\ m <= l
  BY <1>26 DEF EndsIn
<1>4. a \in Seq(Data) /\ Len(a) = l - m /\ \A i \in 1 .. l - m : a[i] = s[i]
  <2>1. l - m \in 0 .. Len(s)
    BY <1>3, <1>26
  <2> QED BY <1>26, <2>1
<1>5. \A i \in 1 .. m : s[l - m + i] = x[i]
  BY <1>26 DEF EndsIn
<1> HIDE DEF l, q, a
<1>6. ASSUME NEW i \in 1 .. m + z PROVE t[l - m + i] = x[i]
  <2>1. l - m + i \in 1 .. l + z
    BY <1>3, <1>26, ChunkIndex
  <2>2. IF i <= m THEN i \in 1 .. m /\ l - m + i <= l
        ELSE i - m \in 1 .. z /\ ~(l - m + i <= l) /\ l - m + i - l = i - m /\ m + (i - m) = i
    BY <1>3, <1>26, ChunkIndex
  <2> DEFINE j == l - m + i
             o == i - m
  <2>3. CASE i <= m
    <3>1. j \in 1 .. l + z /\ j <= l /\ i \in 1 .. m
      BY <2>1, <2>2, <2>3
    <3>2. s[j] = x[i]
      BY <1>5, <3>1
    <3> HIDE DEF j
    <3>3. t[j] = x[i]
      BY <1>2, <3>1, <3>2
    <3> QED BY <3>3 DEF j
  <2>4. CASE ~(i <= m)
    <3>0. i - m \in 1 .. z /\ ~(l - m + i <= l) /\ l - m + i - l = i - m /\ m + (i - m) = i
      BY <2>2, <2>4, Zenon
    <3>1. j \in 1 .. l + z /\ ~(j <= l)
      BY <2>1, <3>0
    <3>3. j - l = o
      BY <1>3, <1>26
    <3>4. o \in 1 .. z /\ m + o = i
      BY <3>0
    <3> HIDE DEF j, o
    <3>2. t[j] = q[o] /\ q[o] = x[i]
      BY <1>1, <1>2, <3>1, <3>3, <3>4
    <3> QED BY <3>2 DEF j
  <2> QED BY <2>3, <2>4
<1>7. (l + z) - (m + z) = l - m /\ m + z <= l + z /\ l - m \in Nat /\ l - m <= l + z
  BY <1>3, <1>26, ChunkIndex
<1>8. ASSUME NEW i \in 1 .. l - m PROVE t[i] = a[i] /\ i \in 1 .. l + z
  <2>1. i \in 1 .. l + z /\ i <= l
    BY <1>3, <1>26, ChunkIndex
  <2> QED BY <1>2, <1>4, <2>1
<1>9. SubSeq(t, 1, l - m) = a
  <2> DEFINE w == SubSeq(t, 1, l - m)
             y == l - m
  <2>1. w \in Seq(Data) /\ Len(w) = y /\ \A i \in 1 .. y : w[i] = t[i]
    <3> HIDE DEF y
    <3>1. y \in 0 .. Len(t)
      BY <1>2, <1>7, <1>26 DEF y
    <3> QED BY <1>2, <3>1 DEF y
  <2> HIDE DEF w, y
  <2>2. \A i \in 1 .. y : w[i] = a[i]
    BY <1>8, <2>1 DEF y
  <2>3. a \in Seq(Data) /\ Len(a) = y
    BY <1>4 DEF y
  <2>4. w = a
    BY <2>1, <2>2, <2>3
  <2> QED BY <2>4 DEF w
<1>10. ASSUME m + z = Len(x) PROVE t = a \o x
  <2>1. /\ a \o x \in Seq(Data) /\ Len(a \o x) = Len(a) + Len(x)
        /\ \A i \in 1 .. Len(a) + Len(x) : (a \o x)[i] = IF i <= Len(a) THEN a[i] ELSE x[i - Len(a)]
    BY <1>4, <1>26, Joined, Zenon
  <2>2. l - m + (m + z) = l + z
    BY <1>3, <1>26
  <2>3. Len(a) + Len(x) = l + z
    BY <1>4, <1>10, <2>2
  <2>4. ASSUME NEW i \in 1 .. l + z PROVE (a \o x)[i] = t[i]
    <3>1. (a \o x)[i] = IF i <= l - m THEN a[i] ELSE x[i - (l - m)]
      BY <1>4, <2>1, <2>3
    <3>2. CASE i <= l - m
      <4>1. i \in 1 .. l - m
        BY <1>3, <1>7, <1>26, <3>2
      <4> QED BY <1>8, <3>1, <3>2, <4>1
    <3>3. CASE ~(i <= l - m)
      <4>1. i - (l - m) \in 1 .. m + z /\ l - m + (i - (l - m)) = i
        BY <1>3, <1>26, <3>3, ChunkIndex
      <4> DEFINE o == i - (l - m)
      <4>2. t[l - m + o] = x[o]
        BY <1>6, <4>1
      <4> QED BY <3>1, <3>3, <4>1, <4>2
    <3> QED BY <3>2, <3>3
  <2>5. Len(a \o x) = l + z /\ a \o x \in Seq(Data)
    BY <2>1, <2>3
  <2> DEFINE w == a \o x
  <2>6. w \in Seq(Data) /\ Len(w) = l + z /\ \A i \in 1 .. l + z : w[i] = t[i]
    BY <2>4, <2>5
  <2> HIDE DEF w
  <2>7. w = t
    BY <1>2, <2>6
  <2> QED BY <2>7 DEF w
<1>11. t \in Seq(Data) /\ Len(t) = Len(s) + z /\ EndsIn(t, x, m + z)
  BY <1>2, <1>6, <1>7 DEF l, EndsIn
<1>12. SubSeq(t, 1, Len(t) - (m + z)) = SubSeq(s, 1, Len(s) - m)
  BY <1>2, <1>7, <1>9 DEF l, a
<1>13. m + z = Len(x) => t = SubSeq(s, 1, Len(s) - m) \o x
  BY <1>10 DEF l, a
<1> QED BY <1>11, <1>12, <1>13, <1>25 DEF Reached
LEMMA SourceOf ==
  ASSUME NEW l \in Nat, NEW w \in Nat, NEW off \in Nat, NEW o \in Nat
  PROVE  l - w + 1 + (off + o) - off - 1 = l - w + o
OBVIOUS

\* A chunk lies behind what its page had, and in no other page.
LEMMA ChunkWritten ==
  ASSUME IInv, AppendChunk
  PROVE  LET b == running
             k == Len(data[b])
             r == [data[b][k] EXCEPT !.used = @ + ChunkSize]
             q == Chunk(v, Len(v) - n, ChunkSize)
         IN  /\ data'[b] = [data[b] EXCEPT ![k] = r] /\ r \in PageRecord
             /\ Lengthened(data[b], cell, cell', r, q)
             /\ \A d \in Buffer : d # b =>
                  \A i \in DOMAIN data[d] : cell'[data[d][i].addr] = cell[data[d][i].addr]
<1> DEFINE b    == running
           p    == pool[b]
           k    == Len(data[b])
           last == data[b][k]
           sz   == ChunkSize
           m    == Len(v) - n
           q    == Chunk(v, m, sz)
           r    == [last EXCEPT !.used = @ + sz]
<1>1. /\ b \in Buffer /\ p \in Pool /\ n \in 1 .. Len(v) /\ v \in Seq(Data) /\ Len(v) \in Nat
      /\ data \in [Buffer -> Seq(PageRecord)]
      /\ cell \in [Page -> Seq(Data \cup {None})] /\ PageSize[p] \in Nat
  BY ChunkStep
<1>2. /\ cell' = [cell EXCEPT ![writePos[b].page] =
                    [i \in DOMAIN @ |-> IF i \in writePos[b].off + 1 .. writePos[b].off + sz
                                        THEN v[Len(v) - n + 1 + i - writePos[b].off - 1]
                                        ELSE @[i]]]
      /\ data' = [data EXCEPT ![b][k].used = @ + sz]
  BY ChunkStep
<1>3. sz \in Nat /\ sz \in 1 .. n /\ sz <= availWrite[b] /\ availWrite[b] # 0 /\ n \in Nat
      /\ availWrite[b] \in Nat
  BY ChunkStep
<1>4. /\ k # 0
      /\ writePos[b] = [page |-> last.addr, off |-> last.used]
      /\ last.used + availWrite[b] = PageSize[p]
  BY ChunkStep
<1>5. Len(cell[last.addr]) = PageSize[p] /\ last \in PageRecord /\ k \in 1 .. k /\ k \in Nat
      /\ DOMAIN data[b] = 1 .. k /\ data[b] \in Seq(PageRecord)
  <2>1. data[b] \in Seq(PageRecord) /\ k \in 1 .. k /\ k \in Nat /\ DOMAIN data[b] = 1 .. k
    BY <1>1, <1>4
  <2>2. last \in PageRecord
    BY <2>1
  <2> QED BY <1>1, <2>1, <2>2 DEF IInv, PagesFit
<1> HIDE DEF b, p, sz
<1>6. last.addr \in Page /\ last.parent \in Pool /\ last.used \in Nat
  BY <1>5 DEF PageRecord
<1>7. r \in PageRecord /\ r.addr = last.addr /\ r.used = last.used + sz
  BY <1>3, <1>5, <1>6 DEF PageRecord
<1>8. m \in Nat /\ m + sz <= Len(v)
  BY <1>1, <1>3
<1>9. q \in Seq(Data) /\ Len(q) = sz /\ \A o \in 1 .. sz : q[o] = v[m + o]
  <2> HIDE DEF m, q
  <2> QED BY <1>1, <1>3, <1>8, ChunkIs DEF q
<1> HIDE DEF q, r
<1> DEFINE a    == last.addr
           off  == last.used
           text == [i \in DOMAIN cell[a] |-> IF i \in off + 1 .. off + sz
                                            THEN v[Len(v) - n + 1 + i - off - 1]
                                            ELSE cell[a][i]]
<1>10. cell' = [cell EXCEPT ![a] = text]
  <2>1. writePos[b].page = a /\ writePos[b].off = off
    BY <1>4
  <2> QED BY <1>1, <1>2, <1>6, <2>1
<1>11. DOMAIN cell[a] = 1 .. PageSize[p]
  BY <1>1, <1>5, <1>6
<1>12. /\ cell'[a] = text /\ \A e \in Page : e # a => cell'[e] = cell[e]
  BY <1>1, <1>6, <1>10
<1> HIDE DEF k, last
<1>13. Len(text) = PageSize[p]
  <2>1. text = [i \in 1 .. PageSize[p] |-> text[i]]
    BY <1>11
  <2> HIDE DEF text
  <2> QED BY <1>1, <2>1
<1>14. ASSUME NEW d \in Buffer, NEW i \in DOMAIN data[d], ~(d = b /\ i = k)
       PROVE  cell'[data[d][i].addr] = cell[data[d][i].addr]
  <2>1. data[d][i].addr # data[b][k].addr
    BY <1>1, <1>5, <1>14 DEF IInv, BuffersApart
  <2>2. data[d][i] \in PageRecord
    BY <1>1
  <2>3. data[d][i].addr \in Page
    BY <2>2 DEF PageRecord
  <2> HIDE DEF text
  <2> QED BY <1>12, <2>1, <2>3 DEF last
<1>15. \A i \in 1 .. k - 1 : cell'[data[b][i].addr] = cell[data[b][i].addr]
  <2>1. \A i \in 1 .. k - 1 : i \in 1 .. k /\ i # k
    BY <1>5
  <2> HIDE DEF text
  <2> QED BY <1>1, <1>5, <1>14, <2>1
<1>16. ASSUME NEW o \in 1 .. off PROVE cell'[a][o] = cell[a][o]
  <2>1. o \in 1 .. PageSize[p] /\ o \notin off + 1 .. off + sz
    BY <1>1, <1>3, <1>4, <1>6
  <2>2. text[o] = cell[a][o]
    BY <1>11, <2>1
  <2> HIDE DEF text
  <2> QED BY <1>12, <2>2
<1>17. ASSUME NEW o \in 1 .. sz PROVE cell'[a][off + o] = q[o]
  <2>1. off + o \in 1 .. PageSize[p] /\ off + o \in off + 1 .. off + sz
    BY <1>1, <1>3, <1>4, <1>6
  <2>2. Len(v) - n + 1 + (off + o) - off - 1 = m + o
    <3>1. Len(v) \in Nat /\ n \in Nat /\ off \in Nat /\ o \in Nat
      BY <1>1, <1>3, <1>6
    <3> HIDE DEF off
    <3> QED BY <3>1, SourceOf
  <2>3. text[off + o] = v[Len(v) - n + 1 + (off + o) - off - 1]
    BY <1>11, <2>1
  <2>4. text[off + o] = q[o]
    <3> HIDE DEF text, m
    <3> QED BY <1>9, <2>2, <2>3
  <2> HIDE DEF text
  <2> QED BY <1>12, <2>4
<1>18. r.used <= Len(cell'[r.addr])
  <2>1. r.used <= PageSize[p]
    BY <1>1, <1>3, <1>4, <1>6, <1>7
  <2> HIDE DEF text
  <2> QED BY <1>7, <1>12, <1>13, <2>1
<1>19. Lengthened(data[b], cell, cell', r, q)
  <2> HIDE DEF text
  <2> QED BY <1>7, <1>9, <1>15, <1>16, <1>17, <1>18 DEF Lengthened, k, last
<1>20. data'[b] = [data[b] EXCEPT ![k] = r]
  BY <1>1, <1>2, <1>5 DEF r, last
<1>21. \A d \in Buffer : d # b =>
         \A i \in DOMAIN data[d] : cell'[data[d][i].addr] = cell[data[d][i].addr]
  BY <1>14
<1> QED BY <1>7, <1>19, <1>20, <1>21 DEF b, k, r, last, q, m, sz
\* The last chunk of an append extends the log, the ones before leave it alone.
LEMMA AppendChunkLog ==
  ASSUME IInv, LogInv, AppendChunk
  PROVE  LogInv' /\ (Log' = Log \/ \E b \in Buffer, x \in Inputs : A!Extend(b, x))
<1>0. running \in Buffer
  BY ChunkStep
<1> PICK b \in Buffer : b = running
  BY <1>0
<1> DEFINE p == pool[b]
           k == Len(data[b])
           z == ChunkSize
           m == Len(v) - n
           q == Chunk(v, m, z)
           r == [data[b][k] EXCEPT !.used = @ + z]
<1>1. /\ b \in Buffer /\ p \in Pool /\ n \in 1 .. Len(v) /\ v \in Seq(Data) /\ Len(v) \in Nat
      /\ data \in [Buffer -> Seq(PageRecord)] /\ size \in [Buffer -> Nat]
      /\ cell \in [Page -> Seq(Data \cup {None})]
  BY ChunkStep
<1>2. /\ size' = [size EXCEPT ![b] = @ + z]
      /\ data' = [data EXCEPT ![b][k].used = @ + z]
      /\ IF n = z THEN running' = None /\ v' = <<>> /\ n' = 0
                  ELSE running' = b /\ v' = v /\ n' = n - z
      /\ pool' = pool
  BY ChunkStep
<1>3. z \in Nat /\ z \in 1 .. n /\ n \in Nat
  BY ChunkStep
<1>4. k # 0
  BY ChunkStep
<1>5. /\ data'[b] = [data[b] EXCEPT ![k] = r] /\ r \in PageRecord
      /\ Lengthened(data[b], cell, cell', r, q)
      /\ \A d \in Buffer : d # b =>
           \A i \in DOMAIN data[d] : cell'[data[d][i].addr] = cell[data[d][i].addr]
  BY ChunkWritten
<1>6. IInv'
  BY AppendChunkOK
<1> HIDE DEF z
<1>7. /\ data[b] \in Seq(PageRecord) /\ data[b] # <<>> /\ cell \in [Page -> Seq(Byte)]
  BY <1>1, <1>4 DEF Byte
<1>8. /\ size'[b] = size[b] + z
      /\ \A d \in Buffer : d # b => data'[d] = data[d] /\ size'[d] = size[d]
  BY <1>1, <1>2
<1> HIDE DEF r
<1>9. m \in Nat /\ m + z <= Len(v) /\ (n = z => m + z = Len(v)) /\ Len(v) - (n - z) = m + z
  BY <1>1, <1>3
<1>10. PICK s : Says(b, s)
  BY <1>1 DEF LogInv
<1>11. /\ s \in Seq(Data) /\ Holds(data[b], cell, s) /\ Len(s) = size[b]
       /\ v \in Inputs /\ EndsIn(s, v, m)
  BY <1>10 DEF Says
<1>25. PICK t : t = s \o q
  OBVIOUS
<1> HIDE DEF m, k
<1>12. /\ t \in Seq(Data) /\ Len(t) = Len(s) + z /\ EndsIn(t, v, m + z)
       /\ SubSeq(t, 1, Len(t) - (m + z)) = SubSeq(s, 1, Len(s) - m)
       /\ m + z = Len(v) => t = SubSeq(s, 1, Len(s) - m) \o v
  <2>1. Awaits(s, v, m, z)
    BY <1>1, <1>3, <1>9, <1>11 DEF Awaits
  <2>2. Reached(s, v, m, z, t)
    BY <1>25, <2>1, AfterChunk
  <2> QED BY <2>2 DEF Reached
<1>13. q \in Seq(Data)
  BY <1>1, <1>3, <1>9, ChunkIs
<1> HIDE DEF q
<1>14. Holds(data'[b], cell', t)
  <2>1. Holds([data[b] EXCEPT ![Len(data[b])] = r], cell', s \o q)
    BY <1>5, <1>7, <1>11, <1>13, MoreInLastPage
  <2> QED BY <1>5, <1>25, <2>1 DEF k
<1>15. Len(t) = size'[b]
  BY <1>8, <1>11, <1>12
<1>16. n # z => v' = v /\ Len(v') - n' = m + z
  BY <1>2, <1>9
<1>17. Says(b, t)'
  <2>1. CASE n = z
    <3>1. running' # b
      BY <1>1, <1>2, <2>1, PoolAssumption
    <3> QED BY <1>12, <1>14, <1>15, <3>1 DEF Says
  <2>2. CASE n # z
    BY <1>11, <1>12, <1>14, <1>15, <1>16, <2>2 DEF Says
  <2> QED BY <2>1, <2>2
<1>18. p # None /\ pool'[b] = p
  BY <1>1, <1>2, PoolAssumption
<1>19. Log[b] = SubSeq(s, 1, Len(s) - m)
  <2>1. Log[b] = Shown(pool[b], s, IF running = b THEN Len(v) - n ELSE 0)
    BY <1>1, <1>10, LogShows
  <2> QED BY <1>18, <2>1 DEF Shown, m
<1>20. Log'[b] = Shown(pool'[b], t, IF running' = b THEN Len(v') - n' ELSE 0)
  BY <1>1, <1>6, <1>17, LogShowsNext
<1>21. ASSUME NEW d \in Buffer, d # b
       PROVE  (\E u : Says(d, u)') /\ Log'[d] = Log[d]
  <2>1. PICK u : Says(d, u)
    BY DEF LogInv
  <2>2. running # d /\ running' # d
    <3>1. d # None
      BY PoolAssumption
    <3> QED BY <1>2, <1>21, <3>1
  <2>3. data'[d] = data[d] /\ size'[d] = size[d]
    BY <1>8, <1>21
  <2>4. \A i \in DOMAIN data[d] : cell'[data[d][i].addr] = cell[data[d][i].addr]
    BY <1>5, <1>21
  <2>5. Says(d, u)'
    BY <2>1, <2>2, <2>3, <2>4, SaysOn
  <2>6. Log[d] = IF pool[d] = None THEN None ELSE u
    BY <2>1, <2>2, IdleLog
  <2>7. Log'[d] = IF pool'[d] = None THEN None ELSE u
    BY <1>6, <2>2, <2>5, IdleLogNext
  <2> QED BY <1>2, <2>5, <2>6, <2>7
<1>22. LogInv'
  <2>1. \A d \in Buffer : \E u : Says(d, u)'
    BY <1>17, <1>21
  <2> QED BY <2>1 DEF LogInv
<1>23. CASE n = z
  <2>1. Log'[b] = t
    <3>1. running' # b
      BY <1>1, <1>2, <1>23, PoolAssumption
    <3> QED BY <1>12, <1>18, <1>20, <3>1, NoText DEF Shown
  <2>2. Log'[b] = Log[b] \o v
    BY <1>9, <1>12, <1>19, <1>23, <2>1
  <2>3. Log[b] # None
    <3>1. SubSeq(s, 1, Len(s) - m) \in Seq(Data)
      <4>1. Len(s) - m \in 0 .. Len(s)
        BY <1>9, <1>11 DEF EndsIn
      <4> QED BY <1>11, <4>1
    <3> QED BY <1>19, <3>1, NoText
  <2>4. Log' = [Log EXCEPT ![b] = Log[b] \o v]
    <3>1. [Log EXCEPT ![b] = Log[b] \o v] = [d \in Buffer |-> IF d = b THEN Log[b] \o v ELSE Log[d]]
      BY LogIsFunction
    <3>2. \A d \in Buffer : Log'[d] = IF d = b THEN Log[b] \o v ELSE Log[d]
      BY <1>21, <2>2
    <3> QED BY <3>1, <3>2, LogIsFunction
  <2>5. A!Extend(b, v)
    BY <2>3, <2>4 DEF A!Extend
  <2> QED BY <1>1, <1>11, <1>22, <2>5
<1>24. CASE n # z
  <2>1. running' = b
    BY <1>2, <1>24
  <2>2. Log'[b] = SubSeq(t, 1, Len(t) - (m + z))
    BY <1>16, <1>18, <1>20, <1>24, <2>1 DEF Shown
  <2>3. Log'[b] = Log[b]
    BY <1>12, <1>19, <2>2
  <2>4. \A d \in Buffer : Log'[d] = Log[d]
    BY <1>21, <2>3
  <2> QED BY <1>22, <2>4, LogsAsBefore
<1> QED BY <1>23, <1>24

LEMMA InitLog ==
  ASSUME Init
  PROVE  LogInv /\ A!Init
<1>1. ASSUME NEW b \in Buffer PROVE Says(b, <<>>) /\ pool[b] = None
  <2>1. data[b] = <<>> /\ size[b] = 0 /\ running # b /\ pool[b] = None
    BY PoolAssumption DEF Init
  <2> QED BY <2>1, NoPages DEF Says
<1>2. LogInv
  BY <1>1 DEF LogInv
<1>3. Log = [b \in Buffer |-> None]
  <2>1. \A b \in Buffer : running # b
    BY PoolAssumption DEF Init
  <2>2. \A b \in Buffer : Log[b] = None
    BY <1>1, <2>1, InitIInv, IdleLog
  <2> QED BY <2>2, LogIsFunction
<1> QED BY <1>2, <1>3 DEF A!Init

LEMMA NextLog ==
  ASSUME IInv, LogInv, [Next]_vars
  PROVE  LogInv' /\ [A!Next]_Log
<1>1. CASE \E p \in Pool : NewPool(p)
  BY <1>1, NewPoolLog
<1>2. CASE \E p \in Pool : DropPool(p)
  BY <1>2, DropPoolLog
<1>3. CASE \E b \in Buffer, p \in Pool : Construct(b, p)
  BY <1>3, ConstructLog DEF A!Next
<1>4. CASE \E b \in Buffer, x \in Inputs : AppendCall(b, x)
  BY <1>4, AppendCallLog
<1>5. CASE \E b, c \in Buffer : Move(b, c) \/ MoveAssign(b, c)
  BY <1>5, MoveLog DEF A!Next
<1>6. CASE \E b \in Buffer : Destroy(b)
  BY <1>6, DestroyLog DEF A!Next
<1>7. CASE getNewPage
  BY <1>7, GetNewPageLog
<1>8. CASE AppendChunk
  BY <1>8, AppendChunkLog DEF A!Next
<1>9. CASE UNCHANGED vars
  <2>1. UNCHANGED <<pool, data, size, running, v, n>> /\ cell' = cell
    BY <1>9 DEF vars
  <2>2. IInv'
    BY NextIInv
  <2> QED BY <2>1, <2>2, BuffersLeftAlone
<1>10. CASE ReturnPage \/ ReleasePool
  BY <1>10, DestructionLog
<1> QED BY <1>1, <1>2, <1>3, <1>4, <1>5, <1>6, <1>7, <1>8, <1>9, <1>10 DEF Next

(* A buffer is the sequence of what was appended to it: peek gives it back *)
(* in order across the borders of pages, after moves, and whoever used its *)
(* pages before (append, getNewPage, returnPage, the implicit moves).      *)
THEOREM BuffersAreLogs == Spec => ImplementsLog
<1>1. Init => IInv /\ LogInv /\ A!Init
  BY InitIInv, InitLog
<1>2. IInv /\ LogInv /\ [Next]_vars => (IInv /\ LogInv)' /\ [A!Next]_Log
  BY NextIInv, NextLog
<1> QED BY <1>1, <1>2, PTL DEF Spec, ImplementsLog, A!Spec
================================================================================
