----------------------------- MODULE SimpleBuffer -----------------------------
(***************************************************************************)
(* MemoryPool, MemoryPage and SimpleBuffer<T> (bf/buffers.h): buffers that *)
(* grow by pages, and pools that keep a few returned pages for the next    *)
(* request.  A pool is shared by its buffers and by the caller through a   *)
(* shared_ptr and dies with the last of them; a page knows its pool by a   *)
(* plain pointer.                                                          *)
(*                                                                         *)
(* All of it is used by one thread; append and the destruction of a        *)
(* buffer's members run in steps, so that the states between two chunks    *)
(* and between two destructors are seen as well.  Elements are bytes:      *)
(* append and peek hand their element counts to memcpy.                    *)
(*                                                                         *)
(* Definitions marked "Fault" are the definition after them with a bug, to *)
(* see that the properties notice; no specification uses them.             *)
(***************************************************************************)
EXTENDS Naturals, Sequences, SequencesExt

CONSTANTS Pool, Buffer,
          Page,      \* the addresses new char[] may return
          PageSize,  \* m_pageSize of each pool
          MinCache,  \* m_minNumberPageCahce of each pool
          Data,      \* the values of a byte
          Inputs,    \* the sequences a caller may append
          MaxSize,   \* bound on the size of a buffer
          None,      \* no pool, no buffer, no byte
          DropsLast, \* whether a caller may move another buffer into one that
                     \* has the last pointer to its pool
          OSPageSize, \* what getconf answers when asked for the page size,
          Answer      \* and the characters it answers with

ASSUME PoolAssumption ==
  /\ PageSize \in [Pool -> Nat] /\ MinCache \in [Pool -> Nat]
  /\ OSPageSize \in Nat /\ Answer \in Nat /\ DropsLast \in BOOLEAN
  /\ None \notin Pool \cup Buffer \cup Page \cup Data /\ Pool \cap Buffer = {}
ASSUME InputAssumption == Inputs \subseteq Seq(Data) \ {<<>>} /\ None \notin Seq(Data)

VARIABLES heap,       \* the pages allocated and not deleted
          lost,       \* those of a pool that died with pages on its stack
          cell,       \* the bytes of each page
          stack,      \* m_pageStack of each pool, the top last
          held,       \* the pools the caller has a MemoryPoolPtr to
          pool,       \* m_pool of each buffer, None if there is no buffer
          data,       \* m_data: page, its pool (m_parent) and the bytes used
          size,       \* m_size
          writePos,   \* m_writePos, as a page and an offset
          availWrite, \* m_availWrite
          running,    \* the buffer whose append is running, or None
          v, n,       \* its arguments: the bytes, and how many are left to copy
          old,        \* the elements of an m_data that are still to be destroyed
          oldPool     \* an m_pool that is to be destroyed after them, or None

buffers == <<pool, data, size, writePos, availWrite>>
call    == <<running, v, n>>
dying   == <<old, oldPool>>
vars    == <<heap, lost, cell, stack, held, pool, data, size, writePos, availWrite,
             running, v, n, old, oldPool>>

NoPos == [page |-> None, off |-> 0]
Least(a, b) == IF a <= b THEN a ELSE b

Cached(p) == { stack[p][i] : i \in DOMAIN stack[p] }
Alive(p)  == p \in held \/ oldPool = p \/ \E b \in Buffer : pool[b] = p

\* No append and no destruction is under way.
Idle == running = None /\ old = <<>> /\ oldPool = None

Init == /\ heap = {} /\ lost = {}
        /\ cell = [a \in Page |-> <<>>]
        /\ stack = [p \in Pool |-> <<>>]
        /\ held = {}
        /\ pool = [b \in Buffer |-> None]
        /\ data = [b \in Buffer |-> <<>>]
        /\ size = [b \in Buffer |-> 0]
        /\ writePos = [b \in Buffer |-> NoPos]
        /\ availWrite = [b \in Buffer |-> 0]
        /\ running = None /\ v = <<>> /\ n = 0
        /\ old = <<>> /\ oldPool = None

-------------------------------------------------------------------------------
(* MemoryPool                                                              *)

\* The page size of a pool whose maker names none.  fread is asked for one
\* item of the buffer's 128 bytes, and a shorter answer is no item.
ItemSize == 128
getSystemPageSize == IF Answer >= ItemSize THEN OSPageSize ELSE 0

\* Fault: one page more than the cache is to hold.
returnOneMore(s, page) ==
  IF Len(s.stack[page.parent]) <= MinCache[page.parent]
  THEN [s EXCEPT !.stack[page.parent] = Append(@, page.addr)]
  ELSE [s EXCEPT !.heap = @ \ {page.addr}]

\* returnPage: keep the page if the stack is short, else delete it.
returnPage(s, page) ==
  IF Len(s.stack[page.parent]) < MinCache[page.parent]
  THEN [s EXCEPT !.stack[page.parent] = Append(@, page.addr)]
  ELSE [s EXCEPT !.heap = @ \ {page.addr}]

Memory == [stack |-> stack, heap |-> heap]

\* ~MemoryPage, for the pages of an m_data one after the other.  The stack of
\* a dead pool is freed memory: the page is lost, or deleted all the same.
ReturnPage == LET page == Head(old) IN
  /\ old # <<>>
  /\ old' = Tail(old)
  /\ \E s \in IF Alive(page.parent) THEN { returnPage(Memory, page) }
                ELSE { Memory, [Memory EXCEPT !.heap = @ \ {page.addr}] } :
       /\ stack' = s.stack /\ heap' = s.heap
       /\ lost' = IF Alive(page.parent) THEN lost ELSE lost \cup ({page.addr} \cap s.heap)
       /\ cell' = [cell EXCEPT ![page.addr] = IF page.addr \in heap' \ lost' THEN @ ELSE <<>>]
  /\ UNCHANGED <<held, oldPool, buffers, call>>

\* A pool that this step takes its last reference from goes, and with it, as
\* MemoryPool has no destructor, every trace of the pages on its stack.
\* Bytes nobody can reach are dropped.
Expire == LET dead == { p \in Pool : Alive(p) /\ ~Alive(p)' } IN
  /\ heap' = heap
  /\ stack' = [p \in Pool |-> IF p \in dead THEN <<>> ELSE stack[p]]
  /\ lost' = lost \cup UNION { ToSet(stack[p]) : p \in dead }
  /\ cell' = [a \in Page |-> IF a \in heap' \ lost' THEN cell[a] ELSE <<>>]

NewPool(p) ==
  /\ Idle
  /\ ~Alive(p)
  /\ held' = held \cup {p}
  /\ UNCHANGED <<heap, lost, cell, stack, buffers, call, dying>>

\* The caller lets go of its pointer.
DropPool(p) ==
  /\ Idle
  /\ p \in held
  /\ held' = held \ {p}
  /\ UNCHANGED <<buffers, call, dying>>
  /\ Expire

-------------------------------------------------------------------------------
(* SimpleBuffer                                                            *)

\* b becomes what the record says; <<>> fields are those of no buffer.
Nothing == [pool |-> None, data |-> <<>>, size |-> 0, pos |-> NoPos, avail |-> 0]
Fields(b) == [pool |-> pool[b], data |-> data[b], size |-> size[b],
              pos |-> writePos[b], avail |-> availWrite[b]]
Become(f) == /\ pool' = [b \in Buffer |-> f[b].pool]
             /\ data' = [b \in Buffer |-> f[b].data]
             /\ size' = [b \in Buffer |-> f[b].size]
             /\ writePos' = [b \in Buffer |-> f[b].pos]
             /\ availWrite' = [b \in Buffer |-> f[b].avail]
Same == [b \in Buffer |-> Fields(b)]

Construct(b, p) ==
  /\ Idle
  /\ pool[b] = None /\ p \in held
  /\ Become([Same EXCEPT ![b] = [Nothing EXCEPT !.pool = p]])
  /\ UNCHANGED <<heap, lost, cell, stack, held, call, dying>>

AppendCall(b, x) ==
  /\ Idle
  /\ pool[b] # None
  /\ size[b] + Len(x) <= MaxSize
  /\ running' = b /\ v' = x /\ n' = Len(x)
  /\ UNCHANGED <<heap, lost, cell, stack, held, buffers, dying>>

\* The top of the stack, or what new may return.
getPage(p) == IF stack[p] = <<>> THEN Page \ heap ELSE { Last(stack[p]) }

\* The page of getPage becomes the last of the buffer.
getNewPage == LET b == running
                  p == pool[b] IN
  /\ b # None
  /\ availWrite[b] = 0
  /\ \E a \in getPage(p) :
       /\ heap' = heap \cup {a}
       /\ cell' = IF stack[p] = <<>>
                  THEN [cell EXCEPT ![a] = [i \in 1 .. PageSize[p] |-> None]]
                  ELSE cell
       /\ data' = [data EXCEPT ![b] =
                     Append(@, [addr |-> a, parent |-> p, used |-> 0])]
       /\ writePos' = [writePos EXCEPT ![b] = [page |-> a, off |-> 0]]
  /\ stack' = [stack EXCEPT ![p] = IF @ = <<>> THEN @ ELSE Front(@)]
  /\ availWrite' = [availWrite EXCEPT ![b] = @ + PageSize[p]]
  /\ UNCHANGED <<lost, held, pool, size, call, dying>>

\* One memcpy of append's loop, of sz bytes of v from the one at from;
\* append returns when nothing is left.  count is added beside the page.
CopyChunk(b, sz, from, count) == LET to == writePos[b] IN
  /\ cell' = [cell EXCEPT ![to.page] =
                [i \in DOMAIN @ |-> IF i \in to.off + 1 .. to.off + sz
                                    THEN v[from + i - to.off - 1] ELSE @[i]]]
  /\ writePos' = [writePos EXCEPT ![b].off = @ + sz]
  /\ size' = [size EXCEPT ![b] = @ + sz]
  /\ availWrite' = [availWrite EXCEPT ![b] = @ - sz]
  /\ data' = [data EXCEPT ![b][Len(data[b])].used = @ + count]
  /\ IF n = sz THEN running' = None /\ v' = <<>> /\ n' = 0
               ELSE running' = b /\ v' = v /\ n' = n - sz
  /\ UNCHANGED <<heap, lost, stack, held, pool, dying>>

Appending == running # None /\ availWrite[running] > 0
ChunkSize == Least(availWrite[running], n)

\* Faults: a chunk is not cut at the end of the page; the source does not
\* move on; the page does not learn what it holds.
AppendWhole     == Appending /\ CopyChunk(running, n, Len(v) - n + 1, n)
AppendAgain     == Appending /\ CopyChunk(running, ChunkSize, 1, ChunkSize)
AppendUncounted == Appending /\ CopyChunk(running, ChunkSize, Len(v) - n + 1, 0)

AppendChunk == Appending /\ CopyChunk(running, ChunkSize, Len(v) - n + 1, ChunkSize)

\* Fault: m_pool is destroyed before m_data, as it would be if it were
\* declared behind it.
DestroyPoolFirst(b) ==
  /\ Idle
  /\ pool[b] # None
  /\ Become([Same EXCEPT ![b] = Nothing])
  /\ old' = data[b] /\ oldPool' = None
  /\ UNCHANGED <<held, call>>
  /\ Expire

\* The destructor: the members go in the reverse order of their declaration,
\* m_data with its pages (ReturnPage) before m_pool (ReleasePool).
Destroy(b) ==
  /\ Idle
  /\ pool[b] # None
  /\ Become([Same EXCEPT ![b] = Nothing])
  /\ old' = data[b] /\ oldPool' = pool[b]
  /\ UNCHANGED <<heap, lost, cell, stack, held, call>>

ReleasePool ==
  /\ old = <<>> /\ oldPool # None
  /\ oldPool' = None
  /\ UNCHANGED <<held, buffers, call, old>>
  /\ Expire

\* Fault: a plain copy of the members.
CopyMembers(b, c) ==
  /\ Idle
  /\ b # c /\ pool[b] = None /\ pool[c] # None
  /\ Become([Same EXCEPT ![b] = Fields(c)])
  /\ UNCHANGED <<heap, lost, cell, stack, held, call, dying>>

\* The implicit move constructor; the emptied source can only be destroyed.
Move(b, c) ==
  /\ Idle
  /\ b # c /\ pool[b] = None /\ pool[c] # None
  /\ Become([Same EXCEPT ![b] = Fields(c), ![c] = Nothing])
  /\ UNCHANGED <<heap, lost, cell, stack, held, call, dying>>

\* The implicit move assignment goes through the members as they are declared:
\* the old pool is let go of first, and the old pages are destroyed after that
\* (ReturnPage).  Nothing in the code keeps that pool; unless DropsLast the
\* caller has seen to it that somebody does.
MoveAssign(b, c) ==
  /\ Idle
  /\ b # c /\ pool[b] # None /\ pool[c] # None
  /\ DropsLast \/ pool[b] \in held \/ \E d \in Buffer \ {b} : pool[d] = pool[b]
  /\ Become([Same EXCEPT ![b] = Fields(c), ![c] = Nothing])
  /\ old' = data[b] /\ oldPool' = None
  /\ UNCHANGED <<held, call>>
  /\ Expire

Next == \/ \E p \in Pool : NewPool(p) \/ DropPool(p)
        \/ \E b \in Buffer : \/ \E p \in Pool : Construct(b, p)
                             \/ \E x \in Inputs : AppendCall(b, x)
                             \/ \E c \in Buffer : Move(b, c) \/ MoveAssign(b, c)
                             \/ Destroy(b)
        \/ getNewPage
        \/ AppendChunk
        \/ ReturnPage
        \/ ReleasePool

Spec == Init /\ [][Next]_vars

\* The thread that is in append goes on running it.
FairSpec == Spec /\ WF_vars(getNewPage) /\ WF_vars(AppendChunk)

-------------------------------------------------------------------------------
PageRecord == [addr : Page, parent : Pool, used : Nat]

TypeOK ==
  /\ heap \subseteq Page /\ lost \subseteq heap
  /\ cell \in [Page -> Seq(Data \cup {None})]
  /\ stack \in [Pool -> Seq(Page)]
  /\ held \subseteq Pool
  /\ pool \in [Buffer -> Pool \cup {None}]
  /\ data \in [Buffer -> Seq(PageRecord)]
  /\ size \in [Buffer -> Nat] /\ availWrite \in [Buffer -> Nat]
  /\ writePos \in [Buffer -> [page : Page \cup {None}, off : Nat]]
  /\ running \in Buffer \cup {None}
  /\ v \in Seq(Data) /\ n \in Nat
  /\ old \in Seq(PageRecord) /\ oldPool \in Pool \cup {None}

\* The places of pages: the slots of the buffers, those of the m_data that is
\* being destroyed, and those of the stacks.
Slots == (UNION { {b} \X DOMAIN data[b] : b \in Buffer })
         \cup ({None} \X DOMAIN old)
         \cup (UNION { {p} \X DOMAIN stack[p] : p \in Pool })
PageAt(s) == CASE s[1] \in Buffer -> data[s[1]][s[2]].addr
               [] s[1] \in Pool   -> stack[s[1]][s[2]]
               [] OTHER           -> old[s[2]].addr

(* A page is in one place: in one buffer, in what is left of one that is   *)
(* being destroyed, on one stack, or lost with its pool; a page that is    *)
(* none of these has been deleted, and none is deleted twice or given to   *)
(* two buffers (getPage, returnPage).                                      *)
PagesOwnedOnce ==
  /\ \A s, t \in Slots : PageAt(s) = PageAt(t) => s = t
  /\ heap \ lost = { PageAt(s) : s \in Slots }

\* The pages whose destructor is still to run.
LivePages == (UNION { ToSet(data[b]) : b \in Buffer }) \cup ToSet(old)

(* ~MemoryPage calls m_parent->returnPage through a plain pointer: the pool *)
(* is alive when it does, between any two steps of a destruction or of an  *)
(* assignment too, and it made the page, with its own page size; so no     *)
(* stack holds pages of another size, or more than its pool is to keep.    *)
ParentsAlive ==
  /\ \A page \in LivePages : /\ Alive(page.parent)
                             /\ Len(cell[page.addr]) = PageSize[page.parent]
  /\ \A p \in Pool : /\ Len(stack[p]) <= MinCache[p]
                     /\ \A a \in Cached(p) : Len(cell[a]) = PageSize[p]

\* What peek(v, k) copies out: from each page what it has, until k are read.
Peek(b, k) ==
  LET read[i \in 0 .. Len(data[b])] ==
        IF i = 0 THEN <<>>
        ELSE read[i - 1] \o SubSeq(cell[data[b][i].addr], 1,
                                   Least(data[b][i].used, k - Len(read[i - 1])))
  IN  read[Len(data[b])]

\* What the buffer holds for its caller: append takes effect as it returns.
Log == [b \in Buffer |->
          CASE pool[b] = None -> None
            [] running = b    -> Peek(b, size[b] - (Len(v) - n))
            [] OTHER          -> Peek(b, size[b])]

A == INSTANCE AppendLog WITH log <- Log

(* peek returns what was appended, in order: across page boundaries, after *)
(* moves, and while other buffers reuse the pages of destroyed ones.       *)
ImplementsLog == A!Spec

(* m_size, m_writePos, m_availWrite and the counts beside the pages never  *)
(* part, between two chunks of append included: every page but the last is *)
(* full, and what is left of the last one is what append writes next.      *)
BookkeepingAgrees == \A b \in Buffer :
  LET k     == Len(data[b])
      last  == data[b][k]
      whole == PageSize[pool[b]]
  IN  IF k = 0 THEN size[b] = 0 /\ availWrite[b] = 0
      ELSE /\ \A i \in 1 .. k - 1 : data[b][i].used = whole
           /\ size[b] = (k - 1) * whole + last.used
           /\ writePos[b] = [page |-> last.addr, off |-> last.used]
           /\ last.used + availWrite[b] = whole

(* append ends: every page it gets brings it nearer to its end (append's   *)
(* loop, and the page size its pool was made with).  Page bounds the       *)
(* memory, so what dead pools have lost of it is an excuse.                *)
AppendReturns == running # None ~> running = None \/ lost # {}
===============================================================================
