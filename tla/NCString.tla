------------------------------- MODULE NCString -------------------------------
(***************************************************************************)
(* bitforge::NCString (bf/ncstring.h): strings that share one block of     *)
(* memory through a shared_ptr and write in place when use_count() is 1.   *)
(*                                                                         *)
(* Every string object (a handle) belongs to a thread of its own; threads  *)
(* run their operations in any interleaving, and what they share are the   *)
(* blocks.  A step ends where an operation has read or written something   *)
(* another handle can reach: at the use_count() test, at the allocation    *)
(* that drops a reference, at the copy out of the old block.  An operation *)
(* that names two handles needs both idle, the usual rule for objects      *)
(* without a lock of their own.                                            *)
(*                                                                         *)
(* Definitions marked "Fault" are the definition after them with a bug, to *)
(* see that the properties notice; no specification uses them.             *)
(***************************************************************************)
EXTENDS Naturals, Sequences

CONSTANTS Handle,   \* the NCString objects
          Block,    \* the memory objects that make_shared may return
          Char,     \* the characters of a text
          Nul, Junk,\* the terminator; a byte nobody has written
          NoBlock,  \* a null m_memory / m_begin
          Literal,  \* the texts a caller passes in
          MaxLen,   \* bound on the length of a string
          Reuse,    \* are copies and moves assigned to used strings?
          WriteShared, \* may operator[] write to a string that has copies?
          WriteEnd \* ... and at or behind the end of the text?

ASSUME CharAssumption ==
  /\ Nul \notin Char /\ Junk \notin Char /\ Nul # Junk
  /\ NoBlock \notin Block
ASSUME LiteralAssumption == Literal \subseteq Seq(Char) /\ MaxLen \in Nat
ASSUME ClientAssumption  ==
  Reuse \in BOOLEAN /\ WriteShared \in BOOLEAN /\ WriteEnd \in BOOLEAN

VARIABLES mem,       \* the cells of each block, <<>> for a freed one
          memory,    \* m_memory (and m_begin, its get()) of each handle
          length,    \* m_length
          maxSize,   \* m_maxSize
          pc,        \* where the handle's operation is
          str,       \* the argument of a running append
          newLen,    \* the length a running append or chop is to produce
          oldRef,    \* the local oldStr / oldRef: a counted reference
          oldBegin   \* the local oldBegin: a pointer that counts for nothing

fields == <<memory, length, maxSize>>
locals == <<pc, str, newLen, oldRef, oldBegin>>
vars   == <<mem, memory, length, maxSize, pc, str, newLen, oldRef, oldBegin>>

Idle(h) == pc[h] = "idle"

\* Fault: the reference a running append or chop keeps does not count.
SoleInMemory(h) == /\ memory[h] # NoBlock
                   /\ \A g \in Handle : g # h => memory[g] # memory[h]

\* m_memory.use_count() == 1: no other shared_ptr refers to the block of h.
Sole(h) == /\ memory[h] # NoBlock
           /\ \A g \in Handle : /\ g # h => memory[g] # memory[h]
                                /\ oldRef[g] # memory[h]

Owned(b) == \E h \in Handle : memory[h] = b \/ oldRef[h] = b
Free     == { b \in Block : ~Owned(b) }

\* The heap after a step that leaves the cells m: the blocks whose last
\* reference the step has dropped are freed.
Heap(m) == mem' = [b \in Block |-> IF Owned(b)' THEN m[b] ELSE <<>>]

Cells(b)   == IF b = NoBlock THEN <<>> ELSE mem[b]
Least(a, b) == IF a <= b THEN a ELSE b
Fresh(n)   == [i \in 1 .. n |-> Junk]
\* The first n bytes at b; beyond the block, or in a freed one, they are junk.
Text(b, n) == [i \in 1 .. n |-> IF i \in DOMAIN Cells(b) THEN Cells(b)[i] ELSE Junk]

\* The writes w (cell -> byte) to the block c; those past its end fall outside.
Written(c, w) == [i \in DOMAIN c |-> IF i \in DOMAIN w THEN w[i] ELSE c[i]]

Init == /\ mem = [b \in Block |-> <<>>]
        /\ memory = [h \in Handle |-> NoBlock]
        /\ length = [h \in Handle |-> 0]
        /\ maxSize = [h \in Handle |-> 0]
        /\ pc = [h \in Handle |-> "idle"]
        /\ str = [h \in Handle |-> <<>>]
        /\ newLen = [h \in Handle |-> 0]
        /\ oldRef = [h \in Handle |-> NoBlock]
        /\ oldBegin = [h \in Handle |-> NoBlock]

-------------------------------------------------------------------------------
(* Construction and assignment from characters: alloc, copy, terminate.    *)
(* The new block is nobody else's, so the whole is one step.               *)

Assign(h, s) == \E b \in Free :
  /\ Idle(h)
  /\ memory' = [memory EXCEPT ![h] = b]
  /\ length' = [length EXCEPT ![h] = Len(s)]
  /\ maxSize' = [maxSize EXCEPT ![h] = Len(s) + 1]
  /\ UNCHANGED locals
  /\ Heap([mem EXCEPT ![b] = Append(s, Nul)])

\* May h be the target of a copy or a move?  The copy and move constructors
\* have a new object; the assignment operators are the same code run on one
\* that has been used.  m_maxSize does not follow the block in either.
Target(h) == Idle(h) /\ (Reuse \/ (memory[h] = NoBlock /\ maxSize[h] = 0))

Copy(h, g) ==
  /\ h # g /\ Target(h) /\ Idle(g)
  /\ memory' = [memory EXCEPT ![h] = memory[g]]
  /\ length' = [length EXCEPT ![h] = length[g]]
  /\ UNCHANGED <<maxSize, locals>>
  /\ Heap(mem)

Move(h, g) ==
  /\ h # g /\ Target(h) /\ Idle(g)
  /\ memory' = [memory EXCEPT ![h] = memory[g], ![g] = memory[h]]
  /\ length' = [length EXCEPT ![h] = length[g], ![g] = length[h]]
  /\ UNCHANGED <<maxSize, locals>>
  /\ Heap(mem)

\* h = g.substr(start, n): a new string is built and moved onto h, and the
\* temporary takes the old memory of h away with it.
Substr(h, g, start, n) == \E b \in Free :
  LET l == Least(n, length[g] - start) IN
  /\ Target(h) /\ Idle(g)
  /\ memory[g] # NoBlock
  /\ memory' = [memory EXCEPT ![h] = b]
  /\ length' = [length EXCEPT ![h] = l]
  /\ UNCHANGED <<maxSize, locals>>
  /\ Heap([mem EXCEPT ![b] =
             Append(SubSeq(Text(memory[g], length[g]), start + 1, start + l), Nul)])

Clear(h) ==
  /\ Idle(h)
  /\ memory' = [memory EXCEPT ![h] = NoBlock]
  /\ length' = [length EXCEPT ![h] = 0]
  /\ UNCHANGED <<maxSize, locals>>
  /\ Heap(mem)

\* The destructor, and the default constructor of the next string.
Renew(h) ==
  /\ Idle(h)
  /\ memory' = [memory EXCEPT ![h] = NoBlock]
  /\ length' = [length EXCEPT ![h] = 0]
  /\ maxSize' = [maxSize EXCEPT ![h] = 0]
  /\ UNCHANGED locals
  /\ Heap(mem)

\* The cell that operator[] returns for pos: for every position that is not
\* in the text the one of the terminator.
CellAt(h, pos) == IF pos < length[h] THEN pos + 1 ELSE length[h] + 1

\* h[pos] = c through the reference that operator[] returns.
SetChar(h, pos, c) ==
  /\ Idle(h)
  /\ memory[h] # NoBlock
  /\ WriteEnd \/ pos < length[h]
  /\ WriteShared \/ Sole(h)
  /\ UNCHANGED <<fields, locals>>
  /\ Heap([mem EXCEPT ![memory[h]] = Written(@, [k \in {CellAt(h, pos)} |-> c])])

-------------------------------------------------------------------------------
(* append                                                                  *)

\* Fault: a pointer to the old block, and no reference.
PointToOld(h) == /\ oldBegin' = [oldBegin EXCEPT ![h] = memory[h]]
                 /\ UNCHANGED oldRef

\* The reference kept to the old block, and the pointer into it.
KeepOld(h) == /\ oldRef' = [oldRef EXCEPT ![h] = memory[h]]
              /\ oldBegin' = [oldBegin EXCEPT ![h] = memory[h]]

AppendBranch(h, s, inPlace) ==
  /\ Idle(h)
  /\ length[h] + Len(s) <= MaxLen
  /\ str' = [str EXCEPT ![h] = s]
  /\ newLen' = [newLen EXCEPT ![h] = length[h] + Len(s)]
  /\ UNCHANGED <<mem, fields>>
  /\ IF inPlace
     THEN /\ pc' = [pc EXCEPT ![h] = "extend"]
          /\ UNCHANGED <<oldRef, oldBegin>>
     ELSE /\ pc' = [pc EXCEPT ![h] = "appendAlloc"]
          /\ KeepOld(h)

\* Fault: the terminator is forgotten in the test.
AppendTestOfText(h, s) == AppendBranch(h, s, Sole(h) /\ length[h] + Len(s) <= maxSize[h])

AppendTest(h, s) == AppendBranch(h, s, Sole(h) /\ length[h] + Len(s) < maxSize[h])

\* memcpy behind the text, m_length, terminator.
Extend(h) ==
  /\ pc[h] = "extend"
  /\ length' = [length EXCEPT ![h] = newLen[h]]
  /\ pc' = [pc EXCEPT ![h] = "idle"]
  /\ str' = [str EXCEPT ![h] = <<>>]
  /\ newLen' = [newLen EXCEPT ![h] = 0]
  /\ UNCHANGED <<memory, maxSize, oldRef, oldBegin>>
  /\ Heap([mem EXCEPT ![memory[h]] =
             Written(@, [i \in length[h] + 1 .. newLen[h] + 1 |->
                           IF i <= newLen[h] THEN str[h][i - length[h]] ELSE Nul])])

\* alloc(newLen + 1); m_memory lets go of the old block.
AppendAlloc(h) == \E b \in Free :
  /\ pc[h] = "appendAlloc"
  /\ memory' = [memory EXCEPT ![h] = b]
  /\ maxSize' = [maxSize EXCEPT ![h] = newLen[h] + 1]
  /\ pc' = [pc EXCEPT ![h] = "copy"]
  /\ UNCHANGED <<length, str, newLen, oldRef, oldBegin>>
  /\ Heap([mem EXCEPT ![b] = Fresh(newLen[h] + 1)])

\* Both memcpys, m_length and the terminator; the old reference goes out of
\* scope.  chop ends the same way, with nothing to add.
CopyInto(h, w) ==
  /\ pc[h] = "copy"
  /\ length' = [length EXCEPT ![h] = newLen[h]]
  /\ pc' = [pc EXCEPT ![h] = "idle"]
  /\ str' = [str EXCEPT ![h] = <<>>]
  /\ newLen' = [newLen EXCEPT ![h] = 0]
  /\ oldRef' = [oldRef EXCEPT ![h] = NoBlock]
  /\ oldBegin' = [oldBegin EXCEPT ![h] = NoBlock]
  /\ UNCHANGED <<memory, maxSize>>
  /\ Heap([mem EXCEPT ![memory[h]] = Written(@, w)])

\* Fault: the two memcpys the other way round.
CopyOutSwapped(h) == CopyInto(h, str[h] \o Append(Text(oldBegin[h], length[h]), Nul))

CopyOut(h) == CopyInto(h, Text(oldBegin[h], length[h]) \o Append(str[h], Nul))

-------------------------------------------------------------------------------
(* chop                                                                    *)

ChopTest(h, n) ==
  /\ Idle(h)
  /\ n < length[h]
  /\ newLen' = [newLen EXCEPT ![h] = n]
  /\ UNCHANGED <<mem, fields, str>>
  /\ IF Sole(h)
     THEN /\ pc' = [pc EXCEPT ![h] = "cut"]
          /\ UNCHANGED <<oldRef, oldBegin>>
     ELSE /\ pc' = [pc EXCEPT ![h] = "chopAlloc"]
          /\ KeepOld(h)

\* The text of h ends before cell i, and the cells of w are written.
CutBefore(h, i, w) ==
  /\ pc[h] = "cut"
  /\ length' = [length EXCEPT ![h] = i - 1]
  /\ pc' = [pc EXCEPT ![h] = "idle"]
  /\ newLen' = [newLen EXCEPT ![h] = 0]
  /\ UNCHANGED <<memory, maxSize, str, oldRef, oldBegin>>
  /\ Heap([mem EXCEPT ![memory[h]] = Written(@, w)])

\* Faults: one character too many is cut; no terminator is written.
CutTooFar(h)       == CutBefore(h, newLen[h], [k \in {newLen[h]} |-> Nul])
CutUnterminated(h) == CutBefore(h, newLen[h] + 1, <<>>)

Cut(h) == CutBefore(h, newLen[h] + 1, [k \in {newLen[h] + 1} |-> Nul])

\* alloc(length + 1), then m_length, before the copy.
ChopAlloc(h) == \E b \in Free :
  /\ pc[h] = "chopAlloc"
  /\ memory' = [memory EXCEPT ![h] = b]
  /\ maxSize' = [maxSize EXCEPT ![h] = newLen[h] + 1]
  /\ length' = [length EXCEPT ![h] = newLen[h]]
  /\ pc' = [pc EXCEPT ![h] = "copy"]
  /\ UNCHANGED <<str, newLen, oldRef, oldBegin>>
  /\ Heap([mem EXCEPT ![b] = Fresh(newLen[h] + 1)])

-------------------------------------------------------------------------------
Calls(h) == \/ \E s \in Literal : Assign(h, s) \/ AppendTest(h, s)
            \/ \E n \in 0 .. MaxLen : ChopTest(h, n)
            \/ \E pos \in 0 .. MaxLen, c \in Char : SetChar(h, pos, c)
            \/ Clear(h)
            \/ Renew(h)
            \/ \E g \in Handle : Copy(h, g) \/ Move(h, g)
            \/ \E g \in Handle : \E start \in 0 .. length[g], n \in 0 .. MaxLen :
                  Substr(h, g, start, n)
Steps(h) == Extend(h) \/ AppendAlloc(h) \/ ChopAlloc(h) \/ CopyOut(h) \/ Cut(h)

Next == \E h \in Handle : Calls(h) \/ Steps(h)
Spec == Init /\ [][Next]_vars

-------------------------------------------------------------------------------
Cell == Char \cup {Nul, Junk}

(* Every variable has the type of the field or local it stands for.        *)
TypeOK ==
  /\ mem \in [Block -> Seq(Cell)]
  /\ memory \in [Handle -> Block \cup {NoBlock}]
  /\ length \in [Handle -> Nat]
  /\ maxSize \in [Handle -> Nat]
  /\ pc \in [Handle -> {"idle", "extend", "appendAlloc", "chopAlloc", "copy", "cut"}]
  /\ str \in [Handle -> Seq(Char)]
  /\ newLen \in [Handle -> Nat]
  /\ oldRef \in [Handle -> Block \cup {NoBlock}]
  /\ oldBegin \in [Handle -> Block \cup {NoBlock}]

(* The use_count() == 1 that append (ncstring.h:184) and chop (296) have   *)
(* tested still holds when they write in place, and the block is large     *)
(* enough for what append writes and for its terminator: nobody has taken  *)
(* a reference in between, and m_maxSize does not promise more than the    *)
(* block has.                                                              *)
InPlaceIsSafe == \A h \in Handle :
  /\ pc[h] \in {"extend", "cut"} => Sole(h)
  /\ pc[h] = "extend" => newLen[h] < Len(Cells(memory[h]))

(* While append and chop copy out of the block they leave, the block is    *)
(* alive and still has the whole text, though every other string that      *)
(* shared it may have been destroyed, cut or extended meanwhile            *)
(* (oldStr, ncstring.h:191; oldRef, 303).                                  *)
OldBlockIsKept == \A h \in Handle :
  pc[h] = "copy" /\ length[h] > 0 =>
    /\ Len(Cells(oldBegin[h])) > length[h]
    /\ \A i \in 1 .. length[h] : mem[oldBegin[h]][i] \in Char

(* c_str() of a string nobody is changing is its text and a terminator     *)
(* right behind it, however many strings share the block.  A caller that   *)
(* writes at or behind the end of the text (WriteEnd) overwrites the       *)
(* terminator itself, as operator[] hands it out (ncstring.h:168).         *)
Terminated == \A h \in Handle :
  Idle(h) /\ memory[h] # NoBlock =>
    /\ length[h] < Len(mem[memory[h]])
    /\ \A i \in 1 .. length[h] : mem[memory[h]][i] \in Char
    /\ mem[memory[h]][length[h] + 1] = Nul

\* The text a string has for its owner: an operation takes effect with its
\* last step, chop on its slow path when it has set m_length.
Value(h) == IF pc[h] = "copy" THEN Text(oldBegin[h], length[h])
                              ELSE Text(memory[h], length[h])

V == INSTANCE StringValues WITH val <- [h \in Handle |-> Value(h)]

(* The sharing cannot be noticed: under every interleaving of the threads  *)
(* the strings behave as independent values, each changed by its own       *)
(* operations only.                                                        *)
ImplementsValues == V!Spec
===============================================================================
