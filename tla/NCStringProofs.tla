---------------------------- MODULE NCStringProofs ----------------------------
(***************************************************************************)
(* Proofs about NCString for every set of strings, blocks and characters:  *)
(* as long as copies and moves build new strings (Reuse = FALSE) no write  *)
(* leaves its block or meets another reader, and every text is terminated  *)
(* as long as nobody writes behind its end (WriteEnd = FALSE).             *)
(***************************************************************************)
EXTENDS NCString, TLAPS

\* n characters of a text at the start of block b, with room behind them.
Holds(b, n) == /\ b = NoBlock => n = 0
               /\ b # NoBlock => /\ n < Len(mem[b])
                                 /\ \A i \in 1 .. n : mem[b][i] \in Char

\* ... and its terminator, which only a caller who writes there overwrites.
Good(b, n) == Holds(b, n) /\ (b # NoBlock /\ ~WriteEnd => mem[b][n + 1] = Nul)

\* What each handle relies on.  Blocks are shared, but only Sole looks at
\* other strings: that the sharers of a block agree on its length follows,
\* as a terminator is no character.
HandleInv(h) ==
  /\ pc[h] \in {"idle", "extend", "cut"} => oldRef[h] = NoBlock
  /\ pc[h] \in {"appendAlloc", "chopAlloc"} => oldRef[h] = memory[h]
  /\ oldBegin[h] = oldRef[h]
  /\ pc[h] # "copy" => Good(memory[h], length[h])
  /\ pc[h] = "copy" => /\ Holds(oldRef[h], length[h])
                       /\ Len(mem[memory[h]]) = newLen[h] + 1
  /\ pc[h] \in {"extend", "cut", "copy"} => Sole(h)
  /\ pc[h] \in {"extend", "appendAlloc", "copy"} => newLen[h] = length[h] + Len(str[h])
  /\ pc[h] = "extend" => newLen[h] < maxSize[h]
  /\ pc[h] \in {"cut", "chopAlloc"} => newLen[h] < length[h]
  /\ pc[h] \in {"idle", "cut", "chopAlloc"} => str[h] = <<>>
  /\ memory[h] # NoBlock /\ maxSize[h] > 0 => maxSize[h] <= Len(mem[memory[h]])

IInv == TypeOK /\ \A h \in Handle : HandleInv(h)

-------------------------------------------------------------------------------
(* Cells and the heap                                                      *)

LEMMA WrittenFacts ==
  ASSUME NEW c \in Seq(Cell), NEW w, \A i \in DOMAIN w : w[i] \in Cell
  PROVE  /\ Written(c, w) \in Seq(Cell)
         /\ Len(Written(c, w)) = Len(c)
         /\ \A i \in 1 .. Len(c) :
              Written(c, w)[i] = IF i \in DOMAIN w THEN w[i] ELSE c[i]
<1>1. DOMAIN c = 1 .. Len(c) /\ Len(c) \in Nat /\ \A i \in 1 .. Len(c) : c[i] \in Cell
  OBVIOUS
<1>2. Written(c, w) = [i \in 1 .. Len(c) |-> IF i \in DOMAIN w THEN w[i] ELSE c[i]]
  BY <1>1 DEF Written
<1>3. \A i \in 1 .. Len(c) : (IF i \in DOMAIN w THEN w[i] ELSE c[i]) \in Cell
  BY <1>1
<1> QED BY <1>1, <1>2, <1>3

LEMMA HeapFacts ==
  ASSUME NEW m \in [Block -> Seq(Cell)], Heap(m)
  PROVE  /\ mem' \in [Block -> Seq(Cell)]
         /\ \A b \in Block : Owned(b)' => mem'[b] = m[b]
BY DEF Heap

-------------------------------------------------------------------------------
(* The handles that do not move                                            *)

\* Handle g keeps its fields and its locals.
Still(g) == /\ memory'[g] = memory[g] /\ length'[g] = length[g]
            /\ maxSize'[g] = maxSize[g] /\ pc'[g] = pc[g]
            /\ str'[g] = str[g] /\ newLen'[g] = newLen[g]
            /\ oldRef'[g] = oldRef[g] /\ oldBegin'[g] = oldBegin[g]

\* A handle keeps its invariant when its blocks keep their cells and nobody
\* takes a reference to a block it writes to.
LEMMA Frame ==
  ASSUME IInv, NEW g \in Handle, Still(g),
         \A b \in Block : b \in {memory[g], oldRef[g]} => mem'[b] = mem[b],
         pc[g] \in {"extend", "cut", "copy"} => Sole(g)'
  PROVE  HandleInv(g)'
<1>1. /\ memory[g] \in Block \cup {NoBlock} /\ oldRef[g] \in Block \cup {NoBlock}
  BY DEF IInv, TypeOK
<1>2. HandleInv(g)
  BY DEF IInv
<1>3. Good(memory[g], length[g]) => Good(memory[g], length[g])'
  BY <1>1 DEF Good, Holds, Still
<1>4. Holds(oldRef[g], length[g]) => Holds(oldRef[g], length[g])'
  BY <1>1 DEF Holds, Still
<1>5. pc[g] = "copy" => memory[g] # NoBlock
  BY <1>2 DEF HandleInv, Sole
<1>6. memory[g] # NoBlock => Len(mem'[memory'[g]]) = Len(mem[memory[g]])
  BY <1>1 DEF Still
<1> QED BY <1>2, <1>3, <1>4, <1>5, <1>6 DEF HandleInv, Still

\* The same for all handles but h, which lets go of its blocks or takes only
\* references that leave the writers alone.
LEMMA FrameOthers ==
  ASSUME IInv, NEW h \in Handle,
         \A g \in Handle \ {h} : Still(g),
         \A g \in Handle \ {h} : \A b \in Block :
            b \in {memory[g], oldRef[g]} => mem'[b] = mem[b],
         \A g \in Handle \ {h} : pc[g] \in {"extend", "cut", "copy"} =>
            memory'[h] # memory[g] /\ oldRef'[h] # memory[g]
  PROVE  \A g \in Handle \ {h} : HandleInv(g)'
<1> SUFFICES ASSUME NEW g \in Handle \ {h} PROVE HandleInv(g)'
  OBVIOUS
<1>1. ASSUME pc[g] \in {"extend", "cut", "copy"} PROVE Sole(g)'
  <2>1. Sole(g)
    BY <1>1 DEF IInv, HandleInv
  <2>2. memory'[g] = memory[g] /\ oldRef'[g] = oldRef[g]
    BY DEF Still
  <2>3. ASSUME NEW k \in Handle
        PROVE  /\ k # g => memory'[k] # memory'[g]
               /\ oldRef'[k] # memory'[g]
    <3>1. CASE k = h
      BY <1>1, <2>2, <3>1
    <3>2. CASE k # h
      BY <2>1, <2>2, <3>2 DEF Still, Sole
    <3> QED BY <3>1, <3>2
  <2> QED BY <2>1, <2>2, <2>3 DEF Sole
<1> QED BY <1>1, Frame

\* A block that h shares with nobody, or that nobody owns, is none of another's.
LEMMA SoleIsApart ==
  ASSUME NEW h \in Handle, Sole(h), NEW g \in Handle \ {h}
  PROVE  memory[h] # memory[g] /\ memory[h] # oldRef[g]
BY DEF Sole

LEMMA FreeIsApart ==
  ASSUME NEW b \in Free, NEW g \in Handle
  PROVE  b \in Block /\ b # NoBlock /\ b # memory[g] /\ b # oldRef[g]
BY CharAssumption DEF Free, Owned

\* The fields and locals without the heap.
FieldsOK ==
  /\ memory \in [Handle -> Block \cup {NoBlock}]
  /\ length \in [Handle -> Nat]
  /\ maxSize \in [Handle -> Nat]
  /\ pc \in [Handle -> {"idle", "extend", "appendAlloc", "chopAlloc", "copy", "cut"}]
  /\ str \in [Handle -> Seq(Char)]
  /\ newLen \in [Handle -> Nat]
  /\ oldRef \in [Handle -> Block \cup {NoBlock}]
  /\ oldBegin \in [Handle -> Block \cup {NoBlock}]

\* A step of handle h alone: what is left to show of it is its own invariant.
LEMMA OneMoves ==
  ASSUME IInv, NEW h \in Handle, NEW m \in [Block -> Seq(Cell)], Heap(m), FieldsOK',
         \A g \in Handle \ {h} : Still(g),
         \A g \in Handle \ {h} : \A b \in Block :
            b \in {memory[g], oldRef[g]} => m[b] = mem[b],
         \A g \in Handle \ {h} : pc[g] \in {"extend", "cut", "copy"} =>
            memory'[h] # memory[g] /\ oldRef'[h] # memory[g],
         HandleInv(h)'
  PROVE  IInv'
<1>1. TypeOK'
  BY HeapFacts DEF TypeOK, FieldsOK
<1>2. ASSUME NEW g \in Handle \ {h}, NEW b \in Block, b \in {memory[g], oldRef[g]}
      PROVE  mem'[b] = mem[b]
  <2>1. Owned(b)'
    BY <1>2 DEF Owned, Still
  <2> QED BY <1>2, <2>1, HeapFacts
<1>3. \A g \in Handle \ {h} : HandleInv(g)'
  BY <1>2, FrameOthers
<1> QED BY <1>1, <1>3 DEF IInv

\* The block a handle has after a step.
LEMMA HeapAt ==
  ASSUME NEW h \in Handle, NEW m \in [Block -> Seq(Cell)], Heap(m),
         NEW b \in Block, memory'[h] = b
  PROVE  mem'[b] = m[b]
BY HeapFacts DEF Owned

\* What an idle handle of a step knows of itself.
LEMMA IdleFacts ==
  ASSUME IInv, NEW h \in Handle, Idle(h)
  PROVE  /\ oldRef[h] = NoBlock /\ oldBegin[h] = NoBlock /\ str[h] = <<>>
         /\ Good(memory[h], length[h])
         /\ memory[h] \in Block \cup {NoBlock} /\ length[h] \in Nat
         /\ maxSize[h] \in Nat
         /\ memory[h] # NoBlock /\ maxSize[h] > 0 => maxSize[h] <= Len(mem[memory[h]])
         /\ \A g \in Handle \ {h} :
              pc[g] \in {"extend", "cut", "copy"} => memory[h] # memory[g]
<1>1. HandleInv(h)
  BY DEF IInv
<1>2. ASSUME NEW g \in Handle \ {h}, pc[g] \in {"extend", "cut", "copy"}
      PROVE  memory[h] # memory[g]
  BY <1>2 DEF IInv, HandleInv, Sole
<1> QED BY <1>1, <1>2 DEF HandleInv, Idle, IInv, TypeOK

LEMMA WritersHaveMemory ==
  ASSUME IInv, NEW g \in Handle, pc[g] \in {"extend", "cut", "copy"}
  PROVE  memory[g] # NoBlock
BY DEF IInv, HandleInv, Sole

-------------------------------------------------------------------------------
(* One lemma per operation                                                 *)

\* The text of a literal and its terminator.
LEMMA TerminatedText ==
  ASSUME NEW s \in Seq(Char)
  PROVE  /\ Append(s, Nul) \in Seq(Cell)
         /\ Len(Append(s, Nul)) = Len(s) + 1
         /\ \A i \in 1 .. Len(s) : Append(s, Nul)[i] \in Char
         /\ Append(s, Nul)[Len(s) + 1] = Nul
BY DEF Cell

LEMMA AssignInv ==
  ASSUME IInv, NEW h \in Handle, NEW s \in Literal, Assign(h, s)
  PROVE  IInv'
<1>1. s \in Seq(Char) /\ Len(s) \in Nat
  BY LiteralAssumption
<1>2. PICK b \in Free : /\ memory' = [memory EXCEPT ![h] = b]
                        /\ length' = [length EXCEPT ![h] = Len(s)]
                        /\ maxSize' = [maxSize EXCEPT ![h] = Len(s) + 1]
                        /\ Heap([mem EXCEPT ![b] = Append(s, Nul)])
  BY DEF Assign
<1>3. Idle(h) /\ UNCHANGED locals
  BY DEF Assign
<1> DEFINE m == [mem EXCEPT ![b] = Append(s, Nul)]
<1>4. b \in Block /\ b # NoBlock
  BY FreeIsApart
<1>5. m \in [Block -> Seq(Cell)] /\ m[b] = Append(s, Nul)
  BY <1>1, <1>4, TerminatedText DEF IInv, TypeOK
<1>6. FieldsOK'
  BY <1>1, <1>2, <1>3, <1>4 DEF IInv, TypeOK, FieldsOK, locals
<1>7. memory'[h] = b /\ length'[h] = Len(s) /\ maxSize'[h] = Len(s) + 1
  BY <1>2 DEF IInv, TypeOK
<1>8. \A g \in Handle \ {h} : Still(g)
  BY <1>2, <1>3 DEF IInv, TypeOK, Still, locals
<1>13. Heap(m)
  BY <1>2
<1>9. mem'[b] = Append(s, Nul)
  <2> HIDE DEF m
  <2> QED BY <1>4, <1>5, <1>7, <1>13, HeapAt
<1>10. HandleInv(h)'
  <2>1. Good(memory[h], length[h])'
    BY <1>1, <1>4, <1>7, <1>9, TerminatedText DEF Good, Holds
  <2>2. pc'[h] = "idle" /\ oldRef'[h] = NoBlock /\ oldBegin'[h] = NoBlock /\ str'[h] = <<>>
    BY <1>3, IdleFacts DEF locals, Idle
  <2>3. maxSize'[h] <= Len(mem'[memory'[h]])
    BY <1>1, <1>7, <1>9, TerminatedText
  <2> QED BY <2>1, <2>2, <2>3 DEF HandleInv
<1>11. \A g \in Handle \ {h} : \A c \in Block : c \in {memory[g], oldRef[g]} => m[c] = mem[c]
  BY <1>4, FreeIsApart DEF IInv, TypeOK
<1>12. \A g \in Handle \ {h} : pc[g] \in {"extend", "cut", "copy"} =>
          memory'[h] # memory[g] /\ oldRef'[h] # memory[g]
  BY <1>3, <1>7, FreeIsApart, IdleFacts, WritersHaveMemory DEF locals
<1> HIDE DEF m
<1> QED BY <1>5, <1>6, <1>8, <1>10, <1>11, <1>12, <1>13, OneMoves

LEMMA MemIsType ==
  ASSUME IInv
  PROVE  mem \in [Block -> Seq(Cell)]
BY DEF IInv, TypeOK

\* An operation that leaves h idle with a text it finds in a block.
LEMMA BecomesIdle ==
  ASSUME NEW h \in Handle, Good(memory[h], length[h])',
         pc'[h] = "idle", oldRef'[h] = NoBlock, oldBegin'[h] = NoBlock, str'[h] = <<>>,
         memory'[h] # NoBlock /\ maxSize'[h] > 0 => maxSize'[h] <= Len(mem'[memory'[h]])
  PROVE  HandleInv(h)'
BY DEF HandleInv

LEMMA CopyInv ==
  ASSUME IInv, Reuse = FALSE, NEW h \in Handle, NEW g \in Handle, Copy(h, g)
  PROVE  IInv'
<1>1. /\ h # g /\ Idle(h) /\ Idle(g) /\ maxSize[h] = 0
      /\ memory' = [memory EXCEPT ![h] = memory[g]]
      /\ length' = [length EXCEPT ![h] = length[g]]
      /\ UNCHANGED <<maxSize, pc, str, newLen, oldRef, oldBegin>>
      /\ Heap(mem)
  BY DEF Copy, Target, locals
<1>2. FieldsOK'
  BY <1>1 DEF IInv, TypeOK, FieldsOK
<1>3. memory'[h] = memory[g] /\ length'[h] = length[g]
  BY <1>1 DEF IInv, TypeOK
<1>4. \A k \in Handle \ {h} : Still(k)
  BY <1>1 DEF IInv, TypeOK, Still
<1>5. HandleInv(h)'
  <2>1. memory[g] # NoBlock => mem'[memory[g]] = mem[memory[g]]
    BY <1>1, <1>3, IdleFacts, HeapAt, MemIsType
  <2>2. Good(memory[h], length[h])'
    BY <1>1, <1>3, <2>1, IdleFacts DEF Good, Holds
  <2> QED BY <1>1, <2>2, IdleFacts, BecomesIdle DEF Idle
<1>6. \A k \in Handle \ {h} : pc[k] \in {"extend", "cut", "copy"} =>
         memory'[h] # memory[k] /\ oldRef'[h] # memory[k]
  <2> SUFFICES ASSUME NEW k \in Handle \ {h}, pc[k] \in {"extend", "cut", "copy"}
               PROVE  memory'[h] # memory[k] /\ oldRef'[h] # memory[k]
    OBVIOUS
  <2>1. k # g
    BY <1>1 DEF Idle
  <2> QED BY <1>1, <1>3, <2>1, IdleFacts, WritersHaveMemory
<1> QED BY <1>1, <1>2, <1>4, <1>5, <1>6, OneMoves, MemIsType

LEMMA MoveInv ==
  ASSUME IInv, Reuse = FALSE, NEW h \in Handle, NEW g \in Handle, Move(h, g)
  PROVE  IInv'
<1>1. /\ h # g /\ Idle(h) /\ Idle(g) /\ maxSize[h] = 0 /\ memory[h] = NoBlock
      /\ memory' = [memory EXCEPT ![h] = memory[g], ![g] = memory[h]]
      /\ length' = [length EXCEPT ![h] = length[g], ![g] = length[h]]
      /\ UNCHANGED <<maxSize, pc, str, newLen, oldRef, oldBegin>>
      /\ Heap(mem)
  BY DEF Move, Target, locals
<1>2. length[h] = 0
  BY <1>1, IdleFacts DEF Good, Holds
<1>3. /\ memory'[h] = memory[g] /\ length'[h] = length[g]
      /\ memory'[g] = NoBlock /\ length'[g] = 0
  BY <1>1, <1>2 DEF IInv, TypeOK
<1>4. \A k \in Handle \ {h, g} : Still(k)
  BY <1>1 DEF IInv, TypeOK, Still
<1>5. TypeOK'
  BY <1>1, HeapFacts, MemIsType DEF IInv, TypeOK
<1>6. HandleInv(h)'
  <2>1. memory[g] # NoBlock => mem'[memory[g]] = mem[memory[g]]
    BY <1>1, <1>3, IdleFacts, HeapAt, MemIsType
  <2>2. Good(memory[h], length[h])'
    BY <1>1, <1>3, <2>1, IdleFacts DEF Good, Holds
  <2>3. pc'[h] = "idle" /\ oldRef'[h] = NoBlock /\ oldBegin'[h] = NoBlock /\ str'[h] = <<>>
    BY <1>1, IdleFacts DEF Idle
  <2>4. ~(maxSize'[h] > 0)
    BY <1>1
  <2> QED BY <2>2, <2>3, <2>4, BecomesIdle
<1>7. HandleInv(g)'
  <2>1. Good(memory[g], length[g])'
    BY <1>3 DEF Good, Holds
  <2> QED BY <1>1, <1>3, <2>1, IdleFacts, BecomesIdle DEF Idle
<1>8. ASSUME NEW k \in Handle \ {h, g} PROVE HandleInv(k)'
  <2>1. ASSUME NEW b \in Block, b \in {memory[k], oldRef[k]} PROVE mem'[b] = mem[b]
    <3>1. Owned(b)'
      BY <1>4, <2>1 DEF Owned, Still
    <3> QED BY <1>1, <3>1, HeapFacts, MemIsType
  <2>2. ASSUME pc[k] \in {"extend", "cut", "copy"} PROVE Sole(k)'
    <3>1. Sole(k) /\ memory[k] # NoBlock
      BY <2>2, WritersHaveMemory DEF IInv, HandleInv
    <3>2. memory'[k] = memory[k] /\ oldRef' = oldRef
      BY <1>1, <1>4 DEF Still
    <3>3. \A j \in Handle : j # k => memory'[j] # memory[k]
      <4> SUFFICES ASSUME NEW j \in Handle, j # k PROVE memory'[j] # memory[k]
        OBVIOUS
      <4>1. memory[j] # memory[k] /\ memory[g] # memory[k]
        BY <3>1 DEF Sole
      <4>2. CASE j \in {h, g}
        BY <1>3, <3>1, <4>1, <4>2
      <4>3. CASE j \notin {h, g}
        BY <1>4, <4>1, <4>3 DEF Still
      <4> QED BY <4>2, <4>3
    <3> QED BY <3>1, <3>2, <3>3 DEF Sole
  <2> QED BY <1>4, <2>1, <2>2, Frame
<1> QED BY <1>5, <1>6, <1>7, <1>8 DEF IInv

LEMMA ClearInv ==
  ASSUME IInv, NEW h \in Handle, Clear(h) \/ Renew(h)
  PROVE  IInv'
<1>1. /\ Idle(h)
      /\ memory' = [memory EXCEPT ![h] = NoBlock]
      /\ length' = [length EXCEPT ![h] = 0]
      /\ maxSize' = [maxSize EXCEPT ![h] = maxSize'[h]]
      /\ maxSize'[h] \in Nat
      /\ UNCHANGED <<pc, str, newLen, oldRef, oldBegin>>
      /\ Heap(mem)
  <2>1. CASE Clear(h)
    BY <2>1 DEF Clear, locals, IInv, TypeOK
  <2>2. CASE Renew(h)
    BY <2>2 DEF Renew, locals, IInv, TypeOK
  <2> QED BY <2>1, <2>2
<1>2. FieldsOK'
  BY <1>1 DEF IInv, TypeOK, FieldsOK
<1>3. memory'[h] = NoBlock /\ length'[h] = 0
  BY <1>1 DEF IInv, TypeOK
<1>4. \A k \in Handle \ {h} : Still(k)
  BY <1>1 DEF IInv, TypeOK, Still
<1>5. HandleInv(h)'
  <2>1. Good(memory[h], length[h])'
    BY <1>3 DEF Good, Holds
  <2> QED BY <1>1, <1>3, <2>1, IdleFacts, BecomesIdle DEF Idle
<1>6. \A k \in Handle \ {h} : pc[k] \in {"extend", "cut", "copy"} =>
         memory'[h] # memory[k] /\ oldRef'[h] # memory[k]
  BY <1>1, <1>3, IdleFacts, WritersHaveMemory
<1> QED BY <1>1, <1>2, <1>4, <1>5, <1>6, OneMoves, MemIsType

\* The first n bytes of a block that holds a text that long are the text.
LEMMA TextFacts ==
  ASSUME IInv, NEW b \in Block \cup {NoBlock}, NEW n \in Nat, Holds(b, n)
  PROVE  /\ Text(b, n) \in Seq(Char)
         /\ Len(Text(b, n)) = n
         /\ b # NoBlock => \A i \in 1 .. n : Text(b, n)[i] = mem[b][i]
<1>1. CASE b = NoBlock
  <2>1. n = 0
    BY <1>1 DEF Holds
  <2>2. Text(b, n) = <<>>
    BY <2>1 DEF Text
  <2>3. <<>> \in Seq(Char) /\ Len(<<>>) = 0
    OBVIOUS
  <2> QED BY <1>1, <2>1, <2>2, <2>3
<1>2. CASE b # NoBlock
  <2>1. mem[b] \in Seq(Cell)
    BY <1>2 DEF IInv, TypeOK
  <2>2. Cells(b) = mem[b] /\ \A i \in 1 .. n : i \in DOMAIN mem[b]
    BY <1>2, <2>1 DEF Cells, Holds
  <2>3. Text(b, n) = [i \in 1 .. n |-> mem[b][i]]
    BY <2>2 DEF Text
  <2>4. \A i \in 1 .. n : mem[b][i] \in Char
    BY <1>2 DEF Holds
  <2> QED BY <2>3, <2>4
<1> QED BY <1>1, <1>2

LEMMA SubstrInv ==
  ASSUME IInv, Reuse = FALSE, NEW h \in Handle, NEW g \in Handle,
         NEW start \in 0 .. length[g], NEW n \in 0 .. MaxLen, Substr(h, g, start, n)
  PROVE  IInv'
<1> DEFINE l == Least(n, length[g] - start)
           t == SubSeq(Text(memory[g], length[g]), start + 1, start + l)
<1>1. PICK b \in Free : /\ memory' = [memory EXCEPT ![h] = b]
                        /\ length' = [length EXCEPT ![h] = l]
                        /\ Heap([mem EXCEPT ![b] = Append(t, Nul)])
  BY DEF Substr
<1>2. /\ Idle(h) /\ Idle(g) /\ maxSize[h] = 0 /\ memory[g] # NoBlock
      /\ UNCHANGED <<maxSize, pc, str, newLen, oldRef, oldBegin>>
  BY DEF Substr, Target, locals
<1>3. b \in Block /\ b # NoBlock
  BY FreeIsApart
<1>4. t \in Seq(Char) /\ Len(t) = l /\ l \in Nat
  <2>1. length[g] \in Nat /\ n \in Nat /\ start \in Nat
    BY LiteralAssumption DEF IInv, TypeOK
  <2>2. l \in Nat /\ start + l <= length[g]
    BY <2>1 DEF Least
  <2>3. Text(memory[g], length[g]) \in Seq(Char) /\ Len(Text(memory[g], length[g])) = length[g]
    BY <1>2, IdleFacts, TextFacts DEF Good
  <2> HIDE DEF l
  <2> QED BY <2>1, <2>2, <2>3
<1> HIDE DEF l, t
<1> DEFINE m == [mem EXCEPT ![b] = Append(t, Nul)]
<1>5. m \in [Block -> Seq(Cell)] /\ m[b] = Append(t, Nul)
  BY <1>3, <1>4, TerminatedText, MemIsType
<1>6. Heap(m)
  BY <1>1
<1>7. \A k \in Handle \ {h} : \A c \in Block : c \in {memory[k], oldRef[k]} => m[c] = mem[c]
  BY <1>3, FreeIsApart, MemIsType
<1> HIDE DEF m
<1>8. FieldsOK'
  BY <1>1, <1>2, <1>3, <1>4 DEF IInv, TypeOK, FieldsOK
<1>9. memory'[h] = b /\ length'[h] = l
  BY <1>1 DEF IInv, TypeOK
<1>10. \A k \in Handle \ {h} : Still(k)
  BY <1>1, <1>2 DEF IInv, TypeOK, Still
<1>11. HandleInv(h)'
  <2>1. mem'[b] = Append(t, Nul)
    BY <1>3, <1>5, <1>6, <1>9, HeapAt
  <2>2. Good(memory[h], length[h])'
    BY <1>3, <1>4, <1>9, <2>1, TerminatedText DEF Good, Holds
  <2>3. pc'[h] = "idle" /\ oldRef'[h] = NoBlock /\ oldBegin'[h] = NoBlock /\ str'[h] = <<>>
    BY <1>2, IdleFacts DEF Idle
  <2>4. ~(maxSize'[h] > 0)
    BY <1>2
  <2> QED BY <2>2, <2>3, <2>4, BecomesIdle
<1>12. \A k \in Handle \ {h} : pc[k] \in {"extend", "cut", "copy"} =>
          memory'[h] # memory[k] /\ oldRef'[h] # memory[k]
  BY <1>2, <1>9, FreeIsApart, IdleFacts, WritersHaveMemory
<1> QED BY <1>5, <1>6, <1>7, <1>8, <1>10, <1>11, <1>12, OneMoves

\* What the test of append and of chop leaves behind.
LEMMA AppendTestInv ==
  ASSUME IInv, NEW h \in Handle, NEW s \in Literal, AppendTest(h, s)
  PROVE  IInv'
<1> DEFINE n == length[h] + Len(s)
<1>1. s \in Seq(Char) /\ Len(s) \in Nat /\ length[h] \in Nat /\ n \in Nat
  BY LiteralAssumption DEF IInv, TypeOK
<1>2. /\ Idle(h)
      /\ str' = [str EXCEPT ![h] = s] /\ newLen' = [newLen EXCEPT ![h] = n]
      /\ UNCHANGED <<mem, memory, length, maxSize>>
  BY DEF AppendTest, AppendBranch, fields
<1> HIDE DEF n
<1>3. \/ /\ Sole(h) /\ n < maxSize[h]
         /\ pc' = [pc EXCEPT ![h] = "extend"]
         /\ UNCHANGED <<oldRef, oldBegin>>
      \/ /\ pc' = [pc EXCEPT ![h] = "appendAlloc"]
         /\ oldRef' = [oldRef EXCEPT ![h] = memory[h]]
         /\ oldBegin' = [oldBegin EXCEPT ![h] = memory[h]]
  BY DEF AppendTest, AppendBranch, KeepOld, n
<1>4. FieldsOK'
  BY <1>1, <1>2, <1>3 DEF IInv, TypeOK, FieldsOK
<1>5. TypeOK'
  BY <1>2, <1>4, MemIsType DEF TypeOK, FieldsOK, IInv
<1>6. \A k \in Handle \ {h} : Still(k)
  BY <1>2, <1>3 DEF IInv, TypeOK, Still
<1>7. str'[h] = s /\ newLen'[h] = n /\ n = length[h] + Len(s)
  BY <1>2 DEF IInv, TypeOK, n
<1>8. HandleInv(h)'
  <2>1. Good(memory[h], length[h])'
    BY <1>2, IdleFacts DEF Good, Holds
  <2>2. memory[h] # NoBlock /\ maxSize[h] > 0 => maxSize[h] <= Len(mem[memory[h]])
    BY <1>2, IdleFacts
  <2>3. CASE /\ Sole(h) /\ n < maxSize[h]
             /\ pc' = [pc EXCEPT ![h] = "extend"]
             /\ UNCHANGED <<oldRef, oldBegin>>
    <3>1. pc'[h] = "extend" /\ oldRef'[h] = NoBlock /\ oldBegin'[h] = NoBlock
      BY <1>2, <2>3, IdleFacts DEF IInv, TypeOK
    <3>2. Sole(h)'
      BY <1>2, <2>3 DEF Sole
    <3> QED BY <1>2, <1>7, <2>1, <2>2, <2>3, <3>1, <3>2 DEF HandleInv
  <2>4. CASE /\ pc' = [pc EXCEPT ![h] = "appendAlloc"]
             /\ oldRef' = [oldRef EXCEPT ![h] = memory[h]]
             /\ oldBegin' = [oldBegin EXCEPT ![h] = memory[h]]
    <3>1. pc'[h] = "appendAlloc" /\ oldRef'[h] = memory[h] /\ oldBegin'[h] = memory[h]
      BY <2>4 DEF IInv, TypeOK
    <3> QED BY <1>2, <1>7, <2>1, <2>2, <3>1 DEF HandleInv
  <2> QED BY <1>3, <2>3, <2>4
<1>9. \A k \in Handle \ {h} : pc[k] \in {"extend", "cut", "copy"} =>
         memory'[h] # memory[k] /\ oldRef'[h] # memory[k]
  <2>1. oldRef'[h] \in {NoBlock, memory[h]}
    BY <1>2, <1>3, IdleFacts DEF IInv, TypeOK
  <2> QED BY <1>2, <2>1, IdleFacts, WritersHaveMemory
<1>10. \A k \in Handle \ {h} : HandleInv(k)'
  BY <1>2, <1>6, <1>9, FrameOthers
<1> QED BY <1>5, <1>8, <1>10 DEF IInv

\* The test of chop.
LEMMA ChopTestInv ==
  ASSUME IInv, NEW h \in Handle, NEW n \in 0 .. MaxLen, ChopTest(h, n)
  PROVE  IInv'
<1>1. n \in Nat /\ length[h] \in Nat
  BY LiteralAssumption DEF IInv, TypeOK
<1>2. /\ Idle(h) /\ n < length[h]
      /\ newLen' = [newLen EXCEPT ![h] = n]
      /\ UNCHANGED <<mem, memory, length, maxSize, str>>
  BY DEF ChopTest, fields
<1>3. \/ /\ Sole(h)
         /\ pc' = [pc EXCEPT ![h] = "cut"]
         /\ UNCHANGED <<oldRef, oldBegin>>
      \/ /\ pc' = [pc EXCEPT ![h] = "chopAlloc"]
         /\ oldRef' = [oldRef EXCEPT ![h] = memory[h]]
         /\ oldBegin' = [oldBegin EXCEPT ![h] = memory[h]]
  BY DEF ChopTest, KeepOld
<1>4. FieldsOK'
  BY <1>1, <1>2, <1>3 DEF IInv, TypeOK, FieldsOK
<1>5. TypeOK'
  BY <1>2, <1>4, MemIsType DEF TypeOK, FieldsOK, IInv
<1>6. \A k \in Handle \ {h} : Still(k)
  BY <1>2, <1>3 DEF IInv, TypeOK, Still
<1>7. newLen'[h] = n /\ str'[h] = <<>>
  BY <1>2, IdleFacts DEF IInv, TypeOK
<1>8. HandleInv(h)'
  <2>1. Good(memory[h], length[h])'
    BY <1>2, IdleFacts DEF Good, Holds
  <2>2. memory[h] # NoBlock /\ maxSize[h] > 0 => maxSize[h] <= Len(mem[memory[h]])
    BY <1>2, IdleFacts
  <2>3. CASE /\ Sole(h)
             /\ pc' = [pc EXCEPT ![h] = "cut"]
             /\ UNCHANGED <<oldRef, oldBegin>>
    <3>1. pc'[h] = "cut" /\ oldRef'[h] = NoBlock /\ oldBegin'[h] = NoBlock
      BY <1>2, <2>3, IdleFacts DEF IInv, TypeOK
    <3>2. Sole(h)'
      BY <1>2, <2>3 DEF Sole
    <3> QED BY <1>2, <1>7, <2>1, <2>2, <2>3, <3>1, <3>2 DEF HandleInv
  <2>4. CASE /\ pc' = [pc EXCEPT ![h] = "chopAlloc"]
             /\ oldRef' = [oldRef EXCEPT ![h] = memory[h]]
             /\ oldBegin' = [oldBegin EXCEPT ![h] = memory[h]]
    <3>1. pc'[h] = "chopAlloc" /\ oldRef'[h] = memory[h] /\ oldBegin'[h] = memory[h]
      BY <2>4 DEF IInv, TypeOK
    <3> QED BY <1>2, <1>7, <2>1, <2>2, <3>1 DEF HandleInv
  <2> QED BY <1>3, <2>3, <2>4
<1>9. \A k \in Handle \ {h} : pc[k] \in {"extend", "cut", "copy"} =>
         memory'[h] # memory[k] /\ oldRef'[h] # memory[k]
  <2>1. oldRef'[h] \in {NoBlock, memory[h]}
    BY <1>2, <1>3, IdleFacts DEF IInv, TypeOK
  <2> QED BY <1>2, <2>1, IdleFacts, WritersHaveMemory
<1>10. \A k \in Handle \ {h} : HandleInv(k)'
  BY <1>2, <1>6, <1>9, FrameOthers
<1> QED BY <1>5, <1>8, <1>10 DEF IInv

\* The two allocations: the old block stays alive through oldRef.
LEMMA AllocInv ==
  ASSUME IInv, NEW h \in Handle, AppendAlloc(h) \/ ChopAlloc(h)
  PROVE  IInv'
<1>1. PICK b \in Free : /\ memory' = [memory EXCEPT ![h] = b]
                        /\ maxSize' = [maxSize EXCEPT ![h] = newLen[h] + 1]
                        /\ pc' = [pc EXCEPT ![h] = "copy"]
                        /\ UNCHANGED <<str, newLen, oldRef, oldBegin>>
                        /\ Heap([mem EXCEPT ![b] = Fresh(newLen[h] + 1)])
  BY DEF AppendAlloc, ChopAlloc
<1>2. \/ /\ pc[h] = "appendAlloc"
         /\ length' = length
      \/ /\ pc[h] = "chopAlloc"
         /\ length' = [length EXCEPT ![h] = newLen[h]]
  BY DEF AppendAlloc, ChopAlloc
<1>3. HandleInv(h) /\ newLen[h] \in Nat /\ length[h] \in Nat
      /\ memory[h] \in Block \cup {NoBlock}
  BY DEF IInv, TypeOK
<1>4. b \in Block /\ b # NoBlock
  BY FreeIsApart
<1> DEFINE m == [mem EXCEPT ![b] = Fresh(newLen[h] + 1)]
<1>5. Fresh(newLen[h] + 1) \in Seq(Cell) /\ Len(Fresh(newLen[h] + 1)) = newLen[h] + 1
  BY <1>3 DEF Fresh, Cell
<1>6. m \in [Block -> Seq(Cell)] /\ m[b] = Fresh(newLen[h] + 1)
  BY <1>4, <1>5, MemIsType
<1>7. Heap(m)
  BY <1>1
<1>8. \A k \in Handle : \A c \in Block : c \in {memory[k], oldRef[k]} => m[c] = mem[c]
  BY <1>4, FreeIsApart, MemIsType
<1> HIDE DEF m
<1>9. FieldsOK'
  <2>1. TypeOK
    BY DEF IInv
  <2>2. length' \in [Handle -> Nat]
    BY <1>2, <1>3, <2>1 DEF TypeOK
  <2>3. memory' \in [Handle -> Block \cup {NoBlock}]
    BY <1>1, <1>4, <2>1 DEF TypeOK
  <2>4. maxSize' \in [Handle -> Nat]
    BY <1>1, <1>3, <2>1 DEF TypeOK
  <2>5. pc' \in [Handle -> {"idle", "extend", "appendAlloc", "chopAlloc", "copy", "cut"}]
    BY <1>1, <2>1 DEF TypeOK
  <2> QED BY <1>1, <2>1, <2>2, <2>3, <2>4, <2>5 DEF TypeOK, FieldsOK
<1>10. memory'[h] = b /\ pc'[h] = "copy" /\ maxSize'[h] = newLen[h] + 1
       /\ oldRef'[h] = memory[h] /\ oldBegin'[h] = memory[h]
       /\ str'[h] = str[h] /\ newLen'[h] = newLen[h]
  <2>1. oldRef[h] = memory[h] /\ oldBegin[h] = oldRef[h]
    BY <1>2, <1>3 DEF HandleInv
  <2>2. memory'[h] = b /\ pc'[h] = "copy" /\ maxSize'[h] = newLen[h] + 1
    BY <1>1 DEF IInv, TypeOK
  <2> QED BY <1>1, <2>1, <2>2
<1>11. \A k \in Handle \ {h} : Still(k)
  BY <1>1, <1>2 DEF IInv, TypeOK, Still
<1>12. length'[h] \in Nat /\ length'[h] <= length[h]
       /\ newLen[h] = length'[h] + Len(str[h])
  <2>1. CASE pc[h] = "appendAlloc" /\ length' = length
    BY <1>3, <2>1 DEF HandleInv
  <2>2. CASE pc[h] = "chopAlloc" /\ length' = [length EXCEPT ![h] = newLen[h]]
    <3>1. length'[h] = newLen[h]
      BY <2>2 DEF IInv, TypeOK
    <3>2. Len(str[h]) = 0
      BY <1>3, <2>2 DEF HandleInv
    <3> QED BY <1>3, <2>2, <3>1, <3>2 DEF HandleInv
  <2> QED BY <1>2, <2>1, <2>2
<1>13. Holds(oldRef[h], length[h])'
  <2>1. Holds(memory[h], length[h])
    BY <1>2, <1>3 DEF HandleInv, Good
  <2>2. memory[h] # NoBlock => mem'[memory[h]] = mem[memory[h]]
    <3> SUFFICES ASSUME memory[h] # NoBlock PROVE mem'[memory[h]] = mem[memory[h]]
      OBVIOUS
    <3>1. PICK c \in Block : c = memory[h]
      BY <1>3
    <3>2. Owned(c)'
      BY <1>10, <3>1 DEF Owned
    <3> QED BY <1>6, <1>7, <1>8, <3>1, <3>2, HeapFacts
  <2>3. memory[h] # NoBlock => /\ length'[h] < Len(mem'[memory[h]])
                               /\ \A i \in 1 .. length'[h] : mem'[memory[h]][i] \in Char
    <3> SUFFICES ASSUME memory[h] # NoBlock
                 PROVE  /\ length'[h] < Len(mem'[memory[h]])
                        /\ \A i \in 1 .. length'[h] : mem'[memory[h]][i] \in Char
      OBVIOUS
    <3>1. mem[memory[h]] \in Seq(Cell)
      BY <1>3, MemIsType
    <3>2. length[h] < Len(mem[memory[h]]) /\ \A i \in 1 .. length[h] : mem[memory[h]][i] \in Char
      BY <2>1 DEF Holds
    <3>3. Len(mem[memory[h]]) \in Nat /\ \A i \in 1 .. length'[h] : i \in 1 .. length[h]
      BY <1>3, <1>12, <3>1
    <3>4. length'[h] < Len(mem[memory[h]])
      BY <1>3, <1>12, <3>2, <3>3
    <3> QED BY <2>2, <3>2, <3>3, <3>4
  <2>4. memory[h] = NoBlock => length'[h] = 0
    BY <1>3, <1>12, <2>1 DEF Holds
  <2> QED BY <1>10, <2>3, <2>4 DEF Holds
<1>14. Sole(h)'
  <2>1. ASSUME NEW k \in Handle
        PROVE  /\ k # h => memory'[k] # b
               /\ oldRef'[k] # b
    BY <1>1, <1>11, FreeIsApart DEF Still
  <2> QED BY <1>4, <1>10, <2>1 DEF Sole
<1>15. Len(mem'[memory'[h]]) = newLen'[h] + 1
  BY <1>4, <1>5, <1>6, <1>7, <1>10, HeapAt
<1>16. HandleInv(h)'
  BY <1>10, <1>12, <1>13, <1>14, <1>15 DEF HandleInv
<1>17. \A k \in Handle \ {h} : pc[k] \in {"extend", "cut", "copy"} =>
          memory'[h] # memory[k] /\ oldRef'[h] # memory[k]
  <2> SUFFICES ASSUME NEW k \in Handle \ {h}, pc[k] \in {"extend", "cut", "copy"}
               PROVE  b # memory[k] /\ memory[h] # memory[k]
    BY <1>10
  <2>1. Sole(k)
    BY DEF IInv, HandleInv
  <2> QED BY <2>1, FreeIsApart DEF Sole
<1> QED BY <1>6, <1>7, <1>8, <1>9, <1>11, <1>16, <1>17, OneMoves

\* Writing in place: h is alone with its block c and ends idle.
LEMMA InPlaceInv ==
  ASSUME IInv, NEW h \in Handle, NEW w, NEW n \in Nat,
         pc[h] \in {"extend", "cut", "copy"},
         memory' = memory /\ maxSize' = maxSize,
         length' = [length EXCEPT ![h] = n],
         pc' = [pc EXCEPT ![h] = "idle"],
         str' = [str EXCEPT ![h] = <<>>],
         newLen' = [newLen EXCEPT ![h] = 0],
         oldRef' = [oldRef EXCEPT ![h] = NoBlock],
         oldBegin' = [oldBegin EXCEPT ![h] = NoBlock],
         Heap([mem EXCEPT ![memory[h]] = Written(@, w)]),
         \A i \in DOMAIN w : w[i] \in Cell,
         n < Len(mem[memory[h]]),
         \A i \in 1 .. n : IF i \in DOMAIN w THEN w[i] \in Char
                                             ELSE mem[memory[h]][i] \in Char,
         n + 1 \in DOMAIN w /\ w[n + 1] = Nul
  PROVE  IInv'
<1>1. HandleInv(h) /\ memory[h] \in Block /\ memory[h] # NoBlock
  BY WritersHaveMemory DEF IInv, TypeOK
<1>2. PICK b \in Block : b = memory[h] /\ b # NoBlock
  BY <1>1
<1>3. Sole(h)
  BY <1>1 DEF HandleInv
<1> DEFINE c == Written(mem[b], w)
           m == [mem EXCEPT ![b] = c]
<1>4. mem[b] \in Seq(Cell) /\ Len(mem[b]) \in Nat
  BY MemIsType
<1>5. /\ c \in Seq(Cell) /\ Len(c) = Len(mem[b])
      /\ \A i \in 1 .. Len(mem[b]) : c[i] = IF i \in DOMAIN w THEN w[i] ELSE mem[b][i]
  BY <1>4, WrittenFacts
<1> HIDE DEF c
<1>6. m \in [Block -> Seq(Cell)] /\ m[b] = c
  BY <1>5, MemIsType
<1>7. Heap(m)
  BY <1>2 DEF c
<1>8. \A k \in Handle \ {h} : \A d \in Block : d \in {memory[k], oldRef[k]} => m[d] = mem[d]
  BY <1>2, <1>3, SoleIsApart, MemIsType
<1> HIDE DEF m
<1>9. FieldsOK'
  BY DEF IInv, TypeOK, FieldsOK
<1>10. /\ memory'[h] = b /\ length'[h] = n /\ maxSize'[h] = maxSize[h]
       /\ pc'[h] = "idle" /\ str'[h] = <<>>
       /\ oldRef'[h] = NoBlock /\ oldBegin'[h] = NoBlock
  BY <1>2 DEF IInv, TypeOK
<1>11. \A k \in Handle \ {h} : Still(k)
  BY DEF IInv, TypeOK, Still
<1>12. mem'[b] = c
  BY <1>6, <1>7, <1>10, HeapAt
<1>13. Good(memory[h], length[h])'
  <2>1. n < Len(c) /\ n + 1 \in 1 .. Len(mem[b])
    BY <1>2, <1>4, <1>5
  <2>2. c[n + 1] = Nul
    BY <1>5, <2>1
  <2>3. \A i \in 1 .. n : i \in 1 .. Len(mem[b])
    BY <1>2, <1>4
  <2>4. \A i \in 1 .. n : c[i] \in Char
    BY <1>2, <1>5, <2>3
  <2> QED BY <1>2, <1>10, <1>12, <2>1, <2>2, <2>4 DEF Good, Holds
<1>14. HandleInv(h)'
  <2>1. maxSize[h] > 0 => maxSize[h] <= Len(mem[b])
    BY <1>1, <1>2 DEF HandleInv
  <2> QED BY <1>5, <1>10, <1>12, <1>13, <2>1, BecomesIdle
<1>15. \A k \in Handle \ {h} : pc[k] \in {"extend", "cut", "copy"} =>
          memory'[h] # memory[k] /\ oldRef'[h] # memory[k]
  BY <1>2, <1>3, <1>10, SoleIsApart, WritersHaveMemory
<1> QED BY <1>6, <1>7, <1>8, <1>9, <1>11, <1>14, <1>15, OneMoves

LEMMA ExtendInv ==
  ASSUME IInv, NEW h \in Handle, Extend(h)
  PROVE  IInv'
<1>1. HandleInv(h) /\ TypeOK
  BY DEF IInv
<1>2. /\ pc[h] = "extend" /\ length[h] \in Nat /\ newLen[h] \in Nat /\ maxSize[h] \in Nat
      /\ str[h] \in Seq(Char) /\ memory[h] \in Block
  BY <1>1, WritersHaveMemory DEF Extend, TypeOK
<1>3. newLen[h] = length[h] + Len(str[h]) /\ newLen[h] < maxSize[h]
  BY <1>1, <1>2 DEF HandleInv
<1>4. maxSize[h] <= Len(mem[memory[h]]) /\ oldRef[h] = NoBlock /\ oldBegin[h] = NoBlock
  BY <1>1, <1>2, <1>3, WritersHaveMemory DEF HandleInv
<1>5. \A i \in 1 .. length[h] : mem[memory[h]][i] \in Char
  BY <1>1, <1>2, WritersHaveMemory DEF HandleInv, Good, Holds
<1> DEFINE w == [i \in length[h] + 1 .. newLen[h] + 1 |->
                   IF i <= newLen[h] THEN str[h][i - length[h]] ELSE Nul]
<1>6. /\ memory' = memory /\ maxSize' = maxSize
      /\ length' = [length EXCEPT ![h] = newLen[h]]
      /\ pc' = [pc EXCEPT ![h] = "idle"]
      /\ str' = [str EXCEPT ![h] = <<>>]
      /\ newLen' = [newLen EXCEPT ![h] = 0]
      /\ Heap([mem EXCEPT ![memory[h]] = Written(@, w)])
  BY DEF Extend
<1>7. /\ oldRef' = [oldRef EXCEPT ![h] = NoBlock]
      /\ oldBegin' = [oldBegin EXCEPT ![h] = NoBlock]
  BY <1>1, <1>4 DEF Extend, TypeOK
<1>8. Len(str[h]) \in Nat /\ \A i \in 1 .. Len(str[h]) : str[h][i] \in Char
  BY <1>2
<1>9. DOMAIN w = length[h] + 1 .. newLen[h] + 1
  OBVIOUS
<1>10. \A i \in length[h] + 1 .. newLen[h] : i \in DOMAIN w /\ w[i] \in Char
  <2> SUFFICES ASSUME NEW i \in length[h] + 1 .. newLen[h]
               PROVE  i \in DOMAIN w /\ w[i] \in Char
    OBVIOUS
  <2>1. i - length[h] \in 1 .. Len(str[h]) /\ i \in DOMAIN w /\ i <= newLen[h]
    BY <1>2, <1>3, <1>8
  <2> QED BY <1>8, <2>1
<1>11. newLen[h] + 1 \in DOMAIN w /\ w[newLen[h] + 1] = Nul
  BY <1>2, <1>3, <1>8
<1> HIDE DEF w
<1>12. \A i \in DOMAIN w : w[i] \in Cell
  <2> SUFFICES ASSUME NEW i \in DOMAIN w PROVE w[i] \in Cell
    OBVIOUS
  <2>1. i \in length[h] + 1 .. newLen[h] \/ i = newLen[h] + 1
    BY <1>2, <1>9
  <2> QED BY <1>10, <1>11, <2>1 DEF Cell
<1>13. newLen[h] < Len(mem[memory[h]])
  <2>1. Len(mem[memory[h]]) \in Nat
    BY <1>2, MemIsType
  <2> QED BY <1>2, <1>3, <1>4, <2>1
<1>14. \A i \in 1 .. newLen[h] : IF i \in DOMAIN w THEN w[i] \in Char
                                                  ELSE mem[memory[h]][i] \in Char
  <2> SUFFICES ASSUME NEW i \in 1 .. newLen[h]
               PROVE  \/ i \in DOMAIN w /\ w[i] \in Char
                      \/ i \notin DOMAIN w /\ mem[memory[h]][i] \in Char
    OBVIOUS
  <2>1. i \in 1 .. length[h] \/ i \in length[h] + 1 .. newLen[h]
    BY <1>2
  <2>2. CASE i \in 1 .. length[h]
    BY <1>2, <1>5, <1>9, <2>2
  <2>3. CASE i \in length[h] + 1 .. newLen[h]
    BY <1>10, <2>3
  <2> QED BY <2>1, <2>2, <2>3
<1> QED BY <1>2, <1>6, <1>7, <1>11, <1>12, <1>13, <1>14, InPlaceInv

LEMMA CutInv ==
  ASSUME IInv, NEW h \in Handle, Cut(h)
  PROVE  IInv'
<1>1. HandleInv(h) /\ TypeOK
  BY DEF IInv
<1>2. /\ pc[h] = "cut" /\ length[h] \in Nat /\ newLen[h] \in Nat
      /\ memory[h] \in Block
  BY <1>1, WritersHaveMemory DEF Cut, CutBefore, TypeOK
<1>3. /\ newLen[h] < length[h] /\ str[h] = <<>>
      /\ oldRef[h] = NoBlock /\ oldBegin[h] = NoBlock
  BY <1>1, <1>2 DEF HandleInv
<1>4. /\ length[h] < Len(mem[memory[h]])
      /\ \A i \in 1 .. length[h] : mem[memory[h]][i] \in Char
  BY <1>1, <1>2, WritersHaveMemory DEF HandleInv, Good, Holds
<1> DEFINE w == [k \in {newLen[h] + 1} |-> Nul]
<1>5. /\ memory' = memory /\ maxSize' = maxSize
      /\ length' = [length EXCEPT ![h] = newLen[h]]
      /\ pc' = [pc EXCEPT ![h] = "idle"]
      /\ newLen' = [newLen EXCEPT ![h] = 0]
      /\ Heap([mem EXCEPT ![memory[h]] = Written(@, w)])
  <2>1. (newLen[h] + 1) - 1 = newLen[h]
    BY <1>2
  <2> QED BY <2>1 DEF Cut, CutBefore
<1>6. /\ str' = [str EXCEPT ![h] = <<>>]
      /\ oldRef' = [oldRef EXCEPT ![h] = NoBlock]
      /\ oldBegin' = [oldBegin EXCEPT ![h] = NoBlock]
  BY <1>1, <1>3 DEF Cut, CutBefore, TypeOK
<1>7. /\ DOMAIN w = {newLen[h] + 1} /\ w[newLen[h] + 1] = Nul
      /\ \A i \in DOMAIN w : w[i] \in Cell
  BY DEF Cell
<1> HIDE DEF w
<1>8. newLen[h] < Len(mem[memory[h]])
  <2>1. Len(mem[memory[h]]) \in Nat
    BY <1>2, MemIsType
  <2> QED BY <1>2, <1>3, <1>4, <2>1
<1>9. \A i \in 1 .. newLen[h] : i \notin DOMAIN w /\ mem[memory[h]][i] \in Char
  BY <1>2, <1>3, <1>4, <1>7
<1> QED BY <1>2, <1>5, <1>6, <1>7, <1>8, <1>9, InPlaceInv

LEMMA CopyOutInv ==
  ASSUME IInv, NEW h \in Handle, CopyOut(h)
  PROVE  IInv'
<1>1. HandleInv(h) /\ TypeOK
  BY DEF IInv
<1>2. /\ pc[h] = "copy" /\ length[h] \in Nat /\ newLen[h] \in Nat
      /\ str[h] \in Seq(Char) /\ memory[h] \in Block
      /\ oldRef[h] \in Block \cup {NoBlock}
  BY <1>1, WritersHaveMemory DEF CopyOut, CopyInto, TypeOK
<1>3. /\ newLen[h] = length[h] + Len(str[h]) /\ oldBegin[h] = oldRef[h]
      /\ Holds(oldRef[h], length[h]) /\ Len(mem[memory[h]]) = newLen[h] + 1
  BY <1>1, <1>2 DEF HandleInv
<1> DEFINE t == Text(oldBegin[h], length[h])
           w == t \o Append(str[h], Nul)
<1>4. /\ memory' = memory /\ maxSize' = maxSize
      /\ length' = [length EXCEPT ![h] = newLen[h]]
      /\ pc' = [pc EXCEPT ![h] = "idle"]
      /\ str' = [str EXCEPT ![h] = <<>>]
      /\ newLen' = [newLen EXCEPT ![h] = 0]
      /\ oldRef' = [oldRef EXCEPT ![h] = NoBlock]
      /\ oldBegin' = [oldBegin EXCEPT ![h] = NoBlock]
      /\ Heap([mem EXCEPT ![memory[h]] = Written(@, w)])
  BY DEF CopyOut, CopyInto
<1>5. t \in Seq(Char) /\ Len(t) = length[h]
  BY <1>2, <1>3, TextFacts
<1> HIDE DEF t
<1>6. w = (t \o str[h]) \o <<Nul>>
  BY <1>2, <1>5
<1>7. t \o str[h] \in Seq(Char) /\ Len(t \o str[h]) = newLen[h]
  BY <1>2, <1>3, <1>5
<1>8. w = Append(t \o str[h], Nul)
  BY <1>6, <1>7
<1>9. /\ w \in Seq(Cell) /\ Len(w) = newLen[h] + 1
      /\ \A i \in 1 .. newLen[h] : w[i] \in Char
      /\ w[newLen[h] + 1] = Nul
  BY <1>7, <1>8, TerminatedText
<1> HIDE DEF w
<1>10. DOMAIN w = 1 .. newLen[h] + 1 /\ \A i \in DOMAIN w : w[i] \in Cell
  BY <1>9
<1>11. newLen[h] < Len(mem[memory[h]])
  BY <1>2, <1>3
<1>12. newLen[h] + 1 \in DOMAIN w /\ \A i \in 1 .. newLen[h] : i \in DOMAIN w
  BY <1>2, <1>10
<1> QED BY <1>2, <1>4, <1>9, <1>10, <1>11, <1>12, InPlaceInv

\* The cell operator[] returns is a character of the text, or the one
\* behind the last; it lies in the block.
LEMMA CellAtFacts ==
  ASSUME IInv, NEW h \in Handle, Idle(h), memory[h] # NoBlock, NEW pos \in Nat
  PROVE  /\ mem[memory[h]] \in Seq(Cell) /\ Len(mem[memory[h]]) \in Nat
         /\ CellAt(h, pos) \in 1 .. Len(mem[memory[h]])
         /\ pos < length[h] => /\ CellAt(h, pos) = pos + 1
                               /\ CellAt(h, pos) \in 1 .. length[h]
                               /\ mem[memory[h]][CellAt(h, pos)] \in Char
         /\ ~(pos < length[h]) => CellAt(h, pos) = length[h] + 1
<1>1. memory[h] \in Block /\ length[h] \in Nat
  BY IdleFacts
<1>2. mem[memory[h]] \in Seq(Cell) /\ Len(mem[memory[h]]) \in Nat
  BY <1>1, MemIsType
<1>3. length[h] < Len(mem[memory[h]]) /\ \A i \in 1 .. length[h] : mem[memory[h]][i] \in Char
  BY IdleFacts DEF Good, Holds
<1>4. CASE pos < length[h]
  <2>1. CellAt(h, pos) = pos + 1
    BY <1>4 DEF CellAt
  <2>2. pos + 1 \in 1 .. length[h] /\ pos + 1 \in 1 .. Len(mem[memory[h]])
    BY <1>1, <1>2, <1>3, <1>4
  <2> QED BY <1>2, <1>3, <1>4, <2>1, <2>2
<1>5. CASE ~(pos < length[h])
  <2>1. CellAt(h, pos) = length[h] + 1
    BY <1>5 DEF CellAt
  <2> QED BY <1>1, <1>2, <1>3, <1>5, <2>1
<1> QED BY <1>4, <1>5

\* The one write that may meet sharers: it replaces a character by another,
\* so that their texts change and, unless the caller writes behind the text,
\* their terminators do not.
LEMMA SetCharInv ==
  ASSUME IInv, NEW h \in Handle, NEW pos \in 0 .. MaxLen, NEW ch \in Char, SetChar(h, pos, ch)
  PROVE  IInv'
<1> DEFINE i == CellAt(h, pos)
           w == [k \in {i} |-> ch]
<1>1. /\ Idle(h) /\ memory[h] # NoBlock /\ (WriteEnd \/ pos < length[h])
      /\ UNCHANGED <<memory, length, maxSize, pc, str, newLen, oldRef, oldBegin>>
      /\ Heap([mem EXCEPT ![memory[h]] = Written(@, w)])
  BY DEF SetChar, fields, locals
<1>2. memory[h] \in Block \cup {NoBlock} /\ length[h] \in Nat /\ pos \in Nat
  BY <1>1, IdleFacts
<1>3. PICK b \in Block : b = memory[h] /\ b # NoBlock
  BY <1>1, <1>2
<1> DEFINE c == Written(mem[b], w)
           m == [mem EXCEPT ![b] = c]
<1>4. /\ mem[b] \in Seq(Cell) /\ Len(mem[b]) \in Nat /\ i \in 1 .. Len(mem[b])
      /\ ~WriteEnd => mem[b][i] \in Char
  BY <1>1, <1>2, <1>3, CellAtFacts
<1> HIDE DEF i
<1>5. DOMAIN w = {i} /\ w[i] = ch /\ \A k \in DOMAIN w : w[k] \in Cell
  BY DEF Cell
<1> HIDE DEF w
<1>6. /\ c \in Seq(Cell) /\ Len(c) = Len(mem[b])
      /\ \A k \in 1 .. Len(mem[b]) : c[k] = IF k \in DOMAIN w THEN w[k] ELSE mem[b][k]
  BY <1>4, <1>5, WrittenFacts
<1> HIDE DEF c
<1>7. /\ m \in [Block -> Seq(Cell)] /\ m[b] = c
      /\ \A d \in Block \ {b} : m[d] = mem[d]
  BY <1>6, MemIsType
<1>8. Heap(m)
  BY <1>1, <1>3 DEF c
<1> HIDE DEF m
<1>9. TypeOK'
  BY <1>1, <1>7, <1>8, HeapFacts DEF IInv, TypeOK
\* A block with an owner keeps its length, its characters and its terminators.
<1>10. ASSUME NEW d \in Block, Owned(d)'
       PROVE  /\ Len(mem'[d]) = Len(mem[d])
              /\ \A k \in 1 .. Len(mem[d]) :
                    /\ mem[d][k] \in Char => mem'[d][k] \in Char
                    /\ ~WriteEnd /\ mem[d][k] = Nul => mem'[d][k] = Nul
  <2>1. mem'[d] = m[d]
    BY <1>7, <1>8, <1>10, HeapFacts
  <2>2. CASE d = b
    <3>1. mem'[d] = c
      BY <1>7, <2>1, <2>2
    <3>2. ~WriteEnd => mem[d][i] # Nul
      BY <1>4, <2>2, CharAssumption
    <3> QED BY <1>5, <1>6, <2>2, <3>1, <3>2
  <2>3. CASE d # b
    BY <1>7, <2>1, <2>3
  <2> QED BY <2>2, <2>3
<1>11. ASSUME NEW g \in Handle PROVE HandleInv(g)'
  <2>1. /\ HandleInv(g) /\ length[g] \in Nat
        /\ memory[g] \in Block \cup {NoBlock} /\ oldRef[g] \in Block \cup {NoBlock}
    BY DEF IInv, TypeOK
  <2>2. ASSUME NEW d \in Block, d \in {memory[g], oldRef[g]}, Holds(d, length[g]), d # NoBlock
        PROVE  /\ length[g] < Len(mem'[d])
               /\ \A k \in 1 .. length[g] : mem'[d][k] \in Char
               /\ ~WriteEnd /\ mem[d][length[g] + 1] = Nul => mem'[d][length[g] + 1] = Nul
    <3>1. Owned(d)'
      BY <1>1, <2>2 DEF Owned
    <3>2. /\ length[g] < Len(mem[d]) /\ Len(mem[d]) \in Nat
          /\ \A k \in 1 .. length[g] : mem[d][k] \in Char
      BY <2>2, MemIsType DEF Holds
    <3>3. length[g] + 1 \in 1 .. Len(mem[d])
          /\ \A k \in 1 .. length[g] : k \in 1 .. Len(mem[d])
      BY <2>1, <3>2
    <3> QED BY <1>10, <3>1, <3>2, <3>3
  <2>3. Holds(memory[g], length[g]) => Holds(memory[g], length[g])'
    BY <1>1, <2>1, <2>2 DEF Holds
  <2>4. Holds(oldRef[g], length[g]) => Holds(oldRef[g], length[g])'
    BY <1>1, <2>1, <2>2 DEF Holds
  <2>5. Good(memory[g], length[g]) => Good(memory[g], length[g])'
    BY <1>1, <2>1, <2>2, <2>3 DEF Good
  <2>6. Sole(g) => Sole(g)'
    BY <1>1 DEF Sole
  <2>7. memory[g] # NoBlock => Len(mem'[memory[g]]) = Len(mem[memory[g]])
    <3> SUFFICES ASSUME memory[g] # NoBlock
                 PROVE  Len(mem'[memory[g]]) = Len(mem[memory[g]])
      OBVIOUS
    <3>1. PICK d \in Block : d = memory[g]
      BY <2>1
    <3>2. Owned(d)'
      BY <1>1, <3>1 DEF Owned
    <3> QED BY <1>10, <3>1, <3>2
  <2>8. pc[g] = "copy" => memory[g] # NoBlock
    BY <2>1 DEF HandleInv, Sole
  <2> QED BY <1>1, <2>1, <2>3, <2>4, <2>5, <2>6, <2>7, <2>8 DEF HandleInv
<1> QED BY <1>9, <1>11 DEF IInv

-------------------------------------------------------------------------------
(* The invariant of the specification                                      *)

LEMMA InitIInv == Init => IInv
<1> SUFFICES ASSUME Init PROVE IInv
  OBVIOUS
<1>1. TypeOK
  BY DEF Init, TypeOK
<1>2. ASSUME NEW h \in Handle PROVE HandleInv(h)
  <2>1. memory[h] = NoBlock /\ length[h] = 0 /\ pc[h] = "idle" /\ str[h] = <<>>
        /\ oldRef[h] = NoBlock /\ oldBegin[h] = NoBlock
    BY DEF Init
  <2> QED BY <2>1 DEF HandleInv, Good, Holds
<1> QED BY <1>1, <1>2 DEF IInv

LEMMA NextIInv ==
  ASSUME IInv, Reuse = FALSE, [Next]_vars
  PROVE  IInv'
<1>1. CASE UNCHANGED vars
  BY <1>1 DEF vars, IInv, TypeOK, HandleInv, Good, Holds, Sole
<1>2. ASSUME NEW h \in Handle, Calls(h) PROVE IInv'
  BY <1>2, AssignInv, AppendTestInv, ChopTestInv, SetCharInv, ClearInv, CopyInv, MoveInv,
     SubstrInv DEF Calls
<1>3. ASSUME NEW h \in Handle, Steps(h) PROVE IInv'
  BY <1>3, ExtendInv, AllocInv, CopyOutInv, CutInv DEF Steps
<1> QED BY <1>1, <1>2, <1>3 DEF Next

(* What the handles rely on is an invariant of every number of strings,    *)
(* blocks and characters, when copies and moves only build new strings.    *)
THEOREM Inductive == Reuse = FALSE => (Spec => []IInv)
<1> SUFFICES ASSUME Reuse = FALSE PROVE Spec => []IInv
  OBVIOUS
<1>1. IInv /\ [Next]_vars => IInv'
  BY NextIInv
<1> QED BY <1>1, InitIInv, PTL DEF Spec

(* Every field and every local of append and chop has its type.            *)
THEOREM TypeCorrect == Reuse = FALSE => (Spec => []TypeOK)
<1> SUFFICES ASSUME Reuse = FALSE PROVE Spec => []TypeOK
  OBVIOUS
<1>1. IInv => TypeOK
  BY DEF IInv
<1> QED BY <1>1, Inductive, PTL

(* append (ncstring.h:184) and chop (296) write in place only to a block   *)
(* that is theirs alone and has room for the text and the terminator.      *)
THEOREM InPlaceWritesAreSafe == Reuse = FALSE => (Spec => []InPlaceIsSafe)
<1> SUFFICES ASSUME Reuse = FALSE PROVE Spec => []InPlaceIsSafe
  OBVIOUS
<1>1. IInv => InPlaceIsSafe
  <2> SUFFICES ASSUME IInv, NEW h \in Handle
               PROVE  /\ pc[h] \in {"extend", "cut"} => Sole(h)
                      /\ pc[h] = "extend" => newLen[h] < Len(Cells(memory[h]))
    BY DEF InPlaceIsSafe
  <2>1. HandleInv(h) /\ newLen[h] \in Nat /\ maxSize[h] \in Nat
        /\ memory[h] \in Block \cup {NoBlock}
    BY DEF IInv, TypeOK
  <2>2. ASSUME pc[h] = "extend" PROVE newLen[h] < Len(Cells(memory[h]))
    <3>1. memory[h] # NoBlock
      BY <2>2, WritersHaveMemory
    <3>2. newLen[h] < maxSize[h] /\ maxSize[h] <= Len(mem[memory[h]])
      BY <2>1, <2>2, <3>1 DEF HandleInv
    <3>3. Len(mem[memory[h]]) \in Nat
      BY <2>1, <3>1, MemIsType
    <3> QED BY <2>1, <3>1, <3>2, <3>3 DEF Cells
  <2> QED BY <2>1, <2>2 DEF HandleInv
<1> QED BY <1>1, Inductive, PTL

(* The block that append and chop copy from is alive and holds the whole   *)
(* text until the copy is done (oldStr, ncstring.h:191; oldRef, 303).      *)
THEOREM OldBlocksAreKept == Reuse = FALSE => (Spec => []OldBlockIsKept)
<1> SUFFICES ASSUME Reuse = FALSE PROVE Spec => []OldBlockIsKept
  OBVIOUS
<1>1. IInv => OldBlockIsKept
  <2> SUFFICES ASSUME IInv, NEW h \in Handle, pc[h] = "copy", length[h] > 0
               PROVE  /\ Len(Cells(oldBegin[h])) > length[h]
                      /\ \A i \in 1 .. length[h] : mem[oldBegin[h]][i] \in Char
    BY DEF OldBlockIsKept
  <2>1. oldBegin[h] = oldRef[h] /\ Holds(oldRef[h], length[h]) /\ length[h] \in Nat
    BY DEF IInv, HandleInv, TypeOK
  <2>2. oldRef[h] # NoBlock
    BY <2>1 DEF Holds
  <2>3. oldRef[h] \in Block
    BY <2>2 DEF IInv, TypeOK
  <2>4. mem[oldRef[h]] \in Seq(Cell) /\ Len(mem[oldRef[h]]) \in Nat
    BY <2>3, MemIsType
  <2> QED BY <2>1, <2>2, <2>4 DEF Holds, Cells
<1> QED BY <1>1, Inductive, PTL

(* c_str() of an idle string is its text with a terminator behind it,      *)
(* however many strings share the block, and even when operator[] writes   *)
(* into a shared one, if no caller writes through operator[] at or behind  *)
(* the end of a text (ncstring.h:168 hands out the terminator).            *)
THEOREM TextsAreTerminated ==
  Reuse = FALSE /\ WriteEnd = FALSE => (Spec => []Terminated)
<1> SUFFICES ASSUME Reuse = FALSE, WriteEnd = FALSE PROVE Spec => []Terminated
  OBVIOUS
<1>1. IInv => Terminated
  BY DEF IInv, HandleInv, Good, Holds, Idle, Terminated
<1> QED BY <1>1, Inductive, PTL

-------------------------------------------------------------------------------
(* Sharing cannot be noticed                                               *)

\* The block a string's value is read from.
Source(h) == IF pc[h] = "copy" THEN oldBegin[h] ELSE memory[h]

LEMMA SourceFacts ==
  ASSUME IInv, NEW h \in Handle
  PROVE  /\ Source(h) \in Block \cup {NoBlock} /\ Source(h) \in {memory[h], oldRef[h]}
         /\ length[h] \in Nat /\ Holds(Source(h), length[h])
         /\ Value(h) = Text(Source(h), length[h])
<1>1. HandleInv(h)
  BY DEF IInv
<1>2. memory[h] \in Block \cup {NoBlock} /\ oldRef[h] \in Block \cup {NoBlock} /\ length[h] \in Nat
  BY DEF IInv, TypeOK
<1>3. oldBegin[h] = oldRef[h]
  BY <1>1 DEF HandleInv
<1>4. CASE pc[h] = "copy"
  <2>1. Holds(oldRef[h], length[h])
    BY <1>1, <1>4 DEF HandleInv
  <2> QED BY <1>2, <1>3, <1>4, <2>1 DEF Source, Value
<1>5. CASE pc[h] # "copy"
  <2>1. Holds(memory[h], length[h])
    BY <1>1, <1>5 DEF HandleInv, Good
  <2> QED BY <1>2, <1>5, <2>1 DEF Source, Value
<1> QED BY <1>4, <1>5

\* The value of a string, and the value of a block after a step.
LEMMA ValueFacts ==
  ASSUME IInv, NEW h \in Handle
  PROVE  /\ Value(h) \in Seq(Char) /\ Len(Value(h)) = length[h]
         /\ Source(h) # NoBlock => \A i \in 1 .. length[h] : Value(h)[i] = mem[Source(h)][i]
<1> DEFINE b == Source(h)
<1>1. b \in Block \cup {NoBlock} /\ length[h] \in Nat /\ Holds(b, length[h])
      /\ Value(h) = Text(b, length[h])
  BY SourceFacts
<1> HIDE DEF b
<1>2. /\ Text(b, length[h]) \in Seq(Char) /\ Len(Text(b, length[h])) = length[h]
      /\ b # NoBlock => \A i \in 1 .. length[h] : Text(b, length[h])[i] = mem[b][i]
  BY <1>1, TextFacts
<1> QED BY <1>1, <1>2 DEF b

LEMMA TextAfter ==
  ASSUME NEW b, NEW t \in Seq(Char),
         b # NoBlock => /\ mem'[b] \in Seq(Cell) /\ Len(t) <= Len(mem'[b])
                        /\ \A i \in 1 .. Len(t) : mem'[b][i] = t[i],
         b = NoBlock => t = <<>>
  PROVE  Text(b, Len(t))' = t
<1>1. Len(t) \in Nat /\ t = [i \in 1 .. Len(t) |-> t[i]]
  OBVIOUS
<1>2. CASE b = NoBlock
  <2>1. Len(t) = 0
    BY <1>2
  <2>2. Text(b, Len(t))' = [i \in 1 .. Len(t) |-> t[i]]
    BY <2>1 DEF Text
  <2> QED BY <1>1, <2>2
<1>3. CASE b # NoBlock
  <2>1. DOMAIN mem'[b] = 1 .. Len(mem'[b]) /\ Len(mem'[b]) \in Nat
    BY <1>3
  <2>2. Cells(b)' = mem'[b]
    BY <1>3 DEF Cells
  <2>3. \A i \in 1 .. Len(t) : i \in DOMAIN mem'[b] /\ mem'[b][i] = t[i]
    BY <1>1, <1>3, <2>1
  <2>4. Text(b, Len(t))' = [i \in 1 .. Len(t) |-> t[i]]
    BY <2>2, <2>3 DEF Text
  <2> QED BY <1>1, <2>4
<1> QED BY <1>2, <1>3

\* A step of h leaves the values of the others alone.
LEMMA OthersKeep ==
  ASSUME IInv, NEW h \in Handle, NEW m \in [Block -> Seq(Cell)], Heap(m),
         \A g \in Handle \ {h} : Still(g),
         \A g \in Handle \ {h} : \A b \in Block :
            b \in {memory[g], oldRef[g]} => m[b] = mem[b]
  PROVE  \A g \in Handle \ {h} : Value(g)' = Value(g)
<1> SUFFICES ASSUME NEW g \in Handle \ {h} PROVE Value(g)' = Value(g)
  OBVIOUS
<1>1. PICK b \in Block \cup {NoBlock} : b = Source(g) /\ b \in {memory[g], oldRef[g]}
  BY SourceFacts
<1>2. memory'[g] = memory[g] /\ length'[g] = length[g] /\ pc'[g] = pc[g]
      /\ oldBegin'[g] = oldBegin[g] /\ oldRef'[g] = oldRef[g]
  BY DEF Still
<1>3. b # NoBlock => mem'[b] = mem[b]
  <2> SUFFICES ASSUME b # NoBlock PROVE mem'[b] = mem[b]
    OBVIOUS
  <2>1. b \in Block /\ Owned(b)'
    BY <1>1, <1>2 DEF Owned
  <2> QED BY <1>1, <2>1, HeapFacts
<1>4. Cells(b)' = Cells(b)
  BY <1>3 DEF Cells
<1>6. Value(g) = Text(b, length[g])
  BY <1>1, SourceFacts
<1>7. Value(g)' = [i \in 1 .. length[g] |-> IF i \in DOMAIN Cells(b)' THEN Cells(b)'[i] ELSE Junk]
  BY <1>1, <1>2 DEF Value, Source, Text
<1> QED BY <1>4, <1>6, <1>7 DEF Text

\* One string has changed, to t.
LEMMA OneChanges ==
  ASSUME NEW h \in Handle, NEW t, Value(h)' = t,
         \A g \in Handle \ {h} : Value(g)' = Value(g)
  PROVE  V!Set(h, t)
BY DEF V!Set

\* h gets a new block with the text t.
LEMMA NewText ==
  ASSUME IInv, NEW h \in Handle, NEW b \in Free, NEW t \in Seq(Char),
         Heap([mem EXCEPT ![b] = Append(t, Nul)]),
         memory'[h] = b, length'[h] = Len(t), pc'[h] = "idle",
         \A g \in Handle \ {h} : Still(g)
  PROVE  V!Set(h, t)
<1> DEFINE m == [mem EXCEPT ![b] = Append(t, Nul)]
<1>1. b \in Block /\ b # NoBlock
  BY FreeIsApart
<1>2. m \in [Block -> Seq(Cell)] /\ m[b] = Append(t, Nul)
  BY <1>1, TerminatedText, MemIsType
<1>3. \A k \in Handle \ {h} : \A c \in Block : c \in {memory[k], oldRef[k]} => m[c] = mem[c]
  BY <1>1, FreeIsApart, MemIsType
<1>4. Heap(m)
  OBVIOUS
<1> HIDE DEF m
<1>5. mem'[b] = Append(t, Nul)
  BY <1>1, <1>2, <1>4, HeapAt
<1>6. /\ mem'[b] \in Seq(Cell) /\ Len(t) <= Len(mem'[b])
      /\ \A i \in 1 .. Len(t) : mem'[b][i] = t[i]
  <2>1. Len(t) <= Len(Append(t, Nul)) /\ \A i \in 1 .. Len(t) : Append(t, Nul)[i] = t[i]
    OBVIOUS
  <2> QED BY <1>5, <2>1, TerminatedText
<1>7. Text(b, Len(t))' = t
  BY <1>1, <1>6, TextAfter
<1>8. Value(h)' = t
  BY <1>7 DEF Value, Text
<1> QED BY <1>2, <1>3, <1>4, <1>8, OthersKeep, OneChanges

LEMMA AssignValue ==
  ASSUME IInv, NEW h \in Handle, NEW s \in Literal, Assign(h, s)
  PROVE  V!Set(h, s)
<1>1. s \in Seq(Char)
  BY LiteralAssumption
<1>2. PICK b \in Free : /\ memory' = [memory EXCEPT ![h] = b]
                        /\ length' = [length EXCEPT ![h] = Len(s)]
                        /\ maxSize' = [maxSize EXCEPT ![h] = Len(s) + 1]
                        /\ Heap([mem EXCEPT ![b] = Append(s, Nul)])
  BY DEF Assign
<1>3. Idle(h) /\ UNCHANGED locals
  BY DEF Assign
<1>4. memory'[h] = b /\ length'[h] = Len(s)
  BY <1>2 DEF IInv, TypeOK
<1>5. pc'[h] = "idle"
  BY <1>3 DEF locals, Idle
<1>6. \A g \in Handle \ {h} : Still(g)
  BY <1>2, <1>3 DEF IInv, TypeOK, Still, locals
<1>7. Heap([mem EXCEPT ![b] = Append(s, Nul)])
  BY <1>2
<1> QED BY <1>1, <1>4, <1>5, <1>6, <1>7, NewText

\* An operation that leaves the cells alone.
LEMMA CellsKept ==
  ASSUME IInv, NEW h \in Handle, Heap(mem), \A g \in Handle \ {h} : Still(g)
  PROVE  \A g \in Handle \ {h} : Value(g)' = Value(g)
BY MemIsType, OthersKeep

\* h takes the block b with the text of g, which is idle.
LEMMA TakesValue ==
  ASSUME IInv, NEW h \in Handle, NEW g \in Handle, Heap(mem), Idle(g),
         memory'[h] = memory[g], length'[h] = length[g], pc'[h] = "idle"
  PROVE  Value(h)' = Value(g)
<1>1. memory[g] # NoBlock => mem'[memory[g]] = mem[memory[g]]
  BY IdleFacts, HeapAt, MemIsType
<1>2. Cells(memory[g])' = (IF memory'[g] = NoBlock THEN <<>> ELSE mem'[memory'[g]])
  BY DEF Cells
<1>3. Value(h)' = [i \in 1 .. length[g] |->
                     IF i \in DOMAIN Cells(memory[g]) THEN Cells(memory[g])[i] ELSE Junk]
  BY <1>1 DEF Value, Text, Cells
<1>4. Value(g) = Text(memory[g], length[g])
  BY DEF Value, Idle
<1> QED BY <1>3, <1>4 DEF Text

LEMMA CopyValue ==
  ASSUME IInv, Reuse = FALSE, NEW h \in Handle, NEW g \in Handle, Copy(h, g)
  PROVE  V!Copy(h, g)
<1>1. /\ Idle(h) /\ Idle(g)
      /\ memory' = [memory EXCEPT ![h] = memory[g]]
      /\ length' = [length EXCEPT ![h] = length[g]]
      /\ UNCHANGED <<maxSize, pc, str, newLen, oldRef, oldBegin>>
      /\ Heap(mem)
  BY DEF Copy, Target, locals
<1>2. memory'[h] = memory[g] /\ length'[h] = length[g] /\ pc'[h] = "idle"
  BY <1>1 DEF IInv, TypeOK, Idle
<1>3. \A k \in Handle \ {h} : Still(k)
  BY <1>1 DEF IInv, TypeOK, Still
<1>4. Value(h)' = Value(g)
  BY <1>1, <1>2, TakesValue
<1>5. V!Set(h, Value(g))
  BY <1>1, <1>3, <1>4, CellsKept, OneChanges
<1> QED BY <1>5 DEF V!Copy

\* A null block and no length are the empty text.
LEMMA NullIsEmpty ==
  ASSUME NEW h \in Handle, memory'[h] = NoBlock, length'[h] = 0, pc'[h] = "idle"
  PROVE  Value(h)' = <<>>
<1>1. Value(h)' = [i \in 1 .. 0 |-> IF i \in DOMAIN <<>> THEN <<>>[i] ELSE Junk]
  BY DEF Value, Text, Cells
<1> QED BY <1>1

LEMMA MoveValue ==
  ASSUME IInv, Reuse = FALSE, NEW h \in Handle, NEW g \in Handle, Move(h, g)
  PROVE  V!Move(h, g)
<1>1. /\ h # g /\ Idle(h) /\ Idle(g) /\ memory[h] = NoBlock
      /\ memory' = [memory EXCEPT ![h] = memory[g], ![g] = memory[h]]
      /\ length' = [length EXCEPT ![h] = length[g], ![g] = length[h]]
      /\ UNCHANGED <<maxSize, pc, str, newLen, oldRef, oldBegin>>
      /\ Heap(mem)
  BY DEF Move, Target, locals
<1>2. /\ memory'[h] = memory[g] /\ length'[h] = length[g] /\ pc'[h] = "idle"
      /\ memory'[g] = memory[h] /\ length'[g] = length[h] /\ pc'[g] = "idle"
  BY <1>1 DEF IInv, TypeOK, Idle
<1>3. \A k \in Handle \ {h, g} : Still(k)
  BY <1>1 DEF IInv, TypeOK, Still
<1>4. Value(h)' = Value(g) /\ Value(g)' = Value(h)
  BY <1>1, <1>2, TakesValue
<1>5. ASSUME NEW k \in Handle \ {h, g} PROVE Value(k)' = Value(k)
  <2>1. PICK b \in Block \cup {NoBlock} : b = Source(k) /\ b \in {memory[k], oldRef[k]}
    BY SourceFacts
  <2>2. Still(k)
    BY <1>3
  <2>3. b # NoBlock => mem'[b] = mem[b]
    <3> SUFFICES ASSUME b # NoBlock PROVE mem'[b] = mem[b]
      OBVIOUS
    <3>1. b \in Block /\ Owned(b)'
      BY <2>1, <2>2 DEF Owned, Still
    <3> QED BY <1>1, <3>1, HeapFacts, MemIsType
  <2>4. Cells(b)' = Cells(b)
    BY <2>3 DEF Cells
  <2>5. Value(k)' = [i \in 1 .. length[k] |-> IF i \in DOMAIN Cells(b)' THEN Cells(b)'[i] ELSE Junk]
    BY <2>1, <2>2 DEF Value, Source, Text, Still
  <2>6. Value(k) = Text(b, length[k])
    BY <2>1, SourceFacts
  <2> QED BY <2>4, <2>5, <2>6 DEF Text
<1> QED BY <1>1, <1>4, <1>5 DEF V!Move

LEMMA ClearValue ==
  ASSUME IInv, NEW h \in Handle, Clear(h) \/ Renew(h)
  PROVE  V!Clear(h)
<1>1. /\ Idle(h)
      /\ memory' = [memory EXCEPT ![h] = NoBlock]
      /\ length' = [length EXCEPT ![h] = 0]
      /\ maxSize' = [maxSize EXCEPT ![h] = maxSize'[h]]
      /\ UNCHANGED <<pc, str, newLen, oldRef, oldBegin>>
      /\ Heap(mem)
  <2>1. CASE Clear(h)
    BY <2>1 DEF Clear, locals, IInv, TypeOK
  <2>2. CASE Renew(h)
    BY <2>2 DEF Renew, locals, IInv, TypeOK
  <2> QED BY <2>1, <2>2
<1>2. memory'[h] = NoBlock /\ length'[h] = 0 /\ pc'[h] = "idle"
  BY <1>1 DEF IInv, TypeOK, Idle
<1>3. \A k \in Handle \ {h} : Still(k)
  BY <1>1 DEF IInv, TypeOK, Still
<1>4. V!Set(h, <<>>)
  BY <1>1, <1>2, <1>3, NullIsEmpty, CellsKept, OneChanges
<1> QED BY <1>4 DEF V!Clear

LEMMA SubstrValue ==
  ASSUME IInv, Reuse = FALSE, NEW h \in Handle, NEW g \in Handle,
         NEW start \in 0 .. length[g], NEW n \in 0 .. MaxLen, Substr(h, g, start, n)
  PROVE  V!Substr(h, g)
<1> DEFINE l == Least(n, length[g] - start)
           t == SubSeq(Text(memory[g], length[g]), start + 1, start + l)
<1>1. PICK b \in Free : /\ memory' = [memory EXCEPT ![h] = b]
                        /\ length' = [length EXCEPT ![h] = l]
                        /\ Heap([mem EXCEPT ![b] = Append(t, Nul)])
  BY DEF Substr
<1>2. /\ Idle(h) /\ Idle(g)
      /\ UNCHANGED <<maxSize, pc, str, newLen, oldRef, oldBegin>>
  BY DEF Substr, Target, locals
<1>3. Value(g) = Text(memory[g], length[g]) /\ Value(g) \in Seq(Char) /\ Len(Value(g)) = length[g]
  BY <1>2, ValueFacts DEF Value, Idle
<1>4. length[g] \in Nat /\ n \in Nat /\ start \in Nat
  BY LiteralAssumption DEF IInv, TypeOK
<1>5. l \in Nat /\ start + l <= length[g]
  BY <1>4 DEF Least
<1> HIDE DEF l
<1>6. t = SubSeq(Value(g), start + 1, start + l) /\ t \in Seq(Char) /\ Len(t) = l
  BY <1>3, <1>4, <1>5
<1> HIDE DEF t
<1>7. memory'[h] = b /\ length'[h] = Len(t) /\ pc'[h] = "idle"
  BY <1>1, <1>2, <1>6 DEF IInv, TypeOK, Idle
<1>8. \A k \in Handle \ {h} : Still(k)
  BY <1>1, <1>2 DEF IInv, TypeOK, Still
<1>9. V!Set(h, t)
  BY <1>1, <1>6, <1>7, <1>8, NewText
<1>10. /\ start + 1 \in 1 .. Len(Value(g)) + 1 /\ start + l + 1 \in 1 .. Len(Value(g)) + 1
       /\ start + l + 1 - 1 = start + l
  BY <1>3, <1>4, <1>5
<1>11. \E i, j \in 1 .. Len(Value(g)) + 1 : V!Set(h, SubSeq(Value(g), i, j - 1))
  <2>1. PICK i \in 1 .. Len(Value(g)) + 1 : i = start + 1
    BY <1>10
  <2>2. PICK j \in 1 .. Len(Value(g)) + 1 : j = start + l + 1
    BY <1>10
  <2>3. j - 1 = start + l
    BY <1>4, <1>5, <2>2
  <2>4. V!Set(h, SubSeq(Value(g), i, j - 1))
    BY <1>6, <1>9, <2>1, <2>3, Zenon
  <2> QED BY <2>4, Zenon
<1> QED BY <1>11 DEF V!Substr

\* The tests of append and chop change no text.
LEMMA TestValue ==
  ASSUME IInv, NEW h \in Handle, Idle(h), mem' = mem, memory' = memory, length' = length,
         pc'[h] # "copy", \A k \in Handle \ {h} : Still(k)
  PROVE  \A k \in Handle : Value(k)' = Value(k)
<1> SUFFICES ASSUME NEW k \in Handle PROVE Value(k)' = Value(k)
  OBVIOUS
<1>1. Source(k)' = Source(k)
  BY DEF Source, Still, Idle
<1>2. Value(k) = Text(Source(k), length[k]) /\ Value(k)' = Text(Source(k), length[k])'
  BY DEF Value, Source
<1> QED BY <1>1, <1>2 DEF Text, Cells

LEMMA AppendTestValue ==
  ASSUME IInv, NEW h \in Handle, NEW s \in Literal, AppendTest(h, s)
  PROVE  \A k \in Handle : Value(k)' = Value(k)
<1>1. /\ Idle(h) /\ UNCHANGED <<mem, memory, length, maxSize>>
      /\ str' = [str EXCEPT ![h] = s] /\ newLen' = [newLen EXCEPT ![h] = length[h] + Len(s)]
  BY DEF AppendTest, AppendBranch, fields
<1>2. \/ /\ pc' = [pc EXCEPT ![h] = "extend"]
         /\ UNCHANGED <<oldRef, oldBegin>>
      \/ /\ pc' = [pc EXCEPT ![h] = "appendAlloc"]
         /\ oldRef' = [oldRef EXCEPT ![h] = memory[h]]
         /\ oldBegin' = [oldBegin EXCEPT ![h] = memory[h]]
  BY DEF AppendTest, AppendBranch, KeepOld
<1>3. \A k \in Handle \ {h} : Still(k)
  BY <1>1, <1>2 DEF IInv, TypeOK, Still
<1>4. pc'[h] # "copy"
  BY <1>2 DEF IInv, TypeOK
<1> QED BY <1>1, <1>3, <1>4, TestValue

LEMMA ChopTestValue ==
  ASSUME IInv, NEW h \in Handle, NEW n \in 0 .. MaxLen, ChopTest(h, n)
  PROVE  \A k \in Handle : Value(k)' = Value(k)
<1>1. /\ Idle(h) /\ UNCHANGED <<mem, memory, length, maxSize, str>>
      /\ newLen' = [newLen EXCEPT ![h] = n]
  BY DEF ChopTest, fields
<1>2. \/ /\ pc' = [pc EXCEPT ![h] = "cut"]
         /\ UNCHANGED <<oldRef, oldBegin>>
      \/ /\ pc' = [pc EXCEPT ![h] = "chopAlloc"]
         /\ oldRef' = [oldRef EXCEPT ![h] = memory[h]]
         /\ oldBegin' = [oldBegin EXCEPT ![h] = memory[h]]
  BY DEF ChopTest, KeepOld
<1>3. \A k \in Handle \ {h} : Still(k)
  BY <1>1, <1>2 DEF IInv, TypeOK, Still
<1>4. pc'[h] # "copy"
  BY <1>2 DEF IInv, TypeOK
<1> QED BY <1>1, <1>3, <1>4, TestValue

\* The start of a text is left when a string is cut.
LEMMA Chops ==
  ASSUME NEW h \in Handle, NEW n \in 0 .. Len(Value(h)) - 1, V!Set(h, SubSeq(Value(h), 1, n))
  PROVE  V!Chop(h)
BY DEF V!Chop

\* An allocation leaves the old text, or in chop the start of it, to be copied.
LEMMA AllocValue ==
  ASSUME IInv, NEW h \in Handle, AppendAlloc(h) \/ ChopAlloc(h)
  PROVE  V!Chop(h) \/ \A k \in Handle : Value(k)' = Value(k)
<1>1. PICK b \in Free : /\ memory' = [memory EXCEPT ![h] = b]
                        /\ maxSize' = [maxSize EXCEPT ![h] = newLen[h] + 1]
                        /\ pc' = [pc EXCEPT ![h] = "copy"]
                        /\ UNCHANGED <<str, newLen, oldRef, oldBegin>>
                        /\ Heap([mem EXCEPT ![b] = Fresh(newLen[h] + 1)])
  BY DEF AppendAlloc, ChopAlloc
<1>2. \/ /\ pc[h] = "appendAlloc"
         /\ length' = length
      \/ /\ pc[h] = "chopAlloc"
         /\ length' = [length EXCEPT ![h] = newLen[h]]
  BY DEF AppendAlloc, ChopAlloc
<1>3. HandleInv(h) /\ newLen[h] \in Nat /\ length[h] \in Nat
      /\ memory[h] \in Block \cup {NoBlock}
  BY DEF IInv, TypeOK
<1>4. b \in Block /\ b # NoBlock
  BY FreeIsApart
<1> DEFINE m == [mem EXCEPT ![b] = Fresh(newLen[h] + 1)]
<1>5. m \in [Block -> Seq(Cell)]
  BY <1>3, <1>4, MemIsType DEF Fresh, Cell
<1>6. Heap(m)
  BY <1>1
<1>7. \A k \in Handle : \A c \in Block : c \in {memory[k], oldRef[k]} => m[c] = mem[c]
  BY <1>4, FreeIsApart, MemIsType
<1> HIDE DEF m
<1>8. \A k \in Handle \ {h} : Still(k)
  BY <1>1, <1>2 DEF IInv, TypeOK, Still
<1>9. \A k \in Handle \ {h} : Value(k)' = Value(k)
  BY <1>5, <1>6, <1>7, <1>8, OthersKeep
<1>10. pc'[h] = "copy" /\ oldBegin'[h] = memory[h] /\ oldRef'[h] = memory[h]
  BY <1>1, <1>2, <1>3 DEF IInv, TypeOK, HandleInv
<1>11. memory[h] # NoBlock => mem'[memory[h]] = mem[memory[h]]
  <2> SUFFICES ASSUME memory[h] # NoBlock PROVE mem'[memory[h]] = mem[memory[h]]
    OBVIOUS
  <2>1. PICK c \in Block : c = memory[h]
    BY <1>3
  <2>2. Owned(c)'
    BY <1>10, <2>1 DEF Owned
  <2> QED BY <1>5, <1>6, <1>7, <2>1, <2>2, HeapFacts
<1>12. Value(h)' = [i \in 1 .. length'[h] |->
                      IF i \in DOMAIN Cells(memory[h]) THEN Cells(memory[h])[i] ELSE Junk]
  BY <1>10, <1>11 DEF Value, Text, Cells
<1>13. Value(h) = Text(memory[h], length[h]) /\ Value(h) \in Seq(Char) /\ Len(Value(h)) = length[h]
  BY <1>2, ValueFacts DEF Value
<1>14. CASE pc[h] = "appendAlloc" /\ length' = length
  <2>1. Value(h)' = Value(h)
    BY <1>12, <1>13, <1>14 DEF Text
  <2> QED BY <1>9, <2>1
<1>15. CASE pc[h] = "chopAlloc" /\ length' = [length EXCEPT ![h] = newLen[h]]
  <2>1. length'[h] = newLen[h] /\ newLen[h] < length[h]
    BY <1>3, <1>15 DEF IInv, TypeOK, HandleInv
  <2>2. SubSeq(Value(h), 1, newLen[h]) = [i \in 1 .. newLen[h] |-> Value(h)[i]]
    BY <1>3, <1>13, <2>1
  <2>3. \A i \in 1 .. newLen[h] : i \in 1 .. length[h]
    BY <1>3, <2>1
  <2>4. \A i \in 1 .. newLen[h] :
          Value(h)[i] = IF i \in DOMAIN Cells(memory[h]) THEN Cells(memory[h])[i] ELSE Junk
    BY <1>13, <2>3 DEF Text
  <2>5. Value(h)' = SubSeq(Value(h), 1, newLen[h])
    BY <1>12, <2>1, <2>2, <2>4
  <2>6. newLen[h] \in 0 .. Len(Value(h)) - 1
    BY <1>3, <1>13, <2>1
  <2>7. V!Set(h, SubSeq(Value(h), 1, newLen[h]))
    BY <1>9, <2>5, OneChanges
  <2> QED BY <2>6, <2>7, Chops
<1> QED BY <1>2, <1>14, <1>15

\* Writing in place, by a string that is alone with its block.
LEMMA InPlaceValue ==
  ASSUME IInv, NEW h \in Handle, NEW w, NEW t \in Seq(Char), Sole(h),
         \A i \in DOMAIN w : w[i] \in Cell,
         memory'[h] = memory[h], length'[h] = Len(t), pc'[h] = "idle",
         \A g \in Handle \ {h} : Still(g),
         Heap([mem EXCEPT ![memory[h]] = Written(@, w)]),
         Len(t) < Len(mem[memory[h]]),
         \A i \in 1 .. Len(t) : t[i] = IF i \in DOMAIN w THEN w[i] ELSE mem[memory[h]][i]
  PROVE  V!Set(h, t)
<1>1. PICK b \in Block : b = memory[h] /\ b # NoBlock
  BY DEF Sole, IInv, TypeOK
<1> DEFINE c == Written(mem[b], w)
           m == [mem EXCEPT ![b] = c]
<1>2. mem[b] \in Seq(Cell) /\ Len(mem[b]) \in Nat /\ Len(t) \in Nat
  BY MemIsType
<1>3. /\ c \in Seq(Cell) /\ Len(c) = Len(mem[b])
      /\ \A i \in 1 .. Len(mem[b]) : c[i] = IF i \in DOMAIN w THEN w[i] ELSE mem[b][i]
  BY <1>2, WrittenFacts
<1> HIDE DEF c
<1>4. m \in [Block -> Seq(Cell)] /\ m[b] = c
  BY <1>3, MemIsType
<1>5. Heap(m)
  BY <1>1 DEF c
<1>6. \A k \in Handle \ {h} : \A d \in Block : d \in {memory[k], oldRef[k]} => m[d] = mem[d]
  BY <1>1, SoleIsApart, MemIsType
<1> HIDE DEF m
<1>7. \A k \in Handle \ {h} : Value(k)' = Value(k)
  BY <1>4, <1>5, <1>6, OthersKeep
<1>8. mem'[b] = c
  BY <1>1, <1>4, <1>5, HeapAt
<1>9. \A i \in 1 .. Len(t) : i \in 1 .. Len(mem[b])
  BY <1>1, <1>2
<1>10. \A i \in 1 .. Len(t) : mem'[b][i] = t[i]
  BY <1>1, <1>3, <1>8, <1>9
<1>11. mem'[b] \in Seq(Cell) /\ Len(t) <= Len(mem'[b])
  BY <1>1, <1>2, <1>3, <1>8
<1>12. Text(b, Len(t))' = t
  BY <1>1, <1>10, <1>11, TextAfter
<1>13. Value(h)' = t
  BY <1>1, <1>12 DEF Value, Text
<1> QED BY <1>7, <1>13, OneChanges

\* A running append has one of the literals to add, and there is room for it.
RunInv == \A h \in Handle : str[h] = <<>> \/ (str[h] \in Literal /\ newLen[h] <= MaxLen)

\* The end of an append, or of a chop with nothing left to add.
LEMMA Extends ==
  ASSUME IInv, RunInv, NEW h \in Handle, pc[h] \in {"extend", "copy"},
         V!Set(h, Value(h) \o str[h])
  PROVE  V!Extend(h) \/ \A k \in Handle : Value(k)' = Value(k)
<1>1. Value(h) \in Seq(Char) /\ Len(Value(h)) = length[h]
  BY ValueFacts
<1>2. newLen[h] = length[h] + Len(str[h])
  BY DEF IInv, HandleInv
<1>3. CASE str[h] = <<>>
  <2>1. Value(h) \o str[h] = Value(h)
    BY <1>1, <1>3
  <2>2. V!Set(h, Value(h))
    BY <2>1
  <2> QED BY <2>2 DEF V!Set
<1>4. CASE str[h] \in Literal /\ newLen[h] <= MaxLen
  BY <1>1, <1>2, <1>4 DEF V!Extend
<1> QED BY <1>3, <1>4 DEF RunInv

\* Characters behind a text.
LEMMA Behind ==
  ASSUME NEW v \in Seq(Char), NEW s \in Seq(Char), NEW t, t = v \o s
  PROVE  /\ t \in Seq(Char) /\ Len(t) = Len(v) + Len(s)
         /\ \A i \in 1 .. Len(v) + Len(s) : t[i] = IF i <= Len(v) THEN v[i] ELSE s[i - Len(v)]
OBVIOUS

LEMMA ExtendValue ==
  ASSUME IInv, RunInv, NEW h \in Handle, Extend(h)
  PROVE  V!Extend(h) \/ \A k \in Handle : Value(k)' = Value(k)
<1>1. HandleInv(h) /\ TypeOK
  BY DEF IInv
<1>2. /\ pc[h] = "extend" /\ length[h] \in Nat /\ newLen[h] \in Nat /\ maxSize[h] \in Nat
      /\ str[h] \in Seq(Char) /\ memory[h] \in Block /\ memory[h] # NoBlock
  BY <1>1, WritersHaveMemory DEF Extend, TypeOK
<1>3. newLen[h] = length[h] + Len(str[h]) /\ newLen[h] < maxSize[h]
      /\ maxSize[h] <= Len(mem[memory[h]]) /\ Sole(h)
  BY <1>1, <1>2 DEF HandleInv
<1> DEFINE w == [i \in length[h] + 1 .. newLen[h] + 1 |->
                   IF i <= newLen[h] THEN str[h][i - length[h]] ELSE Nul]
           t == Value(h) \o str[h]
<1>4. /\ memory' = memory /\ maxSize' = maxSize
      /\ length' = [length EXCEPT ![h] = newLen[h]]
      /\ pc' = [pc EXCEPT ![h] = "idle"]
      /\ str' = [str EXCEPT ![h] = <<>>]
      /\ newLen' = [newLen EXCEPT ![h] = 0]
      /\ UNCHANGED <<oldRef, oldBegin>>
      /\ Heap([mem EXCEPT ![memory[h]] = Written(@, w)])
  BY DEF Extend
<1>5. Value(h) \in Seq(Char) /\ Len(Value(h)) = length[h]
      /\ \A i \in 1 .. length[h] : Value(h)[i] = mem[memory[h]][i]
  BY <1>2, ValueFacts DEF Source
<1>6. /\ t \in Seq(Char) /\ Len(t) = newLen[h]
      /\ \A i \in 1 .. newLen[h] :
            t[i] = IF i <= length[h] THEN Value(h)[i] ELSE str[h][i - length[h]]
  <2>1. /\ t \in Seq(Char) /\ Len(t) = Len(Value(h)) + Len(str[h])
        /\ \A i \in 1 .. Len(Value(h)) + Len(str[h]) :
              t[i] = IF i <= Len(Value(h)) THEN Value(h)[i] ELSE str[h][i - Len(Value(h))]
    BY <1>2, <1>5, Behind, Zenon
  <2> HIDE DEF t
  <2> QED BY <1>3, <1>5, <2>1
<1> HIDE DEF t
<1>7. DOMAIN w = length[h] + 1 .. newLen[h] + 1
  OBVIOUS
<1>8. \A i \in 1 .. newLen[h] : t[i] = IF i \in DOMAIN w THEN w[i] ELSE mem[memory[h]][i]
  <2> SUFFICES ASSUME NEW i \in 1 .. newLen[h]
               PROVE  t[i] = IF i \in DOMAIN w THEN w[i] ELSE mem[memory[h]][i]
    OBVIOUS
  <2>1. CASE i <= length[h]
    <3>1. i \notin DOMAIN w /\ i \in 1 .. length[h]
      BY <1>2, <2>1
    <3> HIDE DEF w
    <3> QED BY <1>5, <1>6, <2>1, <3>1
  <2>2. CASE ~(i <= length[h])
    <3>1. i \in DOMAIN w /\ w[i] = str[h][i - length[h]]
      BY <1>2, <2>2
    <3> HIDE DEF w
    <3> QED BY <1>6, <2>2, <3>1
  <2> QED BY <2>1, <2>2
<1>9. \A i \in DOMAIN w : w[i] \in Cell
  <2> SUFFICES ASSUME NEW i \in DOMAIN w PROVE w[i] \in Cell
    OBVIOUS
  <2>1. Len(str[h]) \in Nat /\ \A j \in 1 .. Len(str[h]) : str[h][j] \in Char
    BY <1>2
  <2>2. CASE i <= newLen[h]
    <3>1. i - length[h] \in 1 .. Len(str[h]) /\ w[i] = str[h][i - length[h]]
      BY <1>2, <1>3, <2>1, <2>2
    <3> QED BY <2>1, <3>1 DEF Cell
  <2>3. CASE ~(i <= newLen[h])
    <3>1. w[i] = Nul
      BY <2>3
    <3> QED BY <3>1 DEF Cell
  <2> QED BY <2>2, <2>3
<1> HIDE DEF w
<1>10. newLen[h] < Len(mem[memory[h]])
  <2>1. Len(mem[memory[h]]) \in Nat
    BY <1>2, MemIsType
  <2> QED BY <1>2, <1>3, <2>1
<1>11. memory'[h] = memory[h] /\ length'[h] = Len(t) /\ pc'[h] = "idle"
  BY <1>1, <1>4, <1>6 DEF TypeOK
<1>12. \A k \in Handle \ {h} : Still(k)
  BY <1>1, <1>4 DEF TypeOK, Still
<1>13. V!Set(h, t)
  BY <1>3, <1>4, <1>6, <1>8, <1>9, <1>10, <1>11, <1>12, InPlaceValue
<1> QED BY <1>2, <1>13, Extends DEF t

LEMMA EndBehind ==
  ASSUME NEW v \in Seq(Char), NEW s \in Seq(Char)
  PROVE  v \o Append(s, Nul) = Append(v \o s, Nul)
<1>1. v \o Append(s, Nul) = (v \o s) \o <<Nul>>
  OBVIOUS
<1>2. v \o s \in Seq(Char)
  OBVIOUS
<1> QED BY <1>1, <1>2

LEMMA CopyOutValue ==
  ASSUME IInv, RunInv, NEW h \in Handle, CopyOut(h)
  PROVE  V!Extend(h) \/ \A k \in Handle : Value(k)' = Value(k)
<1>1. HandleInv(h) /\ TypeOK
  BY DEF IInv
<1>2. /\ pc[h] = "copy" /\ length[h] \in Nat /\ newLen[h] \in Nat
      /\ str[h] \in Seq(Char) /\ memory[h] \in Block
  BY <1>1, WritersHaveMemory DEF CopyOut, CopyInto, TypeOK
<1>3. /\ newLen[h] = length[h] + Len(str[h]) /\ Len(mem[memory[h]]) = newLen[h] + 1 /\ Sole(h)
  BY <1>1, <1>2 DEF HandleInv
<1> DEFINE t == Value(h) \o str[h]
           w == Value(h) \o Append(str[h], Nul)
<1>4. Value(h) \in Seq(Char) /\ Len(Value(h)) = length[h] /\ Value(h) = Text(oldBegin[h], length[h])
  BY <1>2, ValueFacts DEF Value
<1>5. /\ memory' = memory /\ maxSize' = maxSize
      /\ length' = [length EXCEPT ![h] = newLen[h]]
      /\ pc' = [pc EXCEPT ![h] = "idle"]
      /\ str' = [str EXCEPT ![h] = <<>>]
      /\ newLen' = [newLen EXCEPT ![h] = 0]
      /\ oldRef' = [oldRef EXCEPT ![h] = NoBlock]
      /\ oldBegin' = [oldBegin EXCEPT ![h] = NoBlock]
      /\ Heap([mem EXCEPT ![memory[h]] = Written(@, w)])
  BY <1>4 DEF CopyOut, CopyInto
<1>7. t \in Seq(Char) /\ Len(t) = newLen[h]
  <2>1. t \in Seq(Char) /\ Len(t) = Len(Value(h)) + Len(str[h])
    BY <1>2, <1>4, Behind, Zenon
  <2> HIDE DEF t
  <2> QED BY <1>3, <1>4, <2>1
<1>8. w = Append(t, Nul)
  BY <1>2, <1>4, EndBehind, Zenon
<1>9. /\ w \in Seq(Cell) /\ Len(w) = newLen[h] + 1
      /\ \A i \in 1 .. newLen[h] : w[i] = t[i]
  <2> HIDE DEF w, t
  <2>1. Append(t, Nul) \in Seq(Cell) /\ Len(Append(t, Nul)) = newLen[h] + 1
    BY <1>7, TerminatedText
  <2>2. \A i \in 1 .. Len(t) : Append(t, Nul)[i] = t[i]
    BY <1>7
  <2> QED BY <1>7, <1>8, <2>1, <2>2, Zenon
<1> HIDE DEF w, t
<1>10. DOMAIN w = 1 .. newLen[h] + 1 /\ \A i \in DOMAIN w : w[i] \in Cell
  BY <1>9
<1>11. \A i \in 1 .. newLen[h] : i \in DOMAIN w
  BY <1>2, <1>10
<1>12. newLen[h] < Len(mem[memory[h]])
  BY <1>2, <1>3
<1>13. memory'[h] = memory[h] /\ length'[h] = Len(t) /\ pc'[h] = "idle"
  BY <1>1, <1>5, <1>7 DEF TypeOK
<1>14. \A k \in Handle \ {h} : Still(k)
  BY <1>1, <1>5 DEF TypeOK, Still
<1>15. V!Set(h, t)
  BY <1>3, <1>5, <1>7, <1>9, <1>10, <1>11, <1>12, <1>13, <1>14, InPlaceValue
<1> QED BY <1>2, <1>15, Extends DEF t

LEMMA CutValue ==
  ASSUME IInv, NEW h \in Handle, Cut(h)
  PROVE  V!Chop(h)
<1>1. HandleInv(h) /\ TypeOK
  BY DEF IInv
<1>2. /\ pc[h] = "cut" /\ length[h] \in Nat /\ newLen[h] \in Nat
      /\ memory[h] \in Block /\ memory[h] # NoBlock
  BY <1>1, WritersHaveMemory DEF Cut, CutBefore, TypeOK
<1>3. /\ newLen[h] < length[h] /\ Sole(h) /\ length[h] < Len(mem[memory[h]])
      /\ Len(mem[memory[h]]) \in Nat
  BY <1>1, <1>2, MemIsType DEF HandleInv, Good, Holds
<1> DEFINE w == [k \in {newLen[h] + 1} |-> Nul]
           t == SubSeq(Value(h), 1, newLen[h])
<1>4. /\ memory' = memory /\ maxSize' = maxSize
      /\ length' = [length EXCEPT ![h] = newLen[h]]
      /\ pc' = [pc EXCEPT ![h] = "idle"]
      /\ newLen' = [newLen EXCEPT ![h] = 0]
      /\ UNCHANGED <<str, oldRef, oldBegin>>
      /\ Heap([mem EXCEPT ![memory[h]] = Written(@, w)])
  <2>1. (newLen[h] + 1) - 1 = newLen[h]
    BY <1>2
  <2> QED BY <2>1 DEF Cut, CutBefore
<1>5. /\ DOMAIN w = {newLen[h] + 1} /\ \A i \in DOMAIN w : w[i] \in Cell
  BY DEF Cell
<1> HIDE DEF w
<1>6. Value(h) \in Seq(Char) /\ Len(Value(h)) = length[h]
      /\ \A i \in 1 .. length[h] : Value(h)[i] = mem[memory[h]][i]
  BY <1>2, ValueFacts DEF Source
<1>7. /\ t \in Seq(Char) /\ Len(t) = newLen[h]
      /\ \A i \in 1 .. newLen[h] : t[i] = Value(h)[i]
  BY <1>2, <1>3, <1>6
<1> HIDE DEF t
<1>8. \A i \in 1 .. newLen[h] : i \in 1 .. length[h] /\ i \notin DOMAIN w
  BY <1>2, <1>3, <1>5
<1>9. \A i \in 1 .. Len(t) : t[i] = IF i \in DOMAIN w THEN w[i] ELSE mem[memory[h]][i]
  BY <1>6, <1>7, <1>8
<1>10. memory'[h] = memory[h] /\ length'[h] = Len(t) /\ pc'[h] = "idle"
  BY <1>1, <1>4, <1>7 DEF TypeOK
<1>11. \A k \in Handle \ {h} : Still(k)
  BY <1>1, <1>4 DEF TypeOK, Still
<1>12. Len(t) < Len(mem[memory[h]])
  BY <1>2, <1>3, <1>7
<1>13. V!Set(h, t)
  BY <1>3, <1>4, <1>5, <1>7, <1>9, <1>10, <1>11, <1>12, InPlaceValue
<1>14. newLen[h] \in 0 .. Len(Value(h)) - 1
  BY <1>2, <1>3, <1>6
<1> QED BY <1>13, <1>14, Chops DEF t

\* A write behind the text is none to the value.
LEMMA SetCharValue ==
  ASSUME IInv, WriteShared = FALSE, NEW h \in Handle, NEW pos \in 0 .. MaxLen, NEW ch \in Char,
         SetChar(h, pos, ch)
  PROVE  V!SetChar(h) \/ \A k \in Handle : Value(k)' = Value(k)
<1> DEFINE i == CellAt(h, pos)
           w == [k \in {i} |-> ch]
<1>1. /\ Idle(h) /\ Sole(h) /\ memory[h] # NoBlock
      /\ UNCHANGED <<memory, length, maxSize, pc, str, newLen, oldRef, oldBegin>>
      /\ Heap([mem EXCEPT ![memory[h]] = Written(@, w)])
  BY DEF SetChar, fields, locals
<1>2. memory[h] # NoBlock /\ memory[h] \in Block /\ length[h] \in Nat /\ pos \in Nat
      /\ length[h] < Len(mem[memory[h]]) /\ Len(mem[memory[h]]) \in Nat
  <2>1. memory[h] # NoBlock /\ memory[h] \in Block /\ length[h] \in Nat
    BY <1>1, IdleFacts DEF Sole
  <2> QED BY <1>1, <2>1, IdleFacts, MemIsType DEF Good, Holds
<1>3. DOMAIN w = {i} /\ w[i] = ch /\ \A k \in DOMAIN w : w[k] \in Cell
  BY DEF Cell
<1>4. Value(h) \in Seq(Char) /\ Len(Value(h)) = length[h]
      /\ \A k \in 1 .. length[h] : Value(h)[k] = mem[memory[h]][k]
  BY <1>1, <1>2, ValueFacts DEF Source, Idle
<1>5. /\ i \in 1 .. Len(mem[memory[h]])
      /\ pos < length[h] => i \in 1 .. length[h]
      /\ ~(pos < length[h]) => i = length[h] + 1
  BY <1>1, <1>2, CellAtFacts
<1> DEFINE t == IF pos < length[h] THEN [Value(h) EXCEPT ![i] = ch] ELSE Value(h)
<1> HIDE DEF i, w
<1>6. /\ t \in Seq(Char) /\ Len(t) = length[h]
      /\ \A k \in 1 .. length[h] : t[k] = IF k = i THEN ch ELSE Value(h)[k]
  <2>1. CASE pos < length[h]
    BY <1>2, <1>4, <1>5, <2>1
  <2>2. CASE ~(pos < length[h])
    BY <1>2, <1>4, <1>5, <2>2
  <2> QED BY <2>1, <2>2
<1>7. pos < length[h] => t = [Value(h) EXCEPT ![i] = ch]
  OBVIOUS
<1>8. ~(pos < length[h]) => t = Value(h)
  OBVIOUS
<1> HIDE DEF t
<1>9. \A k \in 1 .. Len(t) : t[k] = IF k \in DOMAIN w THEN w[k] ELSE mem[memory[h]][k]
  BY <1>3, <1>4, <1>6
<1>10. memory'[h] = memory[h] /\ length'[h] = Len(t) /\ pc'[h] = "idle"
  BY <1>1, <1>6 DEF Idle
<1>11. \A k \in Handle \ {h} : Still(k)
  BY <1>1 DEF Still
<1>12. Len(t) < Len(mem[memory[h]])
  BY <1>2, <1>6
<1>13. V!Set(h, t)
  BY <1>1, <1>3, <1>6, <1>9, <1>10, <1>11, <1>12, InPlaceValue
<1>14. CASE pos < length[h]
  <2>1. i \in 1 .. Len(Value(h))
    BY <1>4, <1>5, <1>14
  <2> QED BY <1>7, <1>13, <1>14, <2>1 DEF V!SetChar
<1>15. CASE ~(pos < length[h])
  <2>1. V!Set(h, Value(h))
    BY <1>8, <1>13, <1>15
  <2> QED BY <2>1 DEF V!Set
<1> QED BY <1>14, <1>15

LEMMA RunInvKept ==
  ASSUME IInv, RunInv, [Next]_vars
  PROVE  RunInv'
<1> SUFFICES ASSUME NEW g \in Handle
             PROVE  str'[g] = <<>> \/ (str'[g] \in Literal /\ newLen'[g] <= MaxLen)
  BY DEF RunInv
<1>1. str[g] = <<>> \/ (str[g] \in Literal /\ newLen[g] <= MaxLen)
  BY DEF RunInv
<1>2. CASE UNCHANGED <<str, newLen>>
  BY <1>1, <1>2
<1>3. CASE \E h \in Handle : str' = [str EXCEPT ![h] = <<>>] /\ newLen' = [newLen EXCEPT ![h] = 0]
  BY <1>1, <1>3 DEF IInv, TypeOK
<1>4. ASSUME NEW h \in Handle, NEW s \in Literal, AppendTest(h, s)
      PROVE  str'[g] = <<>> \/ (str'[g] \in Literal /\ newLen'[g] <= MaxLen)
  <2>1. /\ length[h] + Len(s) <= MaxLen
        /\ str' = [str EXCEPT ![h] = s] /\ newLen' = [newLen EXCEPT ![h] = length[h] + Len(s)]
    BY <1>4 DEF AppendTest, AppendBranch
  <2> QED BY <1>1, <2>1 DEF IInv, TypeOK
<1>5. ASSUME NEW h \in Handle, NEW n \in 0 .. MaxLen, ChopTest(h, n)
      PROVE  str'[g] = <<>> \/ (str'[g] \in Literal /\ newLen'[g] <= MaxLen)
  <2>1. str' = str /\ newLen' = [newLen EXCEPT ![h] = n] /\ str[h] = <<>>
    BY <1>5, IdleFacts DEF ChopTest
  <2> QED BY <1>1, <2>1 DEF IInv, TypeOK
<1>6. ASSUME NEW h \in Handle, Cut(h)
      PROVE  str'[g] = <<>> \/ (str'[g] \in Literal /\ newLen'[g] <= MaxLen)
  <2>1. str' = str /\ newLen' = [newLen EXCEPT ![h] = 0] /\ pc[h] = "cut"
    BY <1>6 DEF Cut, CutBefore
  <2>2. str[h] = <<>>
    BY <2>1 DEF IInv, HandleInv
  <2> QED BY <1>1, <2>1, <2>2 DEF IInv, TypeOK
<1>7. ASSUME NEW h \in Handle, Calls(h)
      PROVE  str'[g] = <<>> \/ (str'[g] \in Literal /\ newLen'[g] <= MaxLen)
  <2>1. \/ UNCHANGED locals
        \/ \E s \in Literal : AppendTest(h, s)
        \/ \E n \in 0 .. MaxLen : ChopTest(h, n)
    BY <1>7 DEF Calls, Assign, SetChar, Clear, Renew, Copy, Move, Substr
  <2> QED BY <1>2, <1>4, <1>5, <2>1 DEF locals
<1>8. ASSUME NEW h \in Handle, Steps(h)
      PROVE  str'[g] = <<>> \/ (str'[g] \in Literal /\ newLen'[g] <= MaxLen)
  <2>1. CASE Extend(h)
    BY <1>3, <2>1 DEF Extend
  <2>2. CASE CopyOut(h)
    BY <1>3, <2>2 DEF CopyOut, CopyInto
  <2>3. CASE AppendAlloc(h) \/ ChopAlloc(h)
    BY <1>2, <2>3 DEF AppendAlloc, ChopAlloc
  <2>4. CASE Cut(h)
    BY <1>6, <2>4
  <2> QED BY <1>8, <2>1, <2>2, <2>3, <2>4 DEF Steps
<1>9. CASE UNCHANGED vars
  BY <1>2, <1>9 DEF vars
<1> QED BY <1>7, <1>8, <1>9 DEF Next

\* Every step is a step of the values, or one that no caller can notice.
LEMMA StepIsValues ==
  ASSUME IInv, RunInv, Reuse = FALSE, WriteShared = FALSE, [Next]_vars
  PROVE  V!Next \/ \A k \in Handle : Value(k)' = Value(k)
<1>1. CASE UNCHANGED vars
  BY <1>1 DEF vars, Value, Text, Cells
<1>2. ASSUME NEW h \in Handle, Calls(h)
      PROVE  V!Next \/ \A k \in Handle : Value(k)' = Value(k)
  <2>1. CASE \E s \in Literal : Assign(h, s)
    <3>1. PICK s \in Literal : Assign(h, s)
      BY <2>1
    <3>2. V!Set(h, s)
      BY <3>1, AssignValue
    <3> QED BY <3>2, Zenon DEF V!Assign, V!Next
  <2>2. CASE \E s \in Literal : AppendTest(h, s)
    BY <2>2, AppendTestValue, Zenon
  <2>3. CASE \E n \in 0 .. MaxLen : ChopTest(h, n)
    BY <2>3, ChopTestValue, Zenon
  <2>4. CASE \E pos \in 0 .. MaxLen, ch \in Char : SetChar(h, pos, ch)
    BY <2>4, SetCharValue, Zenon DEF V!Next
  <2>5. CASE Clear(h) \/ Renew(h)
    BY <2>5, ClearValue, Zenon DEF V!Next
  <2>6. CASE \E g \in Handle : Copy(h, g) \/ Move(h, g)
    BY <2>6, CopyValue, MoveValue, Zenon DEF V!Next
  <2>7. CASE \E g \in Handle : \E start \in 0 .. length[g], n \in 0 .. MaxLen :
                Substr(h, g, start, n)
    BY <2>7, SubstrValue, Zenon DEF V!Next
  <2> QED BY <1>2, <2>1, <2>2, <2>3, <2>4, <2>5, <2>6, <2>7, Zenon DEF Calls
<1>3. ASSUME NEW h \in Handle, Steps(h)
      PROVE  V!Next \/ \A k \in Handle : Value(k)' = Value(k)
  <2>1. V!Extend(h) \/ V!Chop(h) \/ \A k \in Handle : Value(k)' = Value(k)
    BY <1>3, ExtendValue, AllocValue, CopyOutValue, CutValue, Zenon DEF Steps
  <2> QED BY <2>1, Zenon DEF V!Next
<1> QED BY <1>1, <1>2, <1>3, Zenon DEF Next

(* For every number of strings, blocks and characters and every            *)
(* interleaving of the threads, the strings behave as independent values,  *)
(* each changed by its own operations only, when operator[] writes only to *)
(* strings without copies and copies and moves only build new strings: the *)
(* blocks they share cannot be noticed (ncstring.h).                       *)
THEOREM StringsAreValues ==
  ASSUME Reuse = FALSE, WriteShared = FALSE
  PROVE  Spec => ImplementsValues
<1>1. Init => RunInv /\ V!Init
  <2> SUFFICES ASSUME Init PROVE RunInv /\ V!Init
    OBVIOUS
  <2>1. RunInv
    BY DEF Init, RunInv
  <2>2. ASSUME NEW h \in Handle PROVE Value(h) = <<>>
    <3>1. memory[h] = NoBlock /\ length[h] = 0 /\ pc[h] = "idle"
      BY DEF Init
    <3>2. Value(h) = [i \in 1 .. 0 |-> IF i \in DOMAIN <<>> THEN <<>>[i] ELSE Junk]
      BY <3>1 DEF Value, Text, Cells
    <3> QED BY <3>2
  <2> QED BY <2>1, <2>2 DEF V!Init
<1>2. IInv /\ RunInv /\ [Next]_vars => RunInv'
  BY RunInvKept
<1>3. IInv /\ RunInv /\ [Next]_vars => [V!Next]_([h \in Handle |-> Value(h)])
  <2> SUFFICES ASSUME IInv, RunInv, [Next]_vars
               PROVE  [V!Next]_([h \in Handle |-> Value(h)])
    OBVIOUS
  <2>1. V!Next \/ \A k \in Handle : Value(k)' = Value(k)
    BY StepIsValues
  <2> HIDE DEF Next
  <2> QED BY <2>1
<1>4. Spec => []IInv
  BY Inductive
<1> QED BY <1>1, <1>2, <1>3, <1>4, PTL DEF Spec, ImplementsValues, V!Spec
===============================================================================
