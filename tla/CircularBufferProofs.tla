------------------------- MODULE CircularBufferProofs -------------------------
(***************************************************************************)
(* Proofs about CircularBuffer for every size of the ring, every set of    *)
(* elements and every set of requests.                                     *)
(***************************************************************************)
EXTENDS CircularBuffer, SequenceTheorems, TLAPS

\* The inductive invariant: the types and the accounting need each other,
\* because a counter stays in range only while the grant of the running call
\* bounds what its loop still has to copy.
IInv == TypeOK /\ Accounting

LEMMA LeastBounds ==
  ASSUME NEW a \in Nat, NEW b \in Nat
  PROVE  Least(a, b) \in Nat /\ Least(a, b) <= a /\ Least(a, b) <= b
BY DEF Least

\* A chunk is not empty while something remains, and stays inside the storage.
LEMMA ChunkBounds ==
  ASSUME TypeOK, NEW p \in Nat, p < Size, remain > 0
  PROVE  /\ Chunk(p) \in 1 .. remain
         /\ p + Chunk(p) <= Size
         /\ Advance(p, Chunk(p)) \in 0 .. Size - 1
BY SizeAssumption DEF TypeOK, Chunk, Least, Advance

\* Something remains only in a ring that has room for it.
LEMMA RemainBounds ==
  ASSUME IInv, remain > 0
  PROVE  Size > 0 /\ posRead < Size /\ posWrite < Size /\ pos < Size
BY SizeAssumption DEF IInv, TypeOK

LEMMA InitIInv == Init => IInv
<1> SUFFICES ASSUME Init PROVE IInv
  OBVIOUS
<1>1. TypeOK
  BY SizeAssumption DEF Init, TypeOK, NoCall, NoResult, Calls
<1>2. Accounting
  BY SizeAssumption
     DEF Init, Accounting, Granted, NoCall, Wrap, UnreadTake, UnwrittenPush
<1> QED BY <1>1, <1>2 DEF IInv

LEMMA NextIInv == IInv /\ [Next]_vars => IInv'
<1> SUFFICES ASSUME IInv, [Next]_vars PROVE IInv'
  OBVIOUS
<1> USE SizeAssumption
<1>1. ASSUME NEW x \in Inputs, Push(x) PROVE IInv'
  <2>1. x \in Seq(Data) /\ Len(x) \in Nat
    BY InputAssumption
  <2>2. call' \in Calls /\ out' \in Seq(Data) /\ result' \in [size : Nat, x : Seq(Data)]
    BY <1>1, <2>1 DEF Push, Enter, Calls, NoResult
  <2> DEFINE n == Least(Len(x), availWrite)
  <2>11. availWrite \in Nat
    BY DEF IInv, TypeOK
  <2>3. n \in Nat /\ n <= Len(x) /\ n <= availWrite
    BY <2>1, <2>11, LeastBounds
  <2>4. Least(Len(x), availWrite - n + n) = n
    BY <2>3 DEF IInv, TypeOK
  <2> HIDE DEF n
  <2>5. /\ availRead' = availRead + n /\ availWrite' = availWrite - n
        /\ size' = n /\ remain' = n /\ pos' = posRead
        /\ UNCHANGED <<buffer, posRead, posWrite>>
        /\ call.op = "none"
        /\ call' = [op |-> "push", x |-> x, size |-> Len(x)]
    BY <1>1 DEF Push, Enter, NoCall, n
  <2>12. availRead + n \in 0 .. Size /\ availWrite - n \in 0 .. Size /\ n \in 0 .. Size
    BY <2>3 DEF IInv, TypeOK, Accounting
  <2>6. TypeOK'
    BY <2>2, <2>12, <2>5 DEF IInv, TypeOK
  <2>7. Granted'
    BY <2>3, <2>4, <2>5 DEF IInv, TypeOK, Granted
  <2>8. /\ UnreadTake = 0 /\ UnwrittenPush = 0
        /\ UnreadTake' = 0 /\ UnwrittenPush' = n
    BY <2>5 DEF UnreadTake, UnwrittenPush
  <2>9. Accounting'
    BY <2>3, <2>5, <2>7, <2>8 DEF IInv, TypeOK, Accounting, Wrap
  <2> QED BY <2>6, <2>9 DEF IInv
<1>2. ASSUME NEW n \in Amounts, NEW op \in {"pop", "discard"}, Take(op, n)
      PROVE  IInv'
  <2>1. n \in Nat
    BY InputAssumption
  <2>2. call' \in Calls /\ out' \in Seq(Data) /\ result' \in [size : Nat, x : Seq(Data)]
    BY <1>2, <2>1 DEF Take, Enter, Calls, NoResult
  <2> DEFINE m == Least(n, availRead)
  <2>11. availRead \in Nat
    BY DEF IInv, TypeOK
  <2>3. m \in Nat /\ m <= n /\ m <= availRead
    BY <2>1, <2>11, LeastBounds
  <2>4. Least(n, availRead - m + m) = m
    BY <2>3 DEF IInv, TypeOK
  <2> HIDE DEF m
  <2>5. /\ availRead' = availRead - m /\ availWrite' = availWrite + m
        /\ size' = m /\ remain' = m /\ pos' = posRead
        /\ UNCHANGED <<buffer, posRead, posWrite>>
        /\ call.op = "none"
        /\ call' = [op |-> op, x |-> <<>>, size |-> n]
    BY <1>2 DEF Take, Enter, NoCall, m
  <2>12. availRead - m \in 0 .. Size /\ availWrite + m \in 0 .. Size /\ m \in 0 .. Size
    BY <2>3 DEF IInv, TypeOK, Accounting
  <2>6. TypeOK'
    BY <2>2, <2>12, <2>5 DEF IInv, TypeOK
  <2>7. Granted'
    BY <2>3, <2>4, <2>5 DEF IInv, TypeOK, Granted
  <2>8. /\ UnreadTake = 0 /\ UnwrittenPush = 0
        /\ UnreadTake' = m /\ UnwrittenPush' = 0
    BY <2>5 DEF UnreadTake, UnwrittenPush
  <2>9. Accounting'
    BY <2>3, <2>5, <2>7, <2>8 DEF IInv, TypeOK, Accounting, Wrap
  <2> QED BY <2>6, <2>9 DEF IInv
<1>3. ASSUME NEW n \in Amounts, Peek(n) PROVE IInv'
  <2>1. n \in Nat
    BY InputAssumption
  <2>2. call' \in Calls /\ out' \in Seq(Data) /\ result' \in [size : Nat, x : Seq(Data)]
    BY <1>3, <2>1 DEF Peek, Enter, Calls, NoResult
  <2>3. TypeOK'
    BY <1>3, <2>1, <2>2 DEF IInv, TypeOK, Peek, Enter, Least
  <2>4. Accounting'
    BY <1>3, <2>1 DEF IInv, TypeOK, Accounting, Granted, Peek, Enter, Least, NoCall,
                      Wrap, UnreadTake, UnwrittenPush
  <2> QED BY <2>3, <2>4 DEF IInv
<1>4. ASSUME doWrite PROVE IInv'
  <2> DEFINE sz == Chunk(posWrite)
  <2>1. /\ sz \in 1 .. remain
        /\ posWrite + sz <= Size
        /\ Advance(posWrite, sz) \in 0 .. Size - 1
    BY <1>4, RemainBounds, ChunkBounds DEF IInv, TypeOK, doWrite
  <2>2. ASSUME NEW i \in posWrite .. posWrite + sz - 1
        PROVE  call.x[size - remain + (i - posWrite) + 1] \in Data
    <3>1. size - remain + (i - posWrite) + 1 \in 1 .. Len(call.x)
      <4>6. call.x \in Seq(Data) /\ call.op = "push"
        BY <1>4 DEF IInv, TypeOK, doWrite, Calls
      <4>1. Len(call.x) \in Nat /\ size = Least(Len(call.x), availWrite + size)
        BY <4>6 DEF IInv, Accounting, Granted
      <4>2. size \in Nat /\ remain \in Nat /\ availWrite \in Nat /\ posWrite \in Nat
        BY DEF IInv, TypeOK
      <4>3. size <= Len(call.x)
        BY <4>1, <4>2 DEF Least
      <4>4. remain <= size
        BY DEF IInv, Accounting, Granted
      <4>5. sz \in Nat /\ sz <= remain
        BY <2>1, <4>2
      <4> HIDE DEF sz
      <4> QED BY <2>2, <4>1, <4>2, <4>3, <4>4, <4>5
    <3>2. call.x \in Seq(Data)
      BY DEF IInv, TypeOK, Calls
    <3> QED BY <3>1, <3>2
  <2>3. buffer' \in [Offset -> Data]
    BY <1>4, <2>2 DEF doWrite, IInv, TypeOK
  <2> HIDE DEF sz
  <2>4. /\ posWrite' = Advance(posWrite, sz) /\ remain' = remain - sz
        /\ UNCHANGED <<posRead, availRead, availWrite, call, size, pos, out, result>>
        /\ call.op = "push"
    BY <1>4 DEF doWrite, sz
  <2>11. remain \in 0 .. Size /\ remain - sz \in 0 .. remain
    BY <2>1 DEF IInv, TypeOK
  <2>5. TypeOK'
    BY <2>1, <2>3, <2>4, <2>11 DEF IInv, TypeOK
  <2>6. Granted'
    BY <2>4, <2>11 DEF IInv, TypeOK, Accounting, Granted
  <2>7. /\ UnreadTake = 0 /\ UnwrittenPush = remain
        /\ UnreadTake' = 0 /\ UnwrittenPush' = remain - sz
    BY <1>4, <2>4 DEF doWrite, UnreadTake, UnwrittenPush
  <2>8. remain <= availRead
    BY <1>4 DEF doWrite, IInv, TypeOK, Accounting, Granted
  <2>9. posRead' = posRead /\ availRead' = availRead /\ availWrite' = availWrite
    BY <1>4 DEF doWrite
  <2>10. Accounting'
    BY <2>1, <2>4, <2>6, <2>7, <2>8, <2>9
       DEF IInv, TypeOK, Accounting, Advance, Wrap
  <2> QED BY <2>5, <2>10 DEF IInv
<1>5. ASSUME NEW p \in {posRead, pos}, remain > 0
      PROVE  /\ Chunk(p) \in 1 .. remain
             /\ p + Chunk(p) <= Size
             /\ Advance(p, Chunk(p)) \in 0 .. Size - 1
             /\ Copied(p, Chunk(p)) \in Seq(Data)
  <2>1. p \in Nat /\ p < Size
    BY <1>5, RemainBounds DEF IInv, TypeOK
  <2>2. /\ Chunk(p) \in 1 .. remain
        /\ p + Chunk(p) <= Size
        /\ Advance(p, Chunk(p)) \in 0 .. Size - 1
    BY <1>5, <2>1, ChunkBounds DEF IInv
  <2>3. \A k \in 1 .. Chunk(p) : buffer[p + k - 1] \in Data
    BY <2>1, <2>2 DEF IInv, TypeOK, Offset
  <2>4. Chunk(p) \in Nat
    BY <2>2 DEF IInv, TypeOK
  <2> QED BY <2>2, <2>3, <2>4 DEF Copied
<1>6. ASSUME doReadPop \/ SkipDiscard PROVE IInv'
  <2> DEFINE sz == Chunk(posRead)
  <2>1. /\ sz \in 1 .. remain
        /\ posRead + sz <= Size
        /\ Advance(posRead, sz) \in 0 .. Size - 1
        /\ Copied(posRead, sz) \in Seq(Data)
    BY <1>5, <1>6 DEF doReadPop, SkipDiscard
  <2>2. out' \in Seq(Data)
    <3>1. out \in Seq(Data)
      BY DEF IInv, TypeOK
    <3>2. CASE doReadPop
      BY <2>1, <3>1, <3>2 DEF doReadPop
    <3>3. CASE SkipDiscard
      BY <3>1, <3>3 DEF SkipDiscard
    <3> QED BY <1>6, <3>2, <3>3
  <2> HIDE DEF sz
  <2>3. /\ posRead' = Advance(posRead, sz) /\ remain' = remain - sz
        /\ UNCHANGED <<buffer, posWrite, availRead, availWrite, call, size, pos, result>>
        /\ call.op \in {"pop", "discard"}
    BY <1>6 DEF doReadPop, SkipDiscard, sz
  <2>10. remain \in 0 .. Size /\ remain - sz \in 0 .. remain
    BY <2>1 DEF IInv, TypeOK
  <2>4. TypeOK'
    BY <2>1, <2>2, <2>3, <2>10 DEF IInv, TypeOK
  <2>5. Granted'
    BY <2>3, <2>10 DEF IInv, TypeOK, Accounting, Granted
  <2>6. /\ UnreadTake = remain /\ UnwrittenPush = 0
        /\ UnreadTake' = remain - sz /\ UnwrittenPush' = 0
    BY <1>6, <2>3 DEF doReadPop, SkipDiscard, UnreadTake, UnwrittenPush
  <2>7. remain <= availWrite
    BY <1>6 DEF doReadPop, SkipDiscard, IInv, TypeOK, Accounting, Granted
  <2>8. posWrite' = posWrite /\ availRead' = availRead /\ availWrite' = availWrite
    BY <1>6 DEF doReadPop, SkipDiscard
  <2>9. Accounting'
    BY <2>1, <2>3, <2>5, <2>6, <2>7, <2>8
       DEF IInv, TypeOK, Accounting, Advance, Wrap
  <2> QED BY <2>4, <2>9 DEF IInv
<1>7. ASSUME doReadPeek PROVE IInv'
  <2> DEFINE sz == Chunk(pos)
  <2>1. /\ sz \in 1 .. remain
        /\ Advance(pos, sz) \in 0 .. Size - 1
        /\ Copied(pos, sz) \in Seq(Data)
    BY <1>5, <1>7 DEF doReadPeek
  <2>2. out' \in Seq(Data)
    BY <1>7, <2>1 DEF doReadPeek, IInv, TypeOK
  <2> HIDE DEF sz
  <2>3. pos' = Advance(pos, sz) /\ remain' = remain - sz
    BY <1>7 DEF doReadPeek, sz
  <2>4. TypeOK'
    BY <1>7, <2>1, <2>2, <2>3 DEF doReadPeek, object, IInv, TypeOK
  <2>5. Granted'
    BY <1>7, <2>1, <2>3 DEF doReadPeek, object, IInv, TypeOK, Accounting, Granted
  <2>6. Accounting'
    BY <1>7, <2>5 DEF doReadPeek, object, IInv, Accounting, Wrap, UnreadTake, UnwrittenPush
  <2> QED BY <2>4, <2>6 DEF IInv
<1>8. ASSUME Return PROVE IInv'
  <2>1. call' \in Calls /\ result' \in [size : Nat, x : Seq(Data)]
    BY <1>8 DEF Return, NoCall, Calls, IInv, TypeOK
  <2>2. TypeOK'
    BY <1>8, <2>1 DEF Return, object, IInv, TypeOK
  <2>3. Accounting'
    BY <1>8 DEF Return, object, NoCall, IInv, TypeOK, Accounting, Granted,
                Wrap, UnreadTake, UnwrittenPush
  <2> QED BY <2>2, <2>3 DEF IInv
<1>9. CASE UNCHANGED vars
  BY <1>9 DEF vars, IInv, TypeOK, Accounting, Granted, Wrap, UnreadTake, UnwrittenPush
<1> QED
  BY <1>1, <1>2, <1>3, <1>4, <1>6, <1>7, <1>8, <1>9 DEF Next, Begin, Run, Pop, Discard

(* At every step, the middle of a call included, every field of the ring   *)
(* has its type and the counters and the positions agree (push, pop,       *)
(* discard and peek of bf/buffers.h).                                      *)
THEOREM InductiveInvariant == Spec => []IInv
BY InitIInv, NextIInv, PTL DEF Spec

(* The fields keep their types: no position ever runs past the storage.    *)
THEOREM TypeCorrect == Spec => []TypeOK
<1>1. IInv => TypeOK
  BY DEF IInv
<1> QED BY <1>1, InductiveInvariant, PTL

(* The counters add up to the size and agree with the positions.           *)
THEOREM AccountingCorrect == Spec => []Accounting
<1>1. IInv => Accounting
  BY DEF IInv
<1> QED BY <1>1, InductiveInvariant, PTL

\* A chunk of doWrite stays clear of the elements that are stored and unread.
LEMMA WriteIsClear ==
  ASSUME IInv, doWrite, NEW i \in Live
  PROVE  buffer'[i] = buffer[i]
<1> USE SizeAssumption
<1> DEFINE sz     == Chunk(posWrite)
           stored == availRead - remain
<1>1. /\ sz \in 1 .. remain
      /\ posWrite + sz <= Size
      /\ Size > 0 /\ posRead < Size /\ posWrite < Size
  BY RemainBounds, ChunkBounds DEF IInv, TypeOK, doWrite
<1>2. UnreadTake = 0 /\ UnwrittenPush = remain
  BY DEF doWrite, UnreadTake, UnwrittenPush
<1>3. /\ posRead \in Nat /\ posWrite \in Nat /\ remain \in Nat
      /\ availRead \in 0 .. Size
  BY DEF IInv, TypeOK
<1>4. remain <= availRead /\ posWrite = Wrap(posRead + stored)
  <2>1. remain <= size /\ size <= availRead /\ size \in Nat
    BY DEF IInv, TypeOK, Accounting, Granted, doWrite
  <2>2. posWrite = Wrap(posRead + availRead + 0 - remain)
    BY <1>2 DEF IInv, Accounting
  <2>3. posRead + availRead + 0 - remain = posRead + stored
    BY <1>3
  <2> QED BY <1>3, <2>1, <2>2, <2>3
<1>5. PICK k \in 0 .. stored - 1 : i = Wrap(posRead + k)
  <2>1. availRead + 0 - remain - 1 = stored - 1
    BY <1>3
  <2> QED BY <1>2, <2>1 DEF Live
<1> HIDE DEF sz, stored
<1>6. stored \in Nat /\ stored + remain <= Size
  BY <1>3, <1>4 DEF stored
<1>7. i \in Offset
  BY <1>1, <1>3, <1>5, <1>6 DEF Wrap, Offset
<1>8. i \notin posWrite .. posWrite + sz - 1
  BY <1>1, <1>3, <1>4, <1>5, <1>6 DEF Wrap
<1>9. buffer' = [j \in Offset |->
                  IF j \in posWrite .. posWrite + sz - 1
                  THEN call.x[size - remain + (j - posWrite) + 1]
                  ELSE buffer[j]]
  BY DEF doWrite, sz
<1> QED BY <1>7, <1>8, <1>9

(* No step of any call overwrites an element that was pushed and not yet   *)
(* read, whatever the size of the ring and of the requests (push and       *)
(* doWrite of bf/buffers.h).                                               *)
THEOREM UnreadIsNeverOverwritten == Spec => UnreadIsKept
<1>1. IInv /\ [Next]_vars => [\A i \in Live : buffer'[i] = buffer[i]]_vars
  <2> SUFFICES ASSUME IInv, Next, NEW i \in Live PROVE buffer'[i] = buffer[i]
    OBVIOUS
  <2>1. CASE doWrite
    BY <2>1, WriteIsClear
  <2>2. CASE Begin
    BY <2>2 DEF Begin, Push, Pop, Discard, Take, Peek, Enter
  <2>3. CASE doReadPop \/ SkipDiscard \/ doReadPeek \/ Return
    BY <2>3 DEF doReadPop, SkipDiscard, doReadPeek, Return, object
  <2> QED BY <2>1, <2>2, <2>3 DEF Next, Run
<1> QED BY <1>1, InductiveInvariant, PTL DEF Spec, UnreadIsKept

-------------------------------------------------------------------------------
(* The ring implements the bounded queue.                                  *)

\* What a loop has done so far: a push has written the first elements of its
\* argument behind the contents, a pop or a peek has copied the first of the
\* contents, and the cursor of a peek is where its next chunk begins.
Done == size - remain
Progress ==
  /\ call = NoCall \/ call \in Q!PushCalls \cup Q!ReadCalls
  /\ call.op \notin {"pop", "peek"} => out = <<>>
  /\ call.op \in {"pop", "peek"} =>
       /\ Len(out) = Done
       /\ \A k \in 1 .. Done : out[k] = buffer[Wrap(First + k - 1)]
  /\ call.op = "peek" => pos = Wrap(posRead + Done)
  /\ call.op = "push" =>
       \A k \in 1 .. Done : buffer[Wrap(posRead + (availRead - size) + k - 1)] = call.x[k]

\* Arithmetic on the ring.
LEMMA WrapInRange ==
  ASSUME NEW p \in Nat, NEW k \in Nat, p < Size, k <= Size
  PROVE  Wrap(p + k) \in 0 .. Size - 1
BY SizeAssumption DEF Wrap

LEMMA WrapAgain ==
  ASSUME NEW p \in Nat, NEW j \in Nat, NEW k \in Nat, p < Size, j + k <= Size
  PROVE  Wrap(Wrap(p + j) + k) = Wrap(p + j + k)
BY SizeAssumption DEF Wrap

LEMMA AdvanceIsWrap ==
  ASSUME NEW p \in Nat, NEW n \in Nat, p < Size, p + n <= Size
  PROVE  Advance(p, n) = Wrap(p + n) /\ \A k \in 0 .. n - 1 : Wrap(p + k) = p + k
BY SizeAssumption DEF Wrap, Advance

LEMMA StateFacts ==
  ASSUME IInv
  PROVE  /\ posRead \in Nat /\ availRead \in Nat /\ availWrite \in Nat /\ size \in Nat
         /\ remain \in Nat /\ remain <= size /\ Done \in Nat
         /\ availRead + availWrite = Size /\ size <= Size
         /\ Taken \in 0 .. Size
         /\ Size > 0 => posRead < Size
         /\ call.op \in {"none", "push", "pop", "discard", "peek"}
BY SizeAssumption DEF IInv, TypeOK, Accounting, Granted, Calls, Done, Taken

LEMMA FirstFacts ==
  ASSUME IInv, Size > 0
  PROVE  First \in 0 .. Size - 1 /\ Wrap(First + Taken) = posRead
BY SizeAssumption, StateFacts DEF First, Wrap

LEMMA CountFacts ==
  ASSUME IInv
  PROVE  /\ Count \in 0 .. Size
         /\ call.op = "push" => Count = availRead - size
         /\ call.op \in {"pop", "discard"} => Count = availRead + size
         /\ call.op \in {"none", "peek"} => Count = availRead /\ First = posRead
         /\ call.op = "push" => First = posRead
         /\ size <= Count \/ call.op = "push"
<1>1. CASE call.op = "push"
  BY <1>1, StateFacts, SizeAssumption DEF Count, First, Taken, IInv, Accounting, Granted
<1>2. CASE call.op \in {"pop", "discard"}
  BY <1>2, StateFacts, SizeAssumption DEF Count, First, Taken, IInv, Accounting, Granted
<1>3. CASE call.op \in {"none", "peek"}
  <2>1. call.size \in Nat
    BY DEF IInv, TypeOK, Calls
  <2>2. size <= availRead
    BY <1>3, <2>1, StateFacts DEF IInv, Accounting, Granted, Least
  <2>3. Count = availRead /\ Taken = 0
    BY <1>3 DEF Count, Taken
  <2> QED BY <1>3, <2>2, <2>3, StateFacts DEF First
<1> QED BY <1>1, <1>2, <1>3, StateFacts

LEMMA ContentsFacts ==
  ASSUME IInv
  PROVE  Contents \in Seq(Data) /\ Len(Contents) = Count
<1>1. CASE Size = 0
  <2>1. Count = 0
    BY <1>1, CountFacts
  <2> QED BY <2>1 DEF Contents
<1>2. CASE Size > 0
  <2>1. \A k \in 1 .. Count : Wrap(First + k - 1) \in Offset
    BY <1>2, CountFacts, FirstFacts, SizeAssumption DEF Wrap, Offset
  <2>2. buffer \in [Offset -> Data]
    BY DEF IInv, TypeOK
  <2>3. Count \in Nat
    BY CountFacts, SizeAssumption
  <2>4. Contents \in [1 .. Count -> Data]
    BY <2>1, <2>2 DEF Contents
  <2> QED BY <2>3, <2>4, SeqDef, LenProperties
<1> QED BY <1>1, <1>2, SizeAssumption

LEMMA InitProgress == Init => Progress
BY DEF Init, Progress, NoCall

\* A call that has just begun has done nothing.
LEMMA BegunProgress ==
  ASSUME IInv', NEW n \in Nat, size' = n, remain' = n, out' = <<>>, pos' = posRead',
         call' \in Q!PushCalls \cup Q!ReadCalls
  PROVE  Progress'
<1>1. size' \in Nat /\ posRead' \in Nat /\ (Size > 0 => posRead' < Size) /\ (Size = 0 => posRead' = 0)
  BY SizeAssumption DEF IInv, TypeOK
<1>2. Done' = 0
  BY DEF Done
<1>3. Len(<<>>) = 0
  BY EmptySeq
<1>4. Wrap(posRead' + 0) = posRead'
  <2> SUFFICES ASSUME NEW q \in Nat, Size > 0 => q < Size, Size = 0 => q = 0
               PROVE  Wrap(q + 0) = q
    BY <1>1
  <2> QED BY SizeAssumption DEF Wrap
<1> QED BY <1>2, <1>3, <1>4 DEF Progress, Wrap

\* One chunk of a read loop: the elements copied from position p, where the
\* next of the contents are, follow those already in out.
LEMMA CopiedFollows ==
  ASSUME IInv, Progress, remain > 0, call.op \in {"pop", "peek"},
         NEW p \in {posRead, pos}, p = Wrap(First + Done), Done + remain <= Size
  PROVE  LET sz == Chunk(p)
             o  == out \o Copied(p, sz)
         IN  /\ Len(o) = Done + sz
             /\ \A k \in 1 .. Done + sz : o[k] = buffer[Wrap(First + k - 1)]
<1> DEFINE sz == Chunk(p)
           o  == out \o Copied(p, sz)
           d  == Done
<1>1. p \in Nat /\ p < Size /\ Size > 0
  BY RemainBounds DEF IInv, TypeOK
<1>2. sz \in 1 .. remain /\ p + sz <= Size
  BY <1>1, ChunkBounds DEF IInv
<1>3. d \in Nat /\ First \in 0 .. Size - 1 /\ remain \in Nat /\ d + remain <= Size
  BY <1>1, StateFacts, FirstFacts
<1>4. out \in Seq(Data) /\ Len(out) = d /\ \A k \in 1 .. d : out[k] = buffer[Wrap(First + k - 1)]
  BY DEF Progress, IInv, TypeOK
<1> HIDE DEF sz, d
<1>5. Copied(p, sz) \in Seq(Data) /\ Len(Copied(p, sz)) = sz
      /\ \A k \in 1 .. sz : Copied(p, sz)[k] = buffer[p + k - 1]
  <2>1. sz \in Nat
    BY <1>2, <1>3
  <2>2. \A k \in 1 .. sz : buffer[p + k - 1] \in Data
    BY <1>1, <1>2, SizeAssumption DEF IInv, TypeOK, Offset
  <2>3. Copied(p, sz) \in [1 .. sz -> Data]
    BY <2>2 DEF Copied
  <2>4. Copied(p, sz) \in Seq(Data)
    BY <2>1, <2>3, SeqDef
  <2> QED BY <2>1, <2>3, <2>4, LenProperties DEF Copied
<1>6. /\ Len(o) = d + sz
      /\ \A k \in 1 .. d + sz : o[k] = IF k <= d THEN out[k] ELSE Copied(p, sz)[k - d]
  BY <1>4, <1>5, ConcatProperties
<1> HIDE DEF o
<1>7. ASSUME NEW k \in 1 .. d + sz
      PROVE  o[k] = buffer[Wrap(First + k - 1)]
  <2>1. CASE k <= d
    <3>1. k \in 1 .. d
      BY <1>2, <1>3, <2>1
    <3> QED BY <1>4, <1>6, <2>1, <3>1
  <2>2. CASE ~(k <= d)
    <3> DEFINE j == k - d - 1
    <3>1. j \in 0 .. sz - 1 /\ k - d \in 1 .. sz /\ First + k - 1 = First + d + j /\ d + j <= Size
          /\ j \in Nat /\ sz \in Nat /\ p + (k - d) - 1 = p + j
      BY <1>1, <1>2, <1>3, <2>2, SizeAssumption
    <3> HIDE DEF j
    <3>2. o[k] = buffer[p + j]
      BY <1>5, <1>6, <2>2, <3>1
    <3>3. Wrap(p + j) = p + j
      BY <1>1, <1>2, <3>1, AdvanceIsWrap
    <3>4. Wrap(p + j) = Wrap(First + d + j)
      <4>1. First \in Nat /\ First < Size /\ d \in Nat /\ j \in Nat /\ d + j <= Size
        BY <1>3, <3>1, SizeAssumption
      <4>2. Wrap(Wrap(First + d) + j) = Wrap(First + d + j)
        BY <4>1, WrapAgain
      <4>3. p = Wrap(First + d)
        BY DEF d
      <4> QED BY <4>2, <4>3
    <3> QED BY <3>1, <3>2, <3>3, <3>4
  <2> QED BY <2>1, <2>2
<1> QED BY <1>6, <1>7 DEF d, sz, o

\* The first element of the contents stays where it is while a pop or a
\* discard moves the read position over n elements.
LEMMA FirstStays ==
  ASSUME IInv, Size > 0, NEW n \in Nat, posRead' = Wrap(posRead + n), Taken' = Taken + n,
         Taken + n <= Size
  PROVE  First' = First
<1>1. posRead \in Nat /\ posRead < Size /\ Taken \in Nat /\ n <= Size
  BY StateFacts
<1>2. posRead' = IF posRead + n >= Size THEN posRead + n - Size ELSE posRead + n
  BY <1>1, SizeAssumption DEF Wrap
<1>3. First' = IF posRead' >= Taken + n THEN posRead' - (Taken + n)
                                        ELSE posRead' + Size - (Taken + n)
  BY DEF First
<1> HIDE DEF Taken
<1> QED BY <1>1, <1>2, <1>3, SizeAssumption DEF First

LEMMA BeginProgress ==
  ASSUME IInv, IInv', Begin
  PROVE  Progress'
<1>1. ASSUME NEW x \in Inputs, Push(x) PROVE Progress'
  <2>1. x \in Seq(Data) /\ Len(x) \in Nat /\ availWrite \in Nat
    BY InputAssumption, StateFacts
  <2>2. Least(Len(x), availWrite) \in Nat
    BY <2>1, LeastBounds
  <2>3. call' \in Q!PushCalls
    BY <1>1 DEF Push, Enter, Q!PushCalls
  <2> QED BY <1>1, <2>2, <2>3, BegunProgress DEF Push, Enter
<1>2. ASSUME NEW n \in Amounts, NEW op \in {"pop", "discard", "peek"},
             Enter(op, <<>>, n, Least(n, availRead))
      PROVE  Progress'
  <2>1. Least(n, availRead) \in Nat
    BY InputAssumption, StateFacts, LeastBounds
  <2>2. call' \in Q!ReadCalls
    BY <1>2 DEF Enter, Q!ReadCalls
  <2> QED BY <1>2, <2>1, <2>2, BegunProgress DEF Enter
<1> QED BY <1>1, <1>2 DEF Begin, Pop, Discard, Take, Peek

LEMMA WriteProgress ==
  ASSUME IInv, Progress, doWrite
  PROVE  Progress'
<1> DEFINE sz == Chunk(posWrite)
           d  == Done
           w  == availRead - size
<1>1. /\ posWrite \in Nat /\ posWrite < Size /\ Size > 0 /\ remain > 0 /\ call.op = "push"
      /\ Size \in Nat
  BY RemainBounds, SizeAssumption DEF IInv, TypeOK, doWrite
<1>2. sz \in 1 .. remain /\ posWrite + sz <= Size
  BY <1>1, ChunkBounds DEF IInv
<1>3. /\ posRead \in Nat /\ posRead < Size /\ size \in Nat /\ remain \in Nat /\ d \in Nat /\ w \in Nat
      /\ d = size - remain /\ w + size <= Size /\ remain <= size /\ w = availRead - size
      /\ sz \in Nat /\ availRead \in Nat
  <2>1. size <= availRead
    BY <1>1 DEF IInv, Accounting, Granted
  <2> QED BY <1>1, <1>2, <2>1, StateFacts DEF Done
<1>4. /\ posRead' = posRead /\ availRead' = availRead /\ size' = size /\ call' = call
      /\ remain' = remain - sz /\ out' = out
  BY DEF doWrite
<1>5. buffer' = [i \in Offset |->
                  IF i \in posWrite .. posWrite + sz - 1
                  THEN call.x[size - remain + (i - posWrite) + 1]
                  ELSE buffer[i]]
  BY DEF doWrite
<1>6. posWrite = Wrap(posRead + (w + d))
  <2>1. posWrite = Wrap(posRead + availRead + 0 - remain)
    BY <1>1 DEF IInv, Accounting, UnreadTake, UnwrittenPush
  <2>2. posRead + availRead + 0 - remain = posRead + (w + d)
    BY <1>3
  <2> QED BY <2>1, <2>2
<1>7. \A k \in 1 .. d : buffer[Wrap(posRead + w + k - 1)] = call.x[k]
  BY <1>1 DEF Progress
<1>8. Done' = d + sz
  BY <1>3, <1>4 DEF Done
<1> HIDE DEF sz, d, w
<1>9. ASSUME NEW k \in 1 .. d + sz
      PROVE  buffer'[Wrap(posRead + w + k - 1)] = call.x[k]
  <2>1. CASE k <= d
    <3>1. Wrap(posRead + w + k - 1) \in Live
      <4>1. w + k - 1 \in 0 .. availRead + UnreadTake - UnwrittenPush - 1
        <5>1. UnreadTake = 0 /\ UnwrittenPush = remain
          BY <1>1 DEF UnreadTake, UnwrittenPush
        <5> QED BY <1>3, <2>1, <5>1
      <4>2. posRead + (w + k - 1) = posRead + w + k - 1
        BY <1>3
      <4> QED BY <4>1, <4>2 DEF Live
    <3>2. k \in 1 .. d
      BY <1>3, <2>1
    <3> QED BY <1>7, <3>1, <3>2, WriteIsClear
  <2>2. CASE ~(k <= d)
    <3> DEFINE j == k - d - 1
    <3>1. /\ j \in 0 .. sz - 1 /\ j \in Nat /\ w + d + j <= Size /\ w + d \in Nat
          /\ posRead + w + k - 1 = posRead + (w + d) + j /\ size - remain + j + 1 = k
      <4>1. k \in Nat /\ k <= d + sz /\ k > d /\ sz <= remain
        BY <1>2, <1>3, <2>2
      <4>2. j \in Nat /\ j = k - d - 1
        BY <1>3, <4>1
      <4> HIDE DEF j
      <4>3. j <= sz - 1 /\ j \in 0 .. sz - 1
        BY <1>3, <4>1, <4>2
      <4>4. w + d + j <= Size
        BY <1>1, <1>3, <4>1, <4>2
      <4>5. posRead + w + k - 1 = posRead + (w + d) + j
        BY <1>3, <4>1, <4>2
      <4>6. size - remain + j + 1 = k
        BY <1>3, <4>1, <4>2
      <4> QED BY <1>3, <4>2, <4>3, <4>4, <4>5, <4>6
    <3> HIDE DEF j
    <3>2. Wrap(Wrap(posRead + (w + d)) + j) = Wrap(posRead + (w + d) + j)
      <4> DEFINE e == w + d
      <4>1. e \in Nat /\ e + j <= Size /\ posRead \in Nat /\ posRead < Size /\ j \in Nat
        BY <1>3, <3>1
      <4> HIDE DEF e
      <4>2. Wrap(Wrap(posRead + e) + j) = Wrap(posRead + e + j)
        BY <4>1, WrapAgain
      <4> QED BY <4>2 DEF e
    <3>3. Wrap(posWrite + j) = posWrite + j
      BY <1>1, <1>2, <1>3, <3>1, AdvanceIsWrap
    <3>4. Wrap(posRead + w + k - 1) = posWrite + j
      BY <1>6, <3>1, <3>2, <3>3
    <3>5. posWrite + j \in Offset /\ posWrite + j \in posWrite .. posWrite + sz - 1
          /\ size - remain + ((posWrite + j) - posWrite) + 1 = k
      BY <1>1, <1>2, <1>3, <3>1 DEF Offset
    <3>6. buffer'[posWrite + j] = call.x[size - remain + ((posWrite + j) - posWrite) + 1]
      <4> DEFINE i == posWrite + j
      <4>1. i \in Offset /\ i \in posWrite .. posWrite + sz - 1
        BY <3>5
      <4> HIDE DEF i
      <4>2. buffer'[i] = call.x[size - remain + (i - posWrite) + 1]
        BY <1>5, <4>1
      <4> QED BY <4>2 DEF i
    <3> QED BY <3>4, <3>5, <3>6
  <2> QED BY <2>1, <2>2
<1>10. call'.op = "push" => \A k \in 1 .. Done' :
          buffer'[Wrap(posRead' + (availRead' - size') + k - 1)] = call'.x[k]
  BY <1>3, <1>4, <1>8, <1>9
<1> QED BY <1>1, <1>4, <1>10 DEF Progress

LEMMA PopProgress ==
  ASSUME IInv, Progress, doReadPop \/ SkipDiscard
  PROVE  Progress' /\ First' = First
<1> DEFINE sz == Chunk(posRead)
           d  == Done
<1>1. /\ posRead \in Nat /\ posRead < Size /\ Size > 0 /\ remain > 0 /\ call.op \in {"pop", "discard"}
      /\ Size \in Nat
  BY RemainBounds, SizeAssumption DEF IInv, TypeOK, doReadPop, SkipDiscard
<1>2. sz \in 1 .. remain /\ posRead + sz <= Size
  BY <1>1, ChunkBounds DEF IInv
<1>3. /\ size \in Nat /\ remain \in Nat /\ d \in Nat /\ d = size - remain /\ size <= Size
      /\ sz \in Nat /\ d + sz <= Size /\ d + remain <= Size
  BY <1>1, <1>2, StateFacts DEF Done
<1>4. /\ posRead' = Wrap(posRead + sz) /\ size' = size /\ call' = call
      /\ remain' = remain - sz /\ buffer' = buffer
  BY <1>1, <1>2, <1>3, AdvanceIsWrap DEF doReadPop, SkipDiscard
<1>5. Taken = d /\ Taken' = d + sz /\ Done' = d + sz
  BY <1>1, <1>3, <1>4 DEF Taken, Done
<1>6. First' = First
  BY <1>1, <1>3, <1>4, <1>5, FirstStays
<1>7. CASE SkipDiscard
  BY <1>1, <1>4, <1>6, <1>7 DEF Progress, SkipDiscard
<1>8. CASE doReadPop
  <2>1. posRead = Wrap(First + Done) /\ call.op = "pop"
    BY <1>1, <1>5, <1>8, FirstFacts DEF doReadPop
  <2>2. out' = out \o Copied(posRead, sz)
    BY <1>8 DEF doReadPop
  <2>3. /\ Len(out') = d + sz
        /\ \A k \in 1 .. d + sz : out'[k] = buffer[Wrap(First + k - 1)]
    BY <1>1, <1>3, <2>1, <2>2, CopiedFollows
  <2> QED BY <1>4, <1>5, <1>6, <2>1, <2>3 DEF Progress
<1> QED BY <1>6, <1>7, <1>8

LEMMA PeekProgress ==
  ASSUME IInv, Progress, doReadPeek
  PROVE  Progress'
<1> DEFINE sz == Chunk(pos)
           d  == Done
<1>1. /\ pos \in Nat /\ pos < Size /\ Size > 0 /\ remain > 0 /\ call.op = "peek"
      /\ Size \in Nat /\ posRead \in Nat /\ posRead < Size
  BY RemainBounds, SizeAssumption DEF IInv, TypeOK, doReadPeek
<1>2. sz \in 1 .. remain /\ pos + sz <= Size
  BY <1>1, ChunkBounds DEF IInv
<1>3. /\ size \in Nat /\ remain \in Nat /\ d \in Nat /\ d = size - remain /\ size <= Size
      /\ sz \in Nat /\ d + sz <= Size /\ d + remain <= Size
  BY <1>1, <1>2, StateFacts DEF Done
<1>4. /\ posRead' = posRead /\ size' = size /\ call' = call
      /\ remain' = remain - sz /\ buffer' = buffer
      /\ pos' = Wrap(pos + sz) /\ out' = out \o Copied(pos, sz)
  BY <1>1, <1>2, <1>3, AdvanceIsWrap DEF doReadPeek, object
<1>5. Taken = 0 /\ Taken' = 0 /\ Done' = d + sz /\ First = posRead /\ First' = posRead
  <2>1. Taken = 0 /\ Taken' = 0
    BY <1>1, <1>4 DEF Taken
  <2> QED BY <1>1, <1>3, <1>4, <2>1 DEF First, Done
<1>6. pos = Wrap(First + Done)
  BY <1>1, <1>5 DEF Progress
<1>7. /\ Len(out') = d + sz
      /\ \A k \in 1 .. d + sz : out'[k] = buffer[Wrap(First + k - 1)]
  BY <1>1, <1>3, <1>4, <1>6, CopiedFollows
<1>8. pos' = Wrap(posRead + (d + sz))
  <2>1. Wrap(Wrap(posRead + d) + sz) = Wrap(posRead + d + sz)
    BY <1>1, <1>3, WrapAgain
  <2>2. posRead + d + sz = posRead + (d + sz)
    BY <1>1, <1>3
  <2> QED BY <1>4, <1>5, <1>6, <2>1, <2>2
<1> QED BY <1>1, <1>4, <1>5, <1>7, <1>8 DEF Progress

LEMMA NextProgress == IInv /\ IInv' /\ Progress /\ [Next]_vars => Progress'
<1> SUFFICES ASSUME IInv, IInv', Progress, [Next]_vars PROVE Progress'
  OBVIOUS
<1>1. CASE Return
  BY <1>1 DEF Return, NoCall, Progress
<1>2. CASE UNCHANGED vars
  BY <1>2 DEF vars, Progress, Done, First, Taken, Wrap
<1> QED BY <1>1, <1>2, BeginProgress, WriteProgress, PopProgress, PeekProgress
           DEF Next, Run

LEMMA ContentsType == IInv => Contents \in Seq(Data) /\ Len(Contents) = Count
BY ContentsFacts

\* The contents are those of the state before when they are the same
\* elements at the same offsets.
LEMMA SameContents ==
  ASSUME Count' = Count, First' = First,
         \A k \in 1 .. Count : buffer'[Wrap(First + k - 1)] = buffer[Wrap(First + k - 1)]
  PROVE  Contents' = Contents
BY DEF Contents, Wrap

\* Entering a call invokes it: its counters move, the contents do not.
LEMMA BeginInvokes ==
  ASSUME IInv, IInv', Progress', Begin
  PROVE  Q!Invoke
<1>1. call = NoCall /\ call.op = "none"
  BY DEF Begin, Push, Pop, Discard, Take, Peek, Enter, NoCall
<1>2. call'.op # "none"
  BY DEF Begin, Push, Pop, Discard, Take, Peek, Enter
<1>3. call' \in Q!PushCalls \cup Q!ReadCalls
  BY <1>2 DEF Progress, NoCall
<1>4. result' = NoResult /\ buffer' = buffer /\ posRead' = posRead /\ size' = remain'
  BY DEF Begin, Push, Pop, Discard, Take, Peek, Enter
<1>5. Count = availRead /\ First = posRead
  BY <1>1, CountFacts
<1>6. size' \in Nat
  BY SizeAssumption DEF IInv, TypeOK
<1>7. Taken' = 0
  <2>1. \A n \in Nat : n - n = 0
    OBVIOUS
  <2>2. size' - size' = 0
    BY <1>6, <2>1
  <2> QED BY <1>4, <2>2 DEF Taken
<1>8. First' = First
  BY <1>4, <1>5, <1>7, StateFacts DEF First
<1>9. Count' = Count
  <2>1. ASSUME NEW x \in Inputs, Push(x) PROVE Count' = availRead
    <3>1. Least(Len(x), availWrite) \in Nat
      BY InputAssumption, StateFacts, LeastBounds
    <3> DEFINE n == Least(Len(x), availWrite)
    <3>2. call'.op = "push" /\ size' = n /\ availRead' = availRead + n
      BY <2>1 DEF Push, Enter
    <3>3. Count' = availRead' - size'
      BY <3>2 DEF Count
    <3> HIDE DEF n
    <3> QED BY <3>1, <3>2, <3>3, StateFacts DEF n
  <2>2. ASSUME NEW m \in Amounts, NEW op \in {"pop", "discard"}, Take(op, m) PROVE Count' = availRead
    <3>1. Least(m, availRead) \in Nat
      BY InputAssumption, StateFacts, LeastBounds
    <3> DEFINE n == Least(m, availRead)
    <3>2. call'.op \in {"pop", "discard"} /\ size' = n /\ availRead' = availRead - n
      BY <2>2 DEF Take, Enter
    <3>3. Count' = availRead' + size'
      BY <3>2 DEF Count
    <3> HIDE DEF n
    <3> QED BY <3>1, <3>2, <3>3, StateFacts DEF n
  <2>3. ASSUME NEW m \in Amounts, Peek(m) PROVE Count' = availRead
    BY <2>3 DEF Peek, Enter, Count
  <2> QED BY <1>5, <2>1, <2>2, <2>3 DEF Begin, Pop, Discard
<1>10. Contents' = Contents
  BY <1>4, <1>8, <1>9, SameContents
<1> QED BY <1>1, <1>3, <1>4, <1>10 DEF Q!Invoke, Q!NoCall, Q!NoResult, NoCall, NoResult

\* A turn of a loop changes nothing the queue shows.
LEMMA LoopsStutter ==
  ASSUME IInv, Progress, doWrite \/ doReadPop \/ SkipDiscard \/ doReadPeek
  PROVE  UNCHANGED Q!vars
<1>1. call' = call /\ result' = result /\ size' = size /\ availRead' = availRead
  BY DEF doWrite, doReadPop, SkipDiscard, doReadPeek, object
<1>2. Count' = Count
  BY <1>1 DEF Count
<1>3. CASE doWrite
  <2>1. call.op = "push" /\ call'.op = "push" /\ posRead' = posRead
    BY <1>3 DEF doWrite
  <2>2. Count = availRead - size /\ First = posRead
    BY <2>1, CountFacts
  <2>3. First' = First
    BY <2>1, <2>2, StateFacts DEF First, Taken
  <2>4. ASSUME NEW k \in 1 .. Count
        PROVE  buffer'[Wrap(First + k - 1)] = buffer[Wrap(First + k - 1)]
    <3>1. k - 1 \in 0 .. availRead + UnreadTake - UnwrittenPush - 1
      <4>1. UnreadTake = 0 /\ UnwrittenPush = remain
        BY <2>1 DEF UnreadTake, UnwrittenPush
      <4> QED BY <2>2, <4>1, StateFacts
    <3>2. First + k - 1 = posRead + (k - 1)
      BY <2>2, StateFacts
    <3>3. Wrap(First + k - 1) \in Live
      BY <3>1, <3>2 DEF Live
    <3> QED BY <1>3, <3>3, WriteIsClear
  <2> QED BY <1>1, <1>2, <2>3, <2>4, SameContents DEF Q!vars
<1>4. CASE doReadPop \/ SkipDiscard
  <2>1. buffer' = buffer
    BY <1>4 DEF doReadPop, SkipDiscard
  <2> QED BY <1>1, <1>2, <1>4, <2>1, PopProgress, SameContents DEF Q!vars
<1>5. CASE doReadPeek
  <2>1. buffer' = buffer /\ posRead' = posRead /\ call.op = "peek" /\ call'.op = "peek"
    BY <1>5 DEF doReadPeek, object
  <2>2. First' = First
    BY <2>1, StateFacts DEF First, Taken
  <2> QED BY <1>1, <1>2, <2>1, <2>2, SameContents DEF Q!vars
<1> QED BY <1>3, <1>4, <1>5

\* What a finished push leaves: the contents, and behind them as much of its
\* argument as there was room for.
LEMMA ReturnAnswersPush ==
  ASSUME IInv, IInv', Progress, Return, call.op = "push"
  PROVE  Q!AnswerPush
<1> DEFINE x == call.x
           w == Count
<1>1. /\ remain = 0 /\ size \in Nat /\ Done = size /\ w = availRead - size /\ First = posRead
      /\ w \in Nat /\ w + size = availRead /\ availRead \in Nat
  BY StateFacts, CountFacts DEF Return, Done
<1>2. x \in Seq(Data) /\ Len(x) \in Nat /\ size <= Len(x) /\ size = Least(call.size, availWrite + size)
  <2>1. call.x \in Seq(Data) /\ call.size = Len(call.x) /\ size = Least(call.size, availWrite + size)
    BY DEF IInv, TypeOK, Calls, Accounting, Granted
  <2>2. Len(call.x) \in Nat
    BY <2>1
  <2> QED BY <2>1, <2>2, StateFacts DEF Least
<1>3. call' = NoCall /\ result' = [size |-> size, x |-> out] /\ out = <<>>
      /\ size' = 0 /\ remain' = 0 /\ posRead' = posRead /\ availRead' = availRead /\ buffer' = buffer
  BY DEF Return, object, Progress
<1>4. Count' = availRead /\ First' = posRead
  <2>1. call'.op = "none"
    BY <1>3 DEF NoCall
  <2>2. Count' = availRead'
    BY <2>1 DEF Count
  <2>3. Taken' = 0
    BY <2>1 DEF Taken
  <2> QED BY <1>3, <2>2, <2>3, StateFacts DEF First
<1>5. Contents \in Seq(Data) /\ Len(Contents) = w /\ Contents' \in Seq(Data) /\ Len(Contents') = availRead
  <2>1. (Contents \in Seq(Data) /\ Len(Contents) = Count)'
    BY ContentsType, PTL
  <2> QED BY <1>4, <2>1, ContentsFacts
<1> DEFINE y == SubSeq(x, 1, size)
           t == Contents \o y
<1>6. y \in Seq(Data) /\ Len(y) = size /\ \A k \in 1 .. size : y[k] = x[k]
  <2>1. size \in 0 .. Len(x)
    BY <1>1, <1>2
  <2> QED BY <1>1, <1>2, <2>1
<1>7. t \in Seq(Data) /\ Len(t) = w + size
      /\ \A k \in 1 .. w + size : t[k] = IF k <= w THEN Contents[k] ELSE y[k - w]
  <2> HIDE DEF y, w
  <2> QED BY <1>5, <1>6, ConcatProperties
<1>8. ASSUME NEW k \in 1 .. availRead
      PROVE  Contents'[k] = t[k]
  <2>1. Contents'[k] = buffer[Wrap(posRead + k - 1)]
    BY <1>3, <1>4 DEF Contents, Wrap
  <2>2. CASE k <= w
    <3>1. k \in 1 .. w /\ k \in 1 .. w + size
      BY <1>1, <2>2
    <3>2. Contents[k] = buffer[Wrap(posRead + k - 1)]
      BY <1>1, <3>1 DEF Contents
    <3> QED BY <1>7, <2>1, <2>2, <3>1, <3>2
  <2>3. CASE ~(k <= w)
    <3> DEFINE j == k - w
    <3>1. j \in 1 .. size /\ k \in 1 .. w + size /\ posRead + (availRead - size) + j - 1 = posRead + k - 1
      <4> HIDE DEF w
      <4> QED BY <1>1, <2>3, StateFacts
    <3> HIDE DEF j
    <3>2. buffer[Wrap(posRead + (availRead - size) + j - 1)] = x[j]
      BY <1>1, <3>1 DEF Progress
    <3>3. t[k] = y[j]
      BY <1>7, <2>3, <3>1 DEF j
    <3> QED BY <1>6, <2>1, <3>1, <3>2, <3>3
  <2> QED BY <2>2, <2>3
<1>9. Contents' = t
  <2>1. Len(t) = availRead
    BY <1>1, <1>7
  <2> HIDE DEF t
  <2> QED BY <1>5, <1>7, <1>8, <2>1, SeqEqual
<1>10. Q!Least(call.size, Size - Len(Contents)) = size
  <2>1. Size - Len(Contents) = availWrite + size
    BY <1>1, <1>5, StateFacts
  <2> QED BY <1>2, <2>1 DEF Q!Least, Least
<1> HIDE DEF t
<1> QED BY <1>3, <1>9, <1>10 DEF Q!AnswerPush, Q!NoCall, NoCall, t

\* What a finished pop, discard or peek leaves and answers: the contents
\* without the first of them, or all of them, and a copy of the first.
LEMMA ReturnAnswersRead ==
  ASSUME IInv, IInv', Progress, Return, call.op \in {"pop", "discard", "peek"}
  PROVE  Q!AnswerRead
<1> DEFINE w == Count
<1>1. /\ remain = 0 /\ size \in Nat /\ Done = size /\ w \in Nat /\ size <= w
      /\ availRead \in Nat /\ posRead \in Nat
  BY StateFacts, CountFacts DEF Return, Done
<1>2. call' = NoCall /\ result' = [size |-> size, x |-> out]
      /\ posRead' = posRead /\ availRead' = availRead /\ buffer' = buffer
  BY DEF Return, object
<1>3. Count' = availRead /\ First' = posRead
  <2>1. call'.op = "none"
    BY <1>2 DEF NoCall
  <2>2. Count' = availRead'
    BY <2>1 DEF Count
  <2>3. Taken' = 0
    BY <2>1 DEF Taken
  <2> QED BY <1>1, <1>2, <2>2, <2>3 DEF First
<1>4. Contents \in Seq(Data) /\ Len(Contents) = w /\ Contents' \in Seq(Data) /\ Len(Contents') = availRead
  <2>1. (Contents \in Seq(Data) /\ Len(Contents) = Count)'
    BY ContentsType, PTL
  <2> QED BY <1>3, <2>1, ContentsFacts
<1>5. Q!Least(call.size, Len(Contents)) = size
  <2>1. call.op = "peek" => size = Least(call.size, w)
    BY CountFacts DEF IInv, Accounting, Granted
  <2>2. call.op # "peek" => size = Least(call.size, w)
    BY CountFacts DEF IInv, Accounting, Granted
  <2> QED BY <1>4, <2>1, <2>2 DEF Q!Least, Least
<1>6. out = IF call.op = "discard" THEN <<>> ELSE SubSeq(Contents, 1, size)
  <2>1. CASE call.op = "discard"
    BY <2>1 DEF Progress
  <2>2. CASE call.op \in {"pop", "peek"}
    <3> DEFINE y == SubSeq(Contents, 1, size)
    <3>1. y \in Seq(Data) /\ Len(y) = size /\ \A k \in 1 .. size : y[k] = Contents[k]
      <4>1. size \in 0 .. Len(Contents)
        BY <1>1, <1>4
      <4> QED BY <1>1, <1>4, <4>1
    <3>2. out \in Seq(Data) /\ Len(out) = size
          /\ \A k \in 1 .. size : out[k] = buffer[Wrap(First + k - 1)]
      BY <1>1, <2>2 DEF Progress, IInv, TypeOK
    <3>3. \A k \in 1 .. size : Contents[k] = buffer[Wrap(First + k - 1)]
      BY <1>1 DEF Contents
    <3> HIDE DEF y
    <3>4. out = y
      BY <3>1, <3>2, <3>3, SeqEqual
    <3> QED BY <2>2, <3>4 DEF y
  <2> QED BY <2>1, <2>2
<1>7. CASE call.op = "peek"
  <2>1. w = availRead /\ First = posRead
    BY <1>7, CountFacts
  <2>2. Contents' = Contents
    BY <1>2, <1>3, <2>1, SameContents
  <2> QED BY <1>2, <1>5, <1>6, <1>7, <2>2 DEF Q!AnswerRead, Q!NoCall, NoCall
<1>8. CASE call.op \in {"pop", "discard"}
  <2> DEFINE t == SubSeq(Contents, size + 1, Len(Contents))
  <2>1. w = availRead + size
    BY <1>8, CountFacts
  <2>2. t \in Seq(Data) /\ Len(t) = availRead /\ \A k \in 1 .. availRead : t[k] = Contents[size + k]
    <3>1. size + 1 \in 1 .. Len(Contents) + 1 /\ Len(Contents) \in Nat
          /\ Len(Contents) = size + availRead
      BY <1>1, <1>4, <2>1
    <3> QED BY <1>1, <1>4, <3>1
  <2>3. ASSUME NEW k \in 1 .. availRead
        PROVE  Contents'[k] = t[k]
    <3>1. Contents'[k] = buffer[Wrap(posRead + k - 1)]
      BY <1>2, <1>3 DEF Contents, Wrap
    <3>2. size + k \in 1 .. w /\ k - 1 \in Nat /\ size + (k - 1) <= Size /\ Size > 0
          /\ size + k - 1 = size + (k - 1)
      <4>1. w <= Size /\ Size \in Nat
        BY CountFacts, SizeAssumption
      <4> HIDE DEF w
      <4> QED BY <1>1, <2>1, <4>1
    <3>3. Contents[size + k] = buffer[Wrap(First + (size + k) - 1)]
      BY <3>2 DEF Contents
    <3>4. First \in Nat /\ First < Size /\ posRead = Wrap(First + size)
      <4>1. Taken = size
        BY <1>1, <1>8 DEF Taken
      <4> QED BY <3>2, <4>1, FirstFacts, SizeAssumption
    <3>5. Wrap(Wrap(First + size) + (k - 1)) = Wrap(First + size + (k - 1))
      BY <1>1, <3>2, <3>4, WrapAgain
    <3>6. First + (size + k) - 1 = First + size + (k - 1) /\ posRead + k - 1 = posRead + (k - 1)
      BY <1>1, <3>4
    <3> QED BY <2>2, <3>1, <3>3, <3>4, <3>5, <3>6
  <2> HIDE DEF t
  <2>4. Contents' = t
    BY <1>4, <2>2, <2>3, SeqEqual
  <2> QED BY <1>2, <1>5, <1>6, <1>8, <2>4 DEF Q!AnswerRead, Q!NoCall, NoCall, t
<1> QED BY <1>7, <1>8

\* The ring starts as the empty queue, and every step of it is a step of the
\* queue or leaves the queue as it is.
LEMMA InitRefines == Init => Q!Init
<1> SUFFICES ASSUME Init PROVE Q!Init
  OBVIOUS
<1>1. IInv
  BY InitIInv
<1>2. Count = 0
  BY <1>1, CountFacts DEF Init, NoCall
<1>3. Contents = <<>>
  BY <1>2 DEF Contents
<1> QED BY <1>3 DEF Init, Q!Init, Q!NoCall, Q!NoResult, NoCall, NoResult

LEMMA NextRefines ==
  IInv /\ IInv' /\ Progress /\ Progress' /\ [Next]_vars => [Q!Next]_(Q!vars)
<1> SUFFICES ASSUME IInv, IInv', Progress, Progress', [Next]_vars
             PROVE  Q!Next \/ UNCHANGED Q!vars
  OBVIOUS
<1>1. CASE Begin
  BY <1>1, BeginInvokes DEF Q!Next
<1>2. CASE doWrite \/ doReadPop \/ SkipDiscard \/ doReadPeek
  BY <1>2, LoopsStutter
<1>3. CASE Return
  <2>1. call.op \in {"push", "pop", "discard", "peek"}
    BY <1>3 DEF Progress, Return, Q!PushCalls, Q!ReadCalls
  <2> QED BY <1>3, <2>1, ReturnAnswersPush, ReturnAnswersRead DEF Q!Next
<1>4. CASE UNCHANGED vars
  BY <1>4 DEF vars, Q!vars, Contents, Count, First, Taken, Wrap
<1> QED BY <1>1, <1>2, <1>3, <1>4 DEF Next, Run

(* The ring is a bounded FIFO queue, whatever its size, its elements and   *)
(* the requests: what push, pop, discard and peek answer, and what they    *)
(* leave, is what the queue answers and keeps.                             *)
THEOREM RingIsAQueue == Spec => ImplementsQueue
<1>1. Spec => [](IInv /\ Progress)
  <2>1. Init => IInv /\ Progress
    BY InitIInv, InitProgress
  <2>2. IInv /\ Progress /\ [Next]_vars => (IInv /\ Progress)'
    BY NextIInv, NextProgress
  <2> QED BY <2>1, <2>2, PTL DEF Spec
<1> QED BY <1>1, InitRefines, NextRefines, PTL DEF Spec, ImplementsQueue, Q!Spec
===============================================================================
