---------------------------- MODULE CircularBuffer ----------------------------
(***************************************************************************)
(* bitforge::CircularBuffer<T> (bf/buffers.h): a ring of Size elements     *)
(* with a read and a write position and two counters kept beside them.     *)
(*                                                                         *)
(* A call first clamps its size and moves the counters, and only then      *)
(* copies, in chunks that stop at the end of the storage; each chunk is a  *)
(* step here, so the counters run ahead of the positions during a call.    *)
(* The object is used by one thread (it has no lock).  An element is one   *)
(* unit of memcpy, i.e. sizeof(T) = 1 as in every use in the repository.   *)
(*                                                                         *)
(* Definitions marked "Fault" are the definition after them with a bug, to *)
(* see that the properties notice; no specification uses them.             *)
(***************************************************************************)
EXTENDS Naturals, Sequences

CONSTANTS Size,    \* m_bufferSize
          Data,    \* the values of an element
          Inputs,  \* the sequences a caller may push
          Amounts  \* the sizes a caller may pop, discard or peek

ASSUME SizeAssumption  == Size \in Nat
ASSUME InputAssumption == Inputs \subseteq Seq(Data) /\ Amounts \subseteq Nat

VARIABLES buffer,                \* m_buffer, by offset
          posRead, availRead,    \* m_posRead (as an offset), m_availRead
          posWrite, availWrite,  \* m_posWrite (as an offset), m_availWrite
          call,                  \* the call in progress and its arguments
          size, remain,          \* its locals
          pos,                   \* the local cursor of peek
          out,                   \* what the call has copied to its caller
          result                 \* what the last call returned

object == <<buffer, posRead, availRead, posWrite, availWrite>>
vars   == <<buffer, posRead, availRead, posWrite, availWrite,
            call, size, remain, pos, out, result>>

Offset == 0 .. Size - 1

NoCall   == [op |-> "none", x |-> <<>>, size |-> 0]
NoResult == [size |-> 0, x |-> <<>>]

Least(a, b) == IF a <= b THEN a ELSE b

\* Fault: a position may stay at m_bufferEnd.
AdvanceToEnd(p, n) == p + n

\* A position after n more elements, for n up to the end of the storage.
Advance(p, n) == IF p + n = Size THEN 0 ELSE p + n

\* The length of the next chunk from position p.
Chunk(p) == Least(Size - p, remain)

\* new T[size] leaves the elements of a plain T indeterminate.
Init == /\ buffer \in [Offset -> Data]
        /\ posRead = 0 /\ availRead = 0
        /\ posWrite = 0 /\ availWrite = Size
        /\ call = NoCall /\ result = NoResult
        /\ size = 0 /\ remain = 0 /\ pos = 0 /\ out = <<>>

-------------------------------------------------------------------------------
(* Entering a call: clamp, then move both counters.                        *)

Enter(op, x, asked, n) ==
  /\ call = NoCall
  /\ call' = [op |-> op, x |-> x, size |-> asked]
  /\ size' = n
  /\ remain' = n
  /\ pos' = posRead
  /\ out' = <<>>
  /\ result' = NoResult
  /\ UNCHANGED <<buffer, posRead, posWrite>>

\* Fault: push does not clamp.
PushAll(x) ==
  /\ Enter("push", x, Len(x), Len(x))
  /\ availRead' = availRead + Len(x)
  /\ availWrite' = availWrite - Len(x)

Push(x) == LET n == Least(Len(x), availWrite) IN
  /\ Enter("push", x, Len(x), n)
  /\ availRead' = availRead + n
  /\ availWrite' = availWrite - n

\* Fault: the space taken is not given back.
TakeWithoutSpace(op, asked) == LET n == Least(asked, availRead) IN
  /\ Enter(op, <<>>, asked, n)
  /\ availRead' = availRead - n
  /\ UNCHANGED availWrite

Take(op, asked) == LET n == Least(asked, availRead) IN
  /\ Enter(op, <<>>, asked, n)
  /\ availRead' = availRead - n
  /\ availWrite' = availWrite + n

Pop(asked)     == Take("pop", asked)
Discard(asked) == Take("discard", asked)

\* Fault: peek does not clamp.
PeekAll(asked) == Enter("peek", <<>>, asked, asked) /\ UNCHANGED <<availRead, availWrite>>

Peek(asked) == /\ Enter("peek", <<>>, asked, Least(asked, availRead))
               /\ UNCHANGED <<availRead, availWrite>>

-------------------------------------------------------------------------------
(* One turn of the while (remain) loop of each call.                       *)

doWrite == LET sz == Chunk(posWrite) IN
  /\ call.op = "push"
  /\ remain > 0
  /\ buffer' = [i \in Offset |->
                  IF i \in posWrite .. posWrite + sz - 1
                  THEN call.x[size - remain + (i - posWrite) + 1]
                  ELSE buffer[i]]
  /\ posWrite' = Advance(posWrite, sz)
  /\ remain' = remain - sz
  /\ UNCHANGED <<posRead, availRead, availWrite, call, size, pos, out, result>>

\* What doRead copies out of the ring from position p.
Copied(p, sz) == [k \in 1 .. sz |-> buffer[p + k - 1]]

doReadPop == LET sz == Chunk(posRead) IN
  /\ call.op = "pop"
  /\ remain > 0
  /\ out' = out \o Copied(posRead, sz)
  /\ posRead' = Advance(posRead, sz)
  /\ remain' = remain - sz
  /\ UNCHANGED <<buffer, posWrite, availRead, availWrite, call, size, pos, result>>

SkipDiscard == LET sz == Chunk(posRead) IN
  /\ call.op = "discard"
  /\ remain > 0
  /\ posRead' = Advance(posRead, sz)
  /\ remain' = remain - sz
  /\ UNCHANGED <<buffer, posWrite, availRead, availWrite, call, size, pos, out,
                 result>>

doReadPeek == LET sz == Chunk(pos) IN
  /\ call.op = "peek"
  /\ remain > 0
  /\ out' = out \o Copied(pos, sz)
  /\ pos' = Advance(pos, sz)
  /\ remain' = remain - sz
  /\ UNCHANGED <<object, call, size, result>>

\* return size; the locals die with the frame.
Return == /\ call # NoCall
          /\ remain = 0
          /\ result' = [size |-> size, x |-> out]
          /\ call' = NoCall
          /\ size' = 0 /\ pos' = 0 /\ out' = <<>>
          /\ UNCHANGED <<object, remain>>

Begin == \/ \E x \in Inputs : Push(x)
         \/ \E n \in Amounts : Pop(n) \/ Discard(n) \/ Peek(n)
Run   == doWrite \/ doReadPop \/ SkipDiscard \/ doReadPeek \/ Return
Next  == Begin \/ Run

Spec     == Init /\ [][Next]_vars
\* A thread that has entered a call keeps running it.
FairSpec == Spec /\ WF_vars(Run)

-------------------------------------------------------------------------------
Calls == [op : {"none", "push", "pop", "discard", "peek"},
          x : Seq(Data), size : Nat]

(* Every variable has the type of the field or local it stands for; the    *)
(* positions never stay at m_bufferEnd once the ring has an element.       *)
TypeOK == /\ buffer \in [Offset -> Data]
          /\ posRead \in Nat /\ posWrite \in Nat /\ pos \in Nat
          /\ availRead \in 0 .. Size /\ availWrite \in 0 .. Size
          /\ call \in Calls
          /\ size \in 0 .. Size /\ remain \in 0 .. Size
          /\ out \in Seq(Data)
          /\ result \in [size : Nat, x : Seq(Data)]
          /\ Size > 0 => posRead < Size /\ posWrite < Size /\ pos < Size
          /\ Size = 0 => posRead = 0 /\ posWrite = 0 /\ pos = 0

\* Elements a call has promised but not copied yet.
UnwrittenPush == IF call.op = "push" THEN remain ELSE 0
UnreadTake    == IF call.op \in {"pop", "discard"} THEN remain ELSE 0

\* p, plus at most one turn of the ring.
Wrap(p) == IF p >= Size THEN p - Size ELSE p

\* What a running call was granted on entry, and how far its loop has come.
Granted ==
  /\ remain <= size
  /\ call.op = "none" => size = 0
  /\ call.op = "push" => /\ call.size = Len(call.x)
                         /\ size <= availRead
                         /\ size = Least(call.size, availWrite + size)
  /\ call.op \in {"pop", "discard"} => /\ size <= availWrite
                                       /\ size = Least(call.size, availRead + size)
  /\ call.op = "peek" => size = Least(call.size, availRead)

(* The counters and the positions tell the same story at every step, the   *)
(* middle of a call included: the counters add up to the size of the ring  *)
(* (push:94-95, pop:117-118, discard:141-142), and the write position is   *)
(* the read position plus what is stored, once the part of the running     *)
(* call that is still to be copied is taken into account.                  *)
Accounting ==
  /\ Granted
  /\ availRead + availWrite = Size
  /\ posWrite = Wrap(posRead + availRead + UnreadTake - UnwrittenPush)

(* The element range a push is still to write never reaches an element     *)
(* that is stored and unread: the offsets of the next chunk of doWrite     *)
(* (push:99-105) are disjoint from the live ones, so nothing unread is     *)
(* lost, full ring and wrap included.                                      *)
Live == { Wrap(posRead + k) : k \in 0 .. availRead + UnreadTake - UnwrittenPush - 1 }
UnreadIsKept == [][\A i \in Live : buffer'[i] = buffer[i]]_vars

(* The length of the queue a caller sees: a call takes effect when it      *)
(* returns, so during a push the clamped elements do not count yet and     *)
(* during a pop or a discard they still do.                                *)
Taken == IF call.op \in {"pop", "discard"} THEN size - remain ELSE 0
First == IF posRead >= Taken THEN posRead - Taken ELSE posRead + Size - Taken
Count == CASE call.op = "push"              -> availRead - size
           [] call.op \in {"pop", "discard"} -> availRead + size
           [] OTHER                         -> availRead
Contents == [k \in 1 .. Count |-> buffer[Wrap(First + k - 1)]]

Q == INSTANCE BoundedQueue WITH queue <- Contents

(* The ring is a bounded FIFO queue: every call's answer and effect are    *)
(* those of the queue, for all four operations.                            *)
ImplementsQueue == Q!Spec

(* Every call returns: no loop of push, pop, discard or peek can spin on   *)
(* an empty chunk.                                                         *)
EveryCallReturns == call # NoCall ~> call = NoCall
===============================================================================
