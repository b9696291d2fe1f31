----------------------------- MODULE BoundedQueue -----------------------------
(***************************************************************************)
(* What CircularBuffer promises its caller, without a ring: a FIFO queue   *)
(* of at most Size elements.  A call is invoked and, later, answered; a    *)
(* push that does not fit is cut to the free space, a pop, discard or peek *)
(* that asks for too much is cut to what is there, and the answer carries  *)
(* the number of elements moved and the elements themselves.               *)
(***************************************************************************)
EXTENDS Naturals, Sequences

CONSTANTS Size,    \* the capacity
          Inputs,  \* the sequences a caller may push
          Amounts  \* the sizes a caller may pop, discard or peek

VARIABLES queue,   \* the elements pushed and not yet removed, oldest first
          call,    \* the call in progress, or NoCall
          result   \* the answer to the last call, or NoResult

NoCall   == [op |-> "none", x |-> <<>>, size |-> 0]
NoResult == [size |-> 0, x |-> <<>>]

PushCalls == { [op |-> "push", x |-> s, size |-> Len(s)] : s \in Inputs }
ReadCalls == [op : {"pop", "discard", "peek"}, x : {<<>>}, size : Amounts]

Least(a, b) == IF a <= b THEN a ELSE b

Init == /\ queue = <<>>
        /\ call = NoCall
        /\ result = NoResult

Invoke == /\ call = NoCall
          /\ call' \in PushCalls \cup ReadCalls
          /\ result' = NoResult
          /\ UNCHANGED queue

AnswerPush == LET n == Least(call.size, Size - Len(queue)) IN
  /\ call.op = "push"
  /\ queue' = queue \o SubSeq(call.x, 1, n)
  /\ result' = [size |-> n, x |-> <<>>]
  /\ call' = NoCall

AnswerRead == LET n == Least(call.size, Len(queue)) IN
  /\ call.op \in {"pop", "discard", "peek"}
  /\ queue' = IF call.op = "peek" THEN queue
                                  ELSE SubSeq(queue, n + 1, Len(queue))
  /\ result' = [size |-> n,
                x |-> IF call.op = "discard" THEN <<>> ELSE SubSeq(queue, 1, n)]
  /\ call' = NoCall

Next == Invoke \/ AnswerPush \/ AnswerRead

vars == <<queue, call, result>>

Spec     == Init /\ [][Next]_vars
FairSpec == Spec /\ WF_vars(AnswerPush \/ AnswerRead)
===============================================================================
