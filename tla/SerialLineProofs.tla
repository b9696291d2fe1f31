--------------------------- MODULE SerialLineProofs ---------------------------
(***************************************************************************)
(* That m_readBuffer stays empty on a canonical device, that bytes come    *)
(* once and in order, and that lines which fit a chunk are returned whole, *)
(* for every text, chunk and size.                                         *)
(***************************************************************************)
EXTENDS SerialLine, TLAPS

Calls(n) == [op : {"none", "read", "line"}, lo : 0 .. n, room : Nat]
Results(n) == [op : {"none", "read", "line"}, how : {"none", "returned", "threw"},
               from : 0 .. n, lo : 0 .. n, hi : 0 .. n]

\* A call runs on an open port, with an empty m_readBuffer and with room.
Running == call.op # "none" => open /\ held = 0 /\ call.room > 0

\* Where the running call, or the next one, starts.
Start == IF call.op = "none" THEN Due ELSE call.lo

\* Nothing after Start has been given to a caller, but for a newline that
\* readLine left in m_readBuffer.
HandedInv == \/ handed <= Start
             \/ handed = Start + 1 /\ Ch(handed) = NL /\ Start < taken

IInv == TypeOK /\ Running /\ CanonicalKeepsNothing /\ HandedInv

\* The first newline is the only first newline.
LEMMA FirstNewlineUnique ==
  ASSUME NEW lo \in Nat, NEW h1 \in Nat, NEW h2 \in Nat, NEW p, NEW q,
         FirstNewline(p, lo, h1), FirstNewline(q, lo, h2)
  PROVE  p = q
BY SMT DEF FirstNewline

\* What a read of the descriptor returns ends within the bytes that arrived.
LEMMA FdReadRange ==
  ASSUME TypeOK, NEW room \in Nat \ {0}, NEW hi \in taken .. Length, FdRead(room, hi)
  PROVE  hi \in taken .. sent
<1> USE BoundAssumption DEF TypeOK
<1>1. ASSUME NEW p \in 1 .. sent, FirstEnd(p, taken, sent),
             hi = Least(taken + room, p) \/ hi = p
      PROVE  hi \in taken .. sent
  BY <1>1, SMT DEF FirstEnd, Least
<1>2. ASSUME taken < sent, hi = Least(taken + room, sent)
      PROVE  hi \in taken .. sent
  BY <1>2, SMT DEF Least
<1>3. ASSUME hi = taken
      PROVE  hi \in taken .. sent
  BY <1>3, SMT
<1> QED BY <1>1, <1>2, <1>3 DEF FdRead

\* On a canonical device the chunk ends with the first newline it has.
LEMMA CanonicalChunk ==
  ASSUME TypeOK, NEW room \in Nat \ {0}, NEW hi \in taken .. Length, FdRead(room, hi),
         "ICANON" \in tty, NEW p, FirstNewline(p, taken, hi)
  PROVE  p = hi
<1> USE BoundAssumption DEF TypeOK
<1>1. hi > taken
  BY SMT DEF FirstNewline
<1>2. PICK q \in 1 .. sent : /\ FirstEnd(q, taken, sent)
                             /\ hi = Least(taken + room, q) \/ hi = q
  BY <1>1, SMT DEF FdRead
<1>3. hi <= q
  BY <1>2, SMT DEF Least
<1>4. q = p
  BY <1>2, <1>3, SMT DEF FirstNewline, FirstEnd
<1> QED BY <1>3, <1>4, SMT DEF FirstNewline

\* What a returning call leaves, when its positions are below n.
LEMMA ReturnType ==
  ASSUME NEW n \in Nat, handed \in 0 .. n, NEW op \in {"read", "line"},
         NEW from \in 0 .. n, NEW lo \in 0 .. n, NEW hi \in 0 .. n,
         Return(op, from, lo, hi)
  PROVE  /\ call' \in Calls(n) /\ call'.op = "none"
         /\ last' \in Results(n)
         /\ handed' \in 0 .. n /\ handed' = Most(handed, hi)
<1>1. last' \in Results(n)
  BY SMT DEF Return, Results
<1>2. call' \in Calls(n) /\ call'.op = "none"
  BY SMT DEF Return, Calls, Idle
<1> QED BY <1>1, <1>2, SMT DEF Return, Most

\* What a throwing call leaves.
LEMMA ThrowType ==
  ASSUME NEW n \in Nat, call \in Calls(n), Throw
  PROVE  /\ call' \in Calls(n) /\ call'.op = "none"
         /\ last' \in Results(n) /\ handed' = handed
<1>1. last' \in Results(n)
  BY SMT DEF Throw, Results, Calls
<1>2. call' \in Calls(n) /\ call'.op = "none"
  BY SMT DEF Throw, Calls, Idle
<1> QED BY <1>1, <1>2 DEF Throw

\* What a call leaves that waits for the descriptor.
LEMMA WaitType ==
  ASSUME NEW n \in Nat, Due \in 0 .. n, NEW op \in {"read", "line"},
         NEW room \in Nat, Wait(op, room)
  PROVE  /\ call' \in Calls(n) /\ call'.op = op /\ call'.lo = Due
         /\ call'.room = room
         /\ last' = last /\ handed' = handed
BY SMT DEF Wait, Calls

\* The records keep their type when more has been taken.
LEMMA Monotone ==
  ASSUME NEW n \in Nat, NEW m \in Nat, n <= m
  PROVE  Calls(n) \subseteq Calls(m) /\ Results(n) \subseteq Results(m)
BY SMT DEF Calls, Results

\* The type invariant, from its parts.
LEMMA TypeParts ==
  ASSUME text \in [1 .. Length -> Byte], sent \in 0 .. Length, up \in BOOLEAN,
         device \in {"tty", "other"}, open \in BOOLEAN,
         tty \subseteq Flags, oldtio \subseteq Flags,
         taken \in 0 .. sent, held \in 0 .. taken, handed \in 0 .. taken,
         call \in Calls(taken), Running, last \in Results(taken),
         fails \in 0 .. MaxFails
  PROVE  TypeOK
BY DEF TypeOK, Calls, Results, Running

\* Nothing has been sent, taken or kept.
LEMMA InitIInv == Init => IInv
<1> SUFFICES ASSUME Init PROVE IInv
  OBVIOUS
<1> USE BoundAssumption DEF Init
<1>1. tty \subseteq Flags /\ oldtio \subseteq Flags /\ device \in {"tty", "other"}
  BY DEF Flags
<1>2. call \in Calls(taken) /\ last \in Results(taken)
  BY SMT DEF Calls, Results, Idle
<1>3. CanonicalKeepsNothing /\ Running
  BY DEF CanonicalKeepsNothing, Running, Idle
<1>4. sent \in 0 .. Length /\ taken \in 0 .. sent /\ held \in 0 .. taken
      /\ handed \in 0 .. taken /\ fails \in 0 .. MaxFails
  BY SMT
<1>5. TypeOK
  BY <1>1, <1>2, <1>3, <1>4, TypeParts
<1>6. HandedInv
  BY SMT DEF HandedInv, Start, Due, Idle
<1> QED BY <1>3, <1>5, <1>6 DEF IInv

\* The device's own steps disturb nothing that a call knows.
LEMMA DeviceStep == IInv /\ (Arrive \/ HangUp) => IInv'
<1> SUFFICES ASSUME IInv, Arrive \/ HangUp PROVE IInv'
  OBVIOUS
<1> USE BoundAssumption DEF IInv, Arrive, HangUp, port
<1>1. sent' \in sent .. Length
  BY SMT DEF TypeOK
<1>5. up' \in BOOLEAN
  BY DEF TypeOK
<1>2. UNCHANGED <<text, device, tty, oldtio, open, taken, held, call, last, handed, fails>>
  OBVIOUS
<1>3. TypeOK'
  BY <1>1, <1>2, <1>5, SMT DEF TypeOK
<1>4. Running' /\ CanonicalKeepsNothing' /\ HandedInv'
  BY <1>2 DEF Running, CanonicalKeepsNothing, HandedInv, Start, Due, Ch
<1> QED BY <1>3, <1>4

\* Opening drops what waits at the device and starts with an empty m_readBuffer.
LEMMA OpenStep == IInv /\ Open => IInv'
<1> SUFFICES ASSUME IInv, Open PROVE IInv'
  OBVIOUS
<1> USE BoundAssumption DEF IInv, Open, line
<1>1. call.op = "none"
  BY DEF Running
<1>2. taken' \in taken .. sent /\ held' = 0
  BY SMT DEF TypeOK
<1>3. tty' \subseteq Flags /\ oldtio' \subseteq Flags
  BY DEF TypeOK, NewTermios, Flags
<1>4. call' \in Calls(taken') /\ last' \in Results(taken')
  BY <1>2, Monotone, SMT DEF TypeOK, Calls, Results
<1>5. TypeOK'
  BY <1>1, <1>2, <1>3, <1>4, SMT DEF TypeOK, Calls, Results
<1>6. Running' /\ CanonicalKeepsNothing'
  BY <1>1, <1>2 DEF Running, CanonicalKeepsNothing
<1>7. Start' = taken' - held' /\ handed' = handed
  BY <1>1 DEF Start, Due
<1>8. handed <= taken'
  BY <1>2, SMT DEF TypeOK
<1>9. taken' \in Nat
  BY <1>5, SMT DEF TypeOK
<1>10. handed' <= Start'
  BY <1>2, <1>7, <1>8, <1>9, SMT
<1>11. HandedInv'
  BY <1>10 DEF HandedInv
<1> QED BY <1>5, <1>6, <1>11

\* Closing forgets m_readBuffer: the next byte due is the next to be taken.
LEMMA CloseStep == IInv /\ Close => IInv'
<1> SUFFICES ASSUME IInv, Close PROVE IInv'
  OBVIOUS
<1> USE BoundAssumption DEF IInv, Close, line
<1>1. call.op = "none"
  BY DEF Idle
<1>5. tty' \subseteq Flags /\ oldtio' \subseteq Flags /\ open' \in BOOLEAN
  BY DEF TypeOK
<1>6. held' \in 0 .. taken' /\ taken' = taken
  BY SMT DEF TypeOK
<1>2. TypeOK'
  BY <1>1, <1>5, <1>6 DEF TypeOK
<1>3. Running' /\ CanonicalKeepsNothing'
  BY <1>1 DEF Running, CanonicalKeepsNothing
<1>4. HandedInv'
  BY <1>1, SMT DEF HandedInv, Start, Due, TypeOK
<1> QED BY <1>2, <1>3, <1>4

\* A call that starts: read.
LEMMA CallReadStep == ASSUME NEW size \in Sizes PROVE IInv /\ CallRead(size) => IInv'
<1> SUFFICES ASSUME IInv, CallRead(size) PROVE IInv'
  OBVIOUS
<1> USE BoundAssumption DEF IInv
<1>0. /\ taken \in Nat /\ held \in 0 .. taken /\ handed \in 0 .. taken /\ Due \in 0 .. taken
      /\ size \in Nat \ {0} /\ call.op = "none" /\ call \in Calls(taken)
      /\ last \in Results(taken)
  BY SMT DEF TypeOK, Due, CallRead, Idle, Calls, Results
<1>1. UNCHANGED <<text, sent, up, device, tty, oldtio, open, taken, fails>> /\ open
  BY DEF CallRead, line, port
<1>2. held' = held - Least(held, size)
  BY DEF CallRead
<1>3. held' \in 0 .. held
  BY <1>0, <1>2, SMT DEF Least
<1>4. ("ICANON" \in tty) => held' = 0
  BY <1>0, <1>1, <1>3, SMT DEF CanonicalKeepsNothing
<1>5. CASE size <= held /\ held > 0
  <2>1. Return("read", Due, Due, Due + size)
    BY <1>5 DEF CallRead
  <2>2. Due + size \in 0 .. taken
    BY <1>0, <1>5, SMT DEF Due
  <2>3. /\ call' \in Calls(taken) /\ call'.op = "none" /\ last' \in Results(taken)
        /\ handed' \in 0 .. taken /\ handed' = Most(handed, Due + size)
    BY <1>0, <2>1, <2>2, ReturnType
  <2>4. TypeOK'
    BY <1>0, <1>1, <1>3, <2>3, SMT DEF TypeOK, Calls, Results
  <2>5. Start' = Due + size
    BY <1>0, <1>1, <1>2, <1>5, <2>3, SMT DEF Start, Due, Least
  <2>6. handed <= Due + 1
    BY <1>0, SMT DEF HandedInv, Start
  <2>7. handed' = Due + size
    BY <1>0, <2>3, <2>6, SMT DEF Most
  <2>8. HandedInv'
    BY <1>0, <2>5, <2>7, SMT DEF HandedInv
  <2> QED BY <1>1, <1>4, <2>3, <2>4, <2>8 DEF Running, CanonicalKeepsNothing
<1>6. CASE ~(size <= held /\ held > 0)
  <2>1. Wait("read", size - held)
    BY <1>6 DEF CallRead
  <2>2. size - held \in Nat \ {0}
    BY <1>0, <1>6, SMT
  <2>3. /\ call' \in Calls(taken) /\ call'.op = "read" /\ call'.lo = Due
        /\ call'.room = size - held /\ last' = last /\ handed' = handed
    BY <1>0, <2>1, <2>2, WaitType
  <2>4. held' = 0
    BY <1>0, <1>2, <1>6, SMT DEF Least
  <2>5. TypeOK'
    BY <1>0, <1>1, <2>2, <2>3, <2>4, SMT DEF TypeOK, Calls, Results
  <2>6. HandedInv'
    BY <1>0, <1>1, <2>3, SMT DEF HandedInv, Start, Ch
  <2>7. Running'
    BY <1>1, <2>2, <2>3, <2>4, SMT DEF Running
  <2> QED BY <1>1, <1>4, <2>5, <2>6, <2>7 DEF CanonicalKeepsNothing
<1> QED BY <1>5, <1>6

\* A call that starts: readLine.
LEMMA CallReadLineStep == IInv /\ CallReadLine => IInv'
<1> SUFFICES ASSUME IInv, CallReadLine PROVE IInv'
  OBVIOUS
<1> USE BoundAssumption DEF IInv
<1>0. /\ taken \in Nat /\ held \in 0 .. taken /\ handed \in 0 .. taken /\ Due \in 0 .. taken
      /\ call.op = "none" /\ call \in Calls(taken) /\ last \in Results(taken)
      /\ taken - Due = held
  BY SMT DEF TypeOK, Due, CallReadLine, Idle, Calls, Results
<1>1. UNCHANGED <<text, sent, up, device, tty, oldtio, open, taken, fails>> /\ open
  BY DEF CallReadLine, line, port
<1>2. ASSUME NEW p \in 1 .. taken, FirstNewline(p, Due, taken),
             Return("line", Due, Due, p), held' = taken - (p - 1)
      PROVE  IInv'
  <2>1. p \in Due + 1 .. taken /\ Ch(p) = NL
    BY <1>2 DEF FirstNewline
  <2>2. "ICANON" \notin tty
    BY <1>0, <1>1, <2>1, SMT DEF CanonicalKeepsNothing
  <2>3. /\ call' \in Calls(taken) /\ call'.op = "none" /\ last' \in Results(taken)
        /\ handed' \in 0 .. taken /\ handed' = Most(handed, p)
    BY <1>0, <1>2, <2>1, ReturnType, SMT
  <2>4. held' \in 0 .. taken
    BY <1>0, <1>2, <2>1, SMT
  <2>5. TypeOK'
    BY <1>0, <1>1, <2>3, <2>4, SMT DEF TypeOK, Calls, Results
  <2>6. Start' = p - 1
    BY <1>0, <1>1, <1>2, <2>1, <2>3, SMT DEF Start, Due
  <2>7. handed <= Due + 1
    BY <1>0, SMT DEF HandedInv, Start
  <2>8. handed' = p
    BY <1>0, <2>1, <2>3, <2>7, SMT DEF Most
  <2>9. Ch(handed)' = NL
    BY <1>1, <2>1, <2>8 DEF Ch
  <2>10. HandedInv'
    BY <1>0, <1>1, <2>1, <2>6, <2>8, <2>9, SMT DEF HandedInv
  <2> QED BY <1>1, <2>2, <2>3, <2>5, <2>10 DEF Running, CanonicalKeepsNothing
<1>3. ASSUME NoNewline(Due, taken), Wait("line", Chunk), held' = 0
      PROVE  IInv'
  <2>1. /\ call' \in Calls(taken) /\ call'.op = "line" /\ call'.lo = Due
        /\ call'.room = Chunk /\ last' = last /\ handed' = handed
    BY <1>0, <1>3, WaitType
  <2>2. TypeOK'
    BY <1>0, <1>1, <1>3, <2>1, SMT DEF TypeOK, Calls, Results
  <2>3. HandedInv'
    BY <1>0, <1>1, <2>1, SMT DEF HandedInv, Start, Ch
  <2>4. Running'
    BY <1>1, <1>3, <2>1, SMT DEF Running
  <2> QED BY <1>3, <2>2, <2>3, <2>4 DEF CanonicalKeepsNothing
<1> QED BY <1>2, <1>3 DEF CallReadLine

\* A call that returns: its result is below taken', and nothing that comes
\* after it has been given to a caller.
LEMMA ReturnStep ==
  ASSUME IInv, call.op \in {"read", "line"},
         NEW t \in taken .. sent, taken' = t, NEW h \in 0 .. t, held' = h,
         NEW lo \in call.lo .. t, NEW hi \in lo .. t, Return(call.op, call.lo, lo, hi),
         hi <= t - h, taken <= t - h, ("ICANON" \in tty) => h = 0,
         UNCHANGED <<line, port, fails>>
  PROVE  IInv'
<1> USE BoundAssumption DEF IInv
<1>0. /\ taken \in Nat /\ t \in Nat /\ sent \in 0 .. Length /\ handed \in 0 .. taken
      /\ call.lo \in 0 .. taken
  BY SMT DEF TypeOK
<1>1. lo \in 0 .. t /\ hi \in 0 .. t /\ call.lo \in 0 .. t /\ handed \in 0 .. t
  BY <1>0, SMT
<1>2. /\ call' \in Calls(t) /\ call'.op = "none" /\ last' \in Results(t)
      /\ handed' \in 0 .. t /\ handed' = Most(handed, hi)
  BY <1>0, <1>1, ReturnType
<1>3. TypeOK'
  BY <1>0, <1>2, SMT DEF TypeOK, Calls, Results, line, port
<1>4. Start' = t - h
  BY <1>2 DEF Start, Due
<1>5. Most(handed, hi) <= t - h
  BY <1>0, <1>1, SMT DEF Most
<1>6. HandedInv'
  BY <1>2, <1>4, <1>5 DEF HandedInv
<1> QED BY <1>2, <1>3, <1>6 DEF Running, CanonicalKeepsNothing, port

\* A waiting read ends with what the descriptor gives.
LEMMA ReadReturnsStep == IInv /\ ReadReturns => IInv'
<1> SUFFICES ASSUME IInv, ReadReturns PROVE IInv'
  OBVIOUS
<1> USE BoundAssumption DEF IInv
<1>1. PICK hi \in taken .. Length : /\ FdRead(call.room, hi) /\ taken' = hi
                                   /\ Return("read", call.lo, call.lo, hi)
  BY DEF ReadReturns
<1>2. call.op = "read" /\ held = 0 /\ held' = held /\ UNCHANGED <<line, port, fails>>
  BY DEF ReadReturns, Running
<1>3. call.room \in Nat \ {0} /\ call.lo \in 0 .. taken /\ taken \in Nat
  BY <1>2, SMT DEF TypeOK
<1>4. hi \in taken .. sent
  BY <1>1, <1>3, FdReadRange
<1>5. /\ call.lo \in call.lo .. hi /\ hi \in call.lo .. hi /\ 0 \in 0 .. hi
      /\ hi <= hi - 0 /\ taken <= hi - 0
  BY <1>3, <1>4, SMT
<1> QED BY <1>1, <1>2, <1>4, <1>5, ReturnStep

\* A call that throws.
LEMMA ThrowStep ==
  ASSUME IInv, call.op \in {"read", "line"}, taken' \in taken .. sent, Throw,
         held' = held, fails' \in 0 .. MaxFails, UNCHANGED <<line, port>>
  PROVE  IInv'
<1> USE BoundAssumption DEF IInv
<1>0. /\ taken \in Nat /\ taken' \in Nat /\ sent \in 0 .. Length /\ handed \in 0 .. taken
      /\ held' = 0 /\ call \in Calls(taken)
  BY SMT DEF TypeOK, Running, Calls
<1>1. call \in Calls(taken')
  BY <1>0, Monotone, SMT
<1>2. /\ call' \in Calls(taken') /\ call'.op = "none" /\ last' \in Results(taken')
      /\ handed' = handed
  BY <1>0, <1>1, ThrowType
<1>3. TypeOK'
  BY <1>0, <1>2, SMT DEF TypeOK, Calls, Results, line, port
<1>6. Start' = taken' - held'
  BY <1>2 DEF Start, Due
<1>7. taken' - held' = taken'
  <2>1. \A t \in Nat : t - 0 = t
    BY SMT
  <2> QED BY <1>0, <2>1
<1>8. handed <= taken'
  BY <1>0, SMT
<1>4. Start' = taken' /\ handed' <= taken'
  BY <1>2, <1>6, <1>7, <1>8
<1>5. HandedInv'
  BY <1>4 DEF HandedInv
<1> QED BY <1>0, <1>2, <1>3, <1>5 DEF Running, CanonicalKeepsNothing, port

\* A chunk of readLine: the end of the input, no newline, or the first one.
LEMMA LineReadsStep == IInv /\ LineReads => IInv'
<1> SUFFICES ASSUME IInv, LineReads PROVE IInv'
  OBVIOUS
<1> USE BoundAssumption DEF IInv
<1>1. PICK hi \in taken .. Length :
        /\ FdRead(Chunk, hi)
        /\ taken' = hi
        /\ \/ Return("line", call.lo, call.lo, hi) /\ UNCHANGED held
           \/ /\ NoNewline(taken, hi)
              /\ UNCHANGED <<call, last, handed, held>>
           \/ \E p \in taken + 1 .. hi : FirstNewline(p, taken, hi) /\ EndOfLine(p, hi)
  BY DEF LineReads
<1>2. call.op = "line" /\ held = 0 /\ open /\ UNCHANGED <<line, port, fails>>
  BY DEF LineReads, Running
<1>3. call.lo \in 0 .. taken /\ taken \in Nat /\ sent \in Nat
  BY SMT DEF TypeOK
<1>4. hi \in taken .. sent /\ hi \in Nat
  BY <1>1, <1>3, FdReadRange, SMT
<1>5. ASSUME Return("line", call.lo, call.lo, hi), UNCHANGED held
      PROVE  IInv'
  <2>1. /\ call.lo \in call.lo .. hi /\ hi \in call.lo .. hi /\ 0 \in 0 .. hi
        /\ hi <= hi - 0 /\ taken <= hi - 0
    BY <1>3, <1>4, SMT
  <2> QED BY <1>1, <1>2, <1>4, <1>5, <2>1, ReturnStep
<1>6. ASSUME UNCHANGED <<call, last, handed, held>>
      PROVE  IInv'
  <2>1. call' \in Calls(taken') /\ last' \in Results(taken') /\ handed' \in 0 .. taken'
    BY <1>1, <1>3, <1>4, <1>6, Monotone, SMT DEF TypeOK, Calls, Results
  <2>2. TypeOK'
    BY <1>1, <1>2, <1>4, <1>6, <2>1, SMT DEF TypeOK, Calls, Results, line, port
  <2>3. Running' /\ CanonicalKeepsNothing'
    BY <1>2, <1>6 DEF Running, CanonicalKeepsNothing, port
  <2>4. Start' = Start /\ Start = call.lo
    BY <1>2, <1>6 DEF Start
  <2>5. Ch(handed)' = Ch(handed)
    BY <1>2, <1>6 DEF Ch, line, port
  <2>6. Start < taken => Start < taken'
    BY <1>1, <1>3, <1>4, <2>4, SMT
  <2>7. HandedInv'
    BY <1>6, <2>4, <2>5, <2>6 DEF HandedInv
  <2> QED BY <2>2, <2>3, <2>7
<1>7. ASSUME NEW p \in taken + 1 .. hi, FirstNewline(p, taken, hi), EndOfLine(p, hi)
      PROVE  IInv'
  <2>1. PICK q \in taken .. p - 1 :
          \/ q > taken /\ Return("line", call.lo, taken, q) /\ Rest(p, hi)
          \/ q = taken /\ Return("line", call.lo, call.lo, taken) /\ Rest(p, hi)
          \/ q = taken /\ Throw /\ UNCHANGED held
    BY <1>7 DEF EndOfLine
  <2>2. p \in Nat /\ q \in Nat /\ q < p /\ taken < p /\ p <= hi
    BY <1>3, <1>4, SMT
  <2>3. ASSUME Rest(p, hi)
        PROVE  /\ held' = hi - p /\ hi - p \in 0 .. hi /\ hi - (hi - p) = p
               /\ ("ICANON" \in tty) => hi - p = 0
    <3>1. held' = hi - p /\ hi - p \in 0 .. hi /\ hi - (hi - p) = p
      BY <1>4, <2>2, <2>3, SMT DEF Rest
    <3>2. ("ICANON" \in tty) => p = hi
      BY <1>1, <1>7, CanonicalChunk
    <3>3. ("ICANON" \in tty) => hi - p = 0
      BY <1>4, <3>2, SMT
    <3> QED BY <3>1, <3>3
  <2>4. CASE q > taken /\ Return("line", call.lo, taken, q) /\ Rest(p, hi)
    <3>1. taken \in call.lo .. hi /\ q \in taken .. hi
      BY <1>3, <1>4, <2>2, SMT
    <3>2. q <= p /\ taken <= p
      BY <1>3, <2>2, SMT
    <3> QED BY <1>1, <1>2, <1>4, <2>2, <2>3, <2>4, <3>1, <3>2, ReturnStep
  <2>5. CASE q = taken /\ Return("line", call.lo, call.lo, taken) /\ Rest(p, hi)
    <3>1. call.lo \in call.lo .. hi /\ taken \in call.lo .. hi
      BY <1>3, <1>4, SMT
    <3>2. taken <= p
      BY <1>3, <2>2, SMT
    <3> QED BY <1>1, <1>2, <1>4, <2>2, <2>3, <2>5, <3>1, <3>2, ReturnStep
  <2>6. CASE q = taken /\ Throw /\ UNCHANGED held
    <3>1. fails' \in 0 .. MaxFails
      BY <1>2 DEF TypeOK
    <3> QED BY <1>1, <1>2, <1>4, <2>6, <3>1, ThrowStep
  <2> QED BY <2>1, <2>4, <2>5, <2>6
<1> QED BY <1>1, <1>5, <1>6, <1>7

\* A refused read throws.
LEMMA ReadFailsStep == IInv /\ ReadFails => IInv'
<1> SUFFICES ASSUME IInv, ReadFails PROVE IInv'
  OBVIOUS
<1>1. call.op \in {"read", "line"} /\ taken' \in taken .. sent /\ fails' \in 0 .. MaxFails
  BY BoundAssumption, SMT DEF IInv, TypeOK, ReadFails
<1> QED BY <1>1, ThrowStep DEF ReadFails

\* The invariant is inductive.
LEMMA NextIInv == IInv /\ [Next]_vars => IInv'
<1> SUFFICES ASSUME IInv, [Next]_vars PROVE IInv'
  OBVIOUS
<1>1. CASE UNCHANGED vars
  BY <1>1 DEF vars, IInv, TypeOK, Running, CanonicalKeepsNothing, HandedInv, Start, Due, Ch
<1>2. CASE Next
  BY <1>2, DeviceStep, OpenStep, CloseStep, CallReadStep, CallReadLineStep, ReadReturnsStep,
     LineReadsStep, ReadFailsStep DEF Next
<1> QED BY <1>1, <1>2

\* Hence it always holds.
LEMMA SpecIInv == Spec => []IInv
<1> QED BY InitIInv, NextIInv, PTL DEF Spec

\* Every variable keeps its type, and a waiting call has an empty
\* m_readBuffer and room for what it waits for.
THEOREM TypeCorrect == Spec => []TypeOK
<1>1. IInv => TypeOK
  BY DEF IInv
<1> QED BY <1>1, SpecIInv, PTL

\* On a device with the constructor's settings no line is ever left in
\* m_readBuffer, however long the lines and the chunks are.
THEOREM CanonicalCorrect == Spec => []CanonicalKeepsNothing
<1>1. IInv => CanonicalKeepsNothing
  BY DEF IInv
<1> QED BY <1>1, SpecIInv, PTL

\* What a call returns starts where its last one ended, or later; only a
\* newline left in m_readBuffer is given again.
THEOREM OrderCorrect == Spec => InOrderOnce
<1> DEFINE A == last' # last /\ last'.how = "returned" =>
                  \/ last'.lo >= handed \/ last'.lo = last'.hi
                  \/ last'.lo = handed - 1 /\ Ch(handed) = NL
<1>1. IInv /\ [Next]_vars => [A]_vars
  <2> SUFFICES ASSUME IInv, Next, last' # last, last'.how = "returned"
               PROVE  A
    OBVIOUS
  <2>1. Start \in Nat /\ handed \in Nat /\ taken \in Nat /\ handed <= taken
    BY BoundAssumption, SMT DEF IInv, TypeOK, Start, Due
  <2>2. handed <= Start \/ (Start = handed - 1 /\ Ch(handed) = NL)
    BY <2>1, SMT DEF IInv, HandedInv
  <2>3. \A op, from, lo, hi : Return(op, from, lo, hi) => last'.lo = lo
    BY DEF Return
  <2>4. Throw => FALSE
    BY DEF Throw
  <2>5. \A op, room : Wait(op, room) => FALSE
    BY DEF Wait
  <2>6. last'.lo = Start \/ last'.lo = taken
    <3>1. ASSUME NEW size \in Sizes, CallRead(size) PROVE last'.lo = Start
      BY <2>3, <2>5, <3>1 DEF CallRead, Start, Idle
    <3>2. ASSUME CallReadLine PROVE last'.lo = Start
      BY <2>3, <2>5, <3>2 DEF CallReadLine, Start, Idle
    <3>3. ASSUME ReadReturns PROVE last'.lo = Start
      BY <2>3, <3>3 DEF ReadReturns, Start
    <3>4. ASSUME LineReads PROVE last'.lo = Start \/ last'.lo = taken
      BY <2>3, <2>4, <3>4 DEF LineReads, EndOfLine, Start
    <3> QED BY <2>4, <3>1, <3>2, <3>3, <3>4
            DEF Next, Arrive, HangUp, Open, Close, ReadFails
  <2> QED BY <2>1, <2>2, <2>6, SMT
<1> QED BY <1>1, SpecIInv, PTL DEF Spec, InOrderOnce

\* A read that returns gives all there is between the first byte due and
\* the next one: its two parts join without a gap.
THEOREM ReadCorrect == Spec => ReadLosesNothing
<1> DEFINE A == last' # last /\ last'.op = "read" /\ last'.how = "returned" =>
                  last'.lo = last'.from /\ last'.hi = Due'
<1>1. IInv /\ [Next]_vars => [A]_vars
  <2> SUFFICES ASSUME IInv, Next, last' # last, last'.op = "read", last'.how = "returned"
               PROVE  A
    OBVIOUS
  <2>1. \A op, from, lo, hi : Return(op, from, lo, hi) =>
          last'.op = op /\ last'.from = from /\ last'.lo = lo /\ last'.hi = hi
    BY DEF Return
  <2>2. Throw => FALSE
    BY DEF Throw
  <2>3. \A op, room : Wait(op, room) => FALSE
    BY DEF Wait
  <2>4. taken \in Nat /\ held \in 0 .. taken
    BY BoundAssumption, SMT DEF IInv, TypeOK
  <2>5. ASSUME NEW size \in Sizes, CallRead(size) PROVE A
    <3>1. size <= held /\ Return("read", Due, Due, Due + size) /\ taken' = taken
      BY <2>3, <2>5 DEF CallRead
    <3>2. held' = held - size /\ size \in Nat
      BY <2>4, <2>5, <3>1, BoundAssumption, SMT DEF CallRead, Least
    <3>3. Due' = Due + size
      BY <2>4, <3>1, <3>2, SMT DEF Due
    <3> QED BY <2>1, <3>1, <3>3
  <2>6. ASSUME ReadReturns PROVE A
    <3>1. PICK hi \in taken .. Length : taken' = hi /\ Return("read", call.lo, call.lo, hi)
      BY <2>6 DEF ReadReturns
    <3>2. held' = 0 /\ hi \in Nat
      BY <2>4, <2>6, SMT DEF ReadReturns, IInv, Running
    <3>3. Due' = hi
      BY <3>1, <3>2, SMT DEF Due
    <3> QED BY <2>1, <3>1, <3>3
  <2>7. CallReadLine => FALSE
    BY <2>1, <2>3 DEF CallReadLine
  <2>8. LineReads => FALSE
    BY <2>1, <2>2 DEF LineReads, EndOfLine
  <2> QED BY <2>2, <2>5, <2>6, <2>7, <2>8
          DEF Next, Arrive, HangUp, Open, Close, ReadFails
<1> QED BY <1>1, SpecIInv, PTL DEF Spec, ReadLosesNothing

-------------------------------------------------------------------------------
(* Lines that fit one chunk                                                *)

\* No end of input between the positions.
NoEof(lo, hi) == \A q \in lo + 1 .. hi : ~Eof(q)

\* A readLine that has gone to the device has seen no newline yet, and on a
\* canonical device it has read nothing or a chunk, for no line ended before,
\* unless it met an EOT.
LineInv == call.op = "line" =>
             /\ NoNewline(call.lo, taken)
             /\ "ICANON" \in tty /\ up /\ NoEof(call.lo, taken) =>
                  taken = call.lo \/ taken >= call.lo + Chunk

LEMMA WithoutNewline ==
  ASSUME NEW lo \in Nat, NEW mid \in Nat, NEW hi \in Nat,
         NoNewline(lo, mid), NoNewline(mid, hi)
  PROVE  NoNewline(lo, hi)
<1>1. \A p \in lo + 1 .. hi : p \in lo + 1 .. mid \/ p \in mid + 1 .. hi
  BY SMT
<1> QED BY <1>1 DEF NoNewline

\* While the peer is there a canonical device gives the rest of a line, or as
\* much of it as there is room for.
LEMMA CanonicalRead ==
  ASSUME IInv, "ICANON" \in tty, up, NEW hi \in taken .. Length, FdRead(Chunk, hi)
  PROVE  \E p \in 1 .. sent : /\ FirstEnd(p, taken, sent)
                              /\ \/ hi = Least(taken + Chunk, p)
                                 \/ Eof(p) /\ hi = p
BY DEF FdRead

LEMMA LineReadsLineInv ==
  ASSUME IInv, LineInv, LineReads
  PROVE  LineInv'
<1>1. PICK hi \in taken .. Length :
        /\ FdRead(Chunk, hi)
        /\ taken' = hi
        /\ \/ Return("line", call.lo, call.lo, hi)
           \/ NoNewline(taken, hi) /\ UNCHANGED call
           \/ \E p \in taken + 1 .. hi : FirstNewline(p, taken, hi) /\ EndOfLine(p, hi)
  BY DEF LineReads
<1>2. UNCHANGED <<text, up, tty>> /\ call.op = "line"
  BY DEF LineReads, line, port
<1>3. taken \in Nat /\ call.lo \in Nat /\ call.lo <= taken /\ hi \in Nat /\ Chunk \in Nat \ {0}
  BY BoundAssumption, SMT DEF IInv, TypeOK
<1>4. CASE call' = Idle
  BY <1>4 DEF LineInv, Idle
<1>5. CASE NoNewline(taken, hi) /\ UNCHANGED call
  <2>1. NoNewline(call.lo, taken)
    BY <1>2 DEF LineInv
  <2>2. NoNewline(call.lo, hi)
    BY <1>3, <1>5, <2>1, WithoutNewline
  <2>3. ASSUME "ICANON" \in tty, up, NoEof(call.lo, hi) PROVE hi >= call.lo + Chunk
    <3>1. PICK p \in 1 .. sent : /\ FirstEnd(p, taken, sent)
                                 /\ \/ hi = Least(taken + Chunk, p)
                                    \/ Eof(p) /\ hi = p
      BY <1>1, <2>3, CanonicalRead
    <3>2. (Ch(p) = NL \/ Eof(p)) /\ p > taken /\ p \in Nat
      BY <1>3, <3>1, SMT DEF FirstEnd
    <3>3. p \notin taken + 1 .. hi
      <4>1. p \in taken + 1 .. hi => p \in call.lo + 1 .. hi
        BY <1>3, SMT
      <4> QED BY <1>5, <2>3, <3>2, <4>1 DEF NoNewline, NoEof
    <3>4. p # hi
      BY <1>3, <3>2, <3>3, SMT
    <3>5. hi = taken + Chunk
      BY <3>1, <3>4, SMT DEF Least
    <3> QED BY <1>3, <3>5, SMT
  <2>4. NoNewline(call.lo, hi)'
    BY <1>2, <1>5, <2>2 DEF NoNewline, Ch
  <2>5. NoEof(call.lo, taken)' => NoEof(call.lo, hi)
    BY <1>1, <1>2, <1>5 DEF NoEof, Eof
  <2> QED BY <1>1, <1>2, <1>5, <2>3, <2>4, <2>5 DEF LineInv, NoNewline, Ch
<1> QED BY <1>1, <1>4, <1>5 DEF EndOfLine, Return, Throw

LEMMA NextLineInv ==
  ASSUME IInv, LineInv, [Next]_vars
  PROVE  LineInv'
<1>1. CASE Arrive \/ HangUp \/ UNCHANGED vars
  <2>1. UNCHANGED <<text, tty, taken, call>> /\ (up' => up)
    BY <1>1 DEF Arrive, HangUp, vars, port
  <2> QED BY <2>1 DEF LineInv, NoNewline, Ch, NoEof, Eof
<1>2. CASE Open
  <2>1. call.op = "none" /\ call' = call
    BY <1>2 DEF Open, IInv, Running
  <2> QED BY <2>1 DEF LineInv
<1>3. CASE Close
  <2>1. call' = Idle
    BY <1>3 DEF Close
  <2> QED BY <2>1 DEF LineInv, Idle
<1>4. CASE \E size \in Sizes : CallRead(size)
  <2>1. call'.op # "line"
    BY <1>4 DEF CallRead, Return, Wait, Idle
  <2> QED BY <2>1 DEF LineInv
<1>5. CASE ReadReturns
  <2>1. call'.op # "line"
    BY <1>5 DEF ReadReturns, Return, Idle
  <2> QED BY <2>1 DEF LineInv
<1>6. CASE CallReadLine
  <2>1. call' = Idle \/ (NoNewline(Due, taken) /\ Wait("line", Chunk))
    BY <1>6 DEF CallReadLine, Return
  <2>2. UNCHANGED <<text, tty, taken>> /\ open
    BY <1>6 DEF CallReadLine, line, port
  <2>3. CASE call' = Idle
    BY <2>3 DEF LineInv, Idle
  <2>4. CASE NoNewline(Due, taken) /\ Wait("line", Chunk)
    <3>1. call'.lo = Due
      BY <2>4 DEF Wait
    <3>2. "ICANON" \in tty => Due = taken
      BY <2>2, SMT DEF IInv, TypeOK, CanonicalKeepsNothing, Due
    <3>3. NoNewline(call.lo, taken)'
      BY <2>2, <2>4, <3>1 DEF NoNewline, Ch
    <3> QED BY <2>2, <3>1, <3>2, <3>3 DEF LineInv
  <2> QED BY <2>1, <2>3, <2>4
<1>7. CASE LineReads
  BY <1>7, LineReadsLineInv
<1>8. CASE ReadFails
  <2>1. call' = Idle
    BY <1>8 DEF ReadFails, Throw
  <2> QED BY <2>1 DEF LineInv, Idle
<1> QED BY <1>1, <1>2, <1>3, <1>4, <1>5, <1>6, <1>7, <1>8 DEF Next

\* A line that fits a chunk and has no EOT in it comes from one read of the
\* device and is returned whole, up to its line end (readLine).
THEOREM LinesCorrect == Spec => ShortLinesWhole
<1> DEFINE Whole(p) == /\ last'.lo = last'.from
                       /\ \A q \in last'.lo + 1 .. p : q > last'.hi => LineEnd(q)
                       /\ last'.hi > last'.lo => ~LineEnd(last'.hi)
           A == last' # last /\ last'.op = "line" /\ last'.how = "returned" /\ "ICANON" \in tty =>
                  \A p \in 1 .. Length :
                    /\ FirstNewline(p, last'.from, sent) /\ p <= last'.from + Chunk /\ up
                    /\ NoEof(last'.from, p)
                    => Whole(p)
<1>1. Init => LineInv
  BY DEF Init, Idle, LineInv
<1>2. IInv /\ LineInv /\ [Next]_vars => [A]_vars
  <2> SUFFICES ASSUME IInv, LineInv, Next, last' # last, last'.op = "line",
                      last'.how = "returned", "ICANON" \in tty,
                      NEW p \in 1 .. Length, FirstNewline(p, last'.from, sent),
                      p <= last'.from + Chunk, up, NoEof(last'.from, p)
               PROVE  Whole(p)
    OBVIOUS
  <2>1. \A op, from, lo, hi : Return(op, from, lo, hi) =>
          last'.op = op /\ last'.from = from /\ last'.lo = lo /\ last'.hi = hi
    BY DEF Return
  <2>2. Throw => FALSE
    BY DEF Throw
  <2>3. \A op, room : Wait(op, room) => FALSE
    BY DEF Wait
  <2>4. /\ taken \in Nat /\ call.lo \in Nat /\ call.lo <= taken /\ sent \in Nat
        /\ Chunk \in Nat \ {0} /\ Length \in Nat
    BY BoundAssumption, SMT DEF IInv, TypeOK
  <2>5. ~CallReadLine
    <3> SUFFICES ASSUME CallReadLine PROVE FALSE
      OBVIOUS
    <3>1. PICK q \in 1 .. taken : FirstNewline(q, Due, taken)
      BY <2>3 DEF CallReadLine
    <3>2. Due = taken
      BY <2>4, SMT DEF CallReadLine, IInv, CanonicalKeepsNothing, Due
    <3> QED BY <2>4, <3>1, <3>2, SMT DEF FirstNewline
  <2>6. LineReads
    BY <2>1, <2>2, <2>3, <2>5
       DEF Next, Arrive, HangUp, Open, Close, CallRead, ReadReturns, ReadFails
  <2>7. PICK hi \in taken .. Length :
          /\ FdRead(Chunk, hi)
          /\ \/ (\A q \in taken + 1 .. hi : Eof(q)) /\ Return("line", call.lo, call.lo, hi)
             \/ \E q \in taken + 1 .. hi : FirstNewline(q, taken, hi) /\ EndOfLine(q, hi)
    BY <2>6 DEF LineReads
  <2>8. last'.from = call.lo
    BY <2>1, <2>2, <2>7 DEF EndOfLine
  <2>9. /\ p \in call.lo + 1 .. sent /\ Ch(p) = NL /\ p <= call.lo + Chunk
        /\ FirstNewline(p, call.lo, sent) /\ NoEof(call.lo, p)
    BY <2>8 DEF FirstNewline
  <2>10. taken = call.lo
    <3>1. p \notin call.lo + 1 .. taken
      BY <2>6, <2>9 DEF LineInv, LineReads, NoNewline
    <3>2. taken < p
      BY <2>4, <2>9, <3>1, SMT
    <3>3. NoEof(call.lo, taken)
      <4>1. \A q \in call.lo + 1 .. taken : q \in call.lo + 1 .. p
        BY <2>4, <2>9, <3>2, SMT
      <4> QED BY <2>9, <4>1 DEF NoEof
    <3>4. taken = call.lo \/ taken >= call.lo + Chunk
      BY <2>6, <3>3 DEF LineInv, LineReads
    <3> QED BY <2>4, <2>9, <3>2, <3>4, SMT
  <2>11. PICK r \in 1 .. sent : /\ FirstEnd(r, taken, sent)
                                /\ \/ hi = Least(taken + Chunk, r)
                                   \/ Eof(r) /\ hi = r
    BY <2>7, CanonicalRead
  <2>12. r = p
    <3>1. r \in taken + 1 .. sent /\ (Ch(r) = NL \/ Eof(r))
          /\ \A q \in taken + 1 .. r - 1 : Ch(q) # NL
      BY <2>11 DEF FirstEnd
    <3>2. \A q \in call.lo + 1 .. p - 1 : Ch(q) # NL
      BY <2>9 DEF FirstNewline
    <3>3. ~(p < r)
      BY <2>4, <2>9, <2>10, <3>1, SMT
    <3>4. ~(r < p)
      <4> SUFFICES ASSUME r < p PROVE FALSE
        OBVIOUS
      <4>1. r \in call.lo + 1 .. p - 1 /\ r \in call.lo + 1 .. p
        BY <2>4, <2>9, <2>10, <3>1, SMT
      <4> QED BY <2>9, <3>1, <3>2, <4>1 DEF NoEof
    <3> QED BY <2>9, <3>1, <3>3, <3>4, SMT
  <2>13. hi = p /\ hi > taken
    BY <2>4, <2>9, <2>10, <2>11, <2>12, SMT DEF Least
  <2>here. ~Eof(p) /\ p \in taken + 1 .. hi
    <3>1. p \in call.lo + 1 .. p /\ p \in taken + 1 .. hi
      BY <2>4, <2>9, <2>10, <2>13, SMT
    <3> QED BY <2>9, <3>1 DEF NoEof
  <2>14. PICK q \in taken + 1 .. hi : FirstNewline(q, taken, hi) /\ EndOfLine(q, hi)
    BY <2>7, <2>here
  <2>15. q = p
    BY <2>4, <2>9, <2>10, <2>13, <2>14, FirstNewlineUnique
  <2>16. PICK k \in taken .. p - 1 :
           /\ KeptUpTo(k, taken, p)
           /\ \/ k > taken /\ Return("line", call.lo, taken, k)
              \/ k = taken /\ Return("line", call.lo, call.lo, taken)
    BY <2>2, <2>14, <2>15 DEF EndOfLine
  <2>17. last'.lo = taken /\ last'.hi = k /\ last'.from = taken
    BY <2>1, <2>10, <2>16
  <2>18. \A e \in taken + 1 .. p : e > k => LineEnd(e)
    <3>1. \A e \in taken + 1 .. p : e > k => e \in k + 1 .. p
      BY <2>4, <2>16, SMT
    <3> QED BY <2>16, <3>1 DEF KeptUpTo
  <2>19. k > taken => ~LineEnd(k)
    BY <2>16 DEF KeptUpTo
  <2> QED BY <2>17, <2>18, <2>19
<1>3. LineInv /\ IInv /\ [Next]_vars => LineInv'
  BY NextLineInv
<1>4. Spec => []LineInv
  BY <1>1, <1>3, SpecIInv, PTL DEF Spec
<1> QED BY <1>2, <1>4, SpecIInv, PTL DEF Spec, ShortLinesWhole, NoEof
===============================================================================
