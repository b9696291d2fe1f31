------------------------------ MODULE SerialLine ------------------------------
(***************************************************************************)
(* BFSerial (bf/io/bfserial.cpp): a serial port, read by bytes or by lines.*)
(* A read of the descriptor may bring the start of the line after the one  *)
(* wanted; readLine keeps it in m_readBuffer for the next call.            *)
(*                                                                         *)
(* The peer's bytes are a fixed text and a byte is its position in it, so  *)
(* that losing, repeating or reordering one shows.  What a call collects   *)
(* and what m_readBuffer holds are runs of positions: the bytes after lo,  *)
(* up to hi; an EOT that ends a read of a canonical device belongs to the  *)
(* run and to no caller's text.  m_readBuffer always ends at the last byte *)
(* taken from the descriptor, so its length is all there is to know.       *)
(*                                                                         *)
(* One thread calls the port; the peer writes while a call waits.          *)
(* Definitions marked "Fault" are the definition after them with a bug, to *)
(* see that the properties notice; no specification uses them.             *)
(***************************************************************************)
EXTENDS Naturals

CONSTANTS Byte, CR, NL,
          EOT,       \* the byte 4 of c_cc[VEOF]
          Length,    \* the number of bytes the peer sends
          Chunk,     \* sizeof(buffer) in readLine
          Sizes,     \* the buffer sizes callers give to read
          MaxFails   \* bound on the reads the system refuses

ASSUME ByteAssumption  == {CR, NL, EOT} \subseteq Byte /\ CR # NL /\ EOT \notin {CR, NL}
ASSUME BoundAssumption == /\ Length \in Nat /\ Chunk \in Nat \ {0}
                          /\ Sizes \subseteq Nat \ {0} /\ MaxFails \in Nat

VARIABLES text,    \* all that the peer sends
          sent,    \* how much of it has arrived at the device
          up,      \* whether the peer is still there
          device,  \* "tty", or "other" (a fifo): open takes any path
          tty,     \* the input flags set on the device
          oldtio,  \* m_oldtio, as saved by the last open
          open,    \* whether a BFSerial exists
          taken,   \* how much has been read from the descriptor
          held,    \* m_readBuffer.size()
          call,    \* the running call: what it collected starts after lo
          last,    \* what the last call returned: the bytes after lo, up to
                   \* hi; from is where the call began
          handed,  \* the last byte a caller has got
          fails    \* reads refused so far

line == <<text, sent, up, device>>
port == <<tty, oldtio, open>>
vars == <<text, sent, up, device, tty, oldtio, open, taken, held, call, last,
          handed, fails>>

Flags    == {"ICANON", "ICRNL"}
Idle     == [op |-> "none", lo |-> 0, room |-> 0]

\* The byte the program sees at position p.
Ch(p) == IF "ICRNL" \in tty /\ text[p] = CR THEN NL ELSE text[p]
LineEnd(p) == Ch(p) \in {CR, NL}

\* A canonical device takes the byte at p for the end of what was typed: a
\* read ends there, and the byte itself is not given to anybody.
Eof(p) == "ICANON" \in tty /\ text[p] = EOT

\* p is the first newline after lo, up to hi.
FirstNewline(p, lo, hi) ==
  p \in lo + 1 .. hi /\ Ch(p) = NL /\ \A q \in lo + 1 .. p - 1 : Ch(q) # NL
NoNewline(lo, hi) == \A p \in lo + 1 .. hi : Ch(p) # NL

\* p is the first position after lo, up to hi, at which a canonical device
\* ends a read.
FirstEnd(p, lo, hi) ==
  /\ p \in lo + 1 .. hi /\ (Ch(p) = NL \/ Eof(p))
  /\ \A q \in lo + 1 .. p - 1 : Ch(q) # NL /\ ~Eof(q)

Least(a, b) == IF a <= b THEN a ELSE b
Most(a, b)  == IF a <= b THEN b ELSE a

\* The byte before the next one a caller is due.
Due == taken - held

Init == /\ text \in [1 .. Length -> Byte]
        /\ sent = 0 /\ up = TRUE
        /\ \/ device = "tty"   /\ tty = {"ICANON", "ICRNL"}
           \/ device = "other" /\ tty = {}
        /\ oldtio = tty /\ open = FALSE
        /\ taken = 0 /\ held = 0 /\ call = Idle /\ handed = 0 /\ fails = 0
        /\ last = [op |-> "none", how |-> "none", from |-> 0, lo |-> 0, hi |-> 0]

-------------------------------------------------------------------------------
(* The device                                                              *)

\* The peer's next byte arrives.
Arrive == /\ up /\ sent < Length
          /\ sent' = sent + 1
          /\ UNCHANGED <<text, up, device, port, taken, held, call, last, handed, fails>>

HangUp == /\ up /\ up' = FALSE
          /\ UNCHANGED <<text, sent, device, port, taken, held, call, last, handed, fails>>

\* read(2) with this much room returns the bytes after taken, up to hi; it
\* waits as long as there is no such hi.  A canonical device gives no more
\* than one line, or what precedes an EOT, which may be nothing; an EOT right
\* behind the room may be taken or left to a read of its own.  A device that
\* lost its peer gives the end of the input.
FdRead(room, hi) ==
  \/ /\ "ICANON" \in tty /\ up
     /\ \E p \in 1 .. sent :
          /\ FirstEnd(p, taken, sent)
          /\ \/ hi = Least(taken + room, p)
             \/ Eof(p) /\ p = taken + room + 1 /\ hi = p
  \/ /\ "ICANON" \notin tty /\ taken < sent
     /\ hi = Least(taken + room, sent)
  \/ /\ ~up /\ (device = "tty" \/ taken = sent)
     /\ hi = taken

-------------------------------------------------------------------------------
(* Opening and closing the port                                            *)

\* The settings of the constructor: a canonical device and no input flag; of
\* the special characters only VEOF is not switched off (Eof).
NewTermios == {"ICANON"}

\* The constructor saves the settings, drops the input that waits and puts
\* its own settings; it does not ask whether the device took them.
Open == /\ ~open /\ up
        /\ open' = TRUE
        /\ IF device = "tty" THEN /\ oldtio' = tty /\ tty' = NewTermios
                                  /\ taken' = sent
                             ELSE UNCHANGED <<oldtio, tty, taken>>
        /\ held' = 0
        /\ UNCHANGED <<line, call, last, handed, fails>>

\* The destructor puts the old settings back.
Close == /\ open /\ call = Idle
         /\ open' = FALSE /\ tty' = oldtio /\ held' = 0
         /\ taken' = taken
         /\ UNCHANGED <<line, oldtio, call, last, handed, fails>>

-------------------------------------------------------------------------------
(* Calls                                                                   *)

\* The running call returns the bytes after lo, up to hi.
Return(op, from, lo, hi) ==
  /\ last' = [op |-> op, how |-> "returned", from |-> from, lo |-> lo, hi |-> hi]
  /\ handed' = Most(handed, hi)
  /\ call' = Idle

\* The running call ends with an exception; what it collected is gone.
Throw == /\ last' = [op |-> call.op, how |-> "threw", from |-> call.lo,
                     lo |-> call.lo, hi |-> call.lo]
         /\ call' = Idle
         /\ UNCHANGED handed

\* The call waits for the descriptor.
Wait(op, room) == /\ call' = [op |-> op, lo |-> Due, room |-> room]
                  /\ UNCHANGED <<last, handed>>

\* Fault: the whole of m_readBuffer is dropped, whatever the caller's size.
CallReadDropping(size) ==
  /\ open /\ call = Idle
  /\ held' = 0
  /\ IF size <= held /\ held > 0 THEN Return("read", Due, Due, Due + size)
                                 ELSE Wait("read", size - held)
  /\ UNCHANGED <<line, port, taken, fails>>

\* read: what m_readBuffer holds, then, if there is room, the descriptor.
CallRead(size) ==
  /\ open /\ call = Idle
  /\ held' = held - Least(held, size)
  /\ IF size <= held /\ held > 0 THEN Return("read", Due, Due, Due + size)
                                 ELSE Wait("read", size - held)
  /\ UNCHANGED <<line, port, taken, fails>>

ReadReturns ==
  /\ call.op = "read"
  /\ \E hi \in taken .. Length : /\ FdRead(call.room, hi)
                                 /\ taken' = hi
                                 /\ Return("read", call.lo, call.lo, hi)
  /\ UNCHANGED <<line, port, held, fails>>

\* Fault: m_readBuffer is not cleared when it holds no newline.
CallReadLineKeeping ==
  /\ open /\ call = Idle
  /\ \/ \E p \in 1 .. taken :
          /\ FirstNewline(p, Due, taken)
          /\ Return("line", Due, Due, p)
          /\ held' = taken - (p - 1)
     \/ /\ NoNewline(Due, taken)
        /\ Wait("line", Chunk)
        /\ UNCHANGED held
  /\ UNCHANGED <<line, port, taken, fails>>

\* readLine: up to a newline in m_readBuffer, newline included in the result
\* and left in the buffer; or else all of the buffer, and on to the device.
CallReadLine ==
  /\ open /\ call = Idle
  /\ \/ \E p \in 1 .. taken :
          /\ FirstNewline(p, Due, taken)
          /\ Return("line", Due, Due, p)
          /\ held' = taken - (p - 1)
     \/ /\ NoNewline(Due, taken)
        /\ Wait("line", Chunk)
        /\ held' = 0
  /\ UNCHANGED <<line, port, taken, fails>>

\* Fault: the newline is kept along with what follows it.
RestWithNewline(p, hi) == held' = hi - (p - 1)

\* What comes after the newline at p is kept for the next call.
Rest(p, hi) == held' = hi - p

\* Fault: only the newline itself is cut off.
KeptUpToNewline(q, lo, p) == q = p - 1

\* The line that ends with the newline at p is kept up to q: the carriage
\* returns and newlines at its end go, back to the start of the chunk.
KeptUpTo(q, lo, p) == /\ q \in lo .. p - 1
                      /\ \A r \in q + 1 .. p : LineEnd(r)
                      /\ q > lo => ~LineEnd(q)

\* A chunk has a newline at p.  If something is left of the line in this
\* chunk, that is the result, whatever was collected before it.  If not, the
\* loop that counts the line ends has left the array at its front: the byte
\* it finds there ends it, and what was collected is the result, or does
\* not, and the length of the result is a huge number.
EndOfLine(p, hi) ==
  \E q \in taken .. p - 1 :
    /\ KeptUpTo(q, taken, p)
    /\ \/ q > taken /\ Return("line", call.lo, taken, q) /\ Rest(p, hi)
       \/ q = taken /\ Return("line", call.lo, call.lo, taken) /\ Rest(p, hi)
       \/ q = taken /\ Throw /\ UNCHANGED held

\* A chunk with no byte ends the line; one without a newline is added to what
\* was collected.
LineReads ==
  /\ call.op = "line"
  /\ \E hi \in taken .. Length :
       /\ FdRead(Chunk, hi)
       /\ taken' = hi
       /\ \/ /\ \A p \in taken + 1 .. hi : Eof(p)
             /\ Return("line", call.lo, call.lo, hi)
             /\ UNCHANGED held
          \/ /\ \E p \in taken + 1 .. hi : ~Eof(p)
             /\ NoNewline(taken, hi)
             /\ UNCHANGED <<call, last, handed, held>>
          \/ \E p \in taken + 1 .. hi : FirstNewline(p, taken, hi) /\ EndOfLine(p, hi)
  /\ UNCHANGED <<line, port, fails>>

\* The system refuses the read (EINTR, EIO) and BFSimpleFd::read throws.
ReadFails == /\ call.op # "none" /\ fails < MaxFails
             /\ fails' = fails + 1
             /\ Throw
             /\ UNCHANGED <<line, port, taken, held>>

Next == \/ Arrive \/ HangUp \/ Open \/ Close
        \/ \E size \in Sizes : CallRead(size)
        \/ ReadReturns \/ CallReadLine \/ LineReads \/ ReadFails

Spec == Init /\ [][Next]_vars

\* The peer sends its text and the program goes on reading lines; nobody
\* needs to open, close or hang up, or to call read.
Fairness == /\ WF_vars(Arrive) /\ WF_vars(CallReadLine)
            /\ WF_vars(ReadReturns) /\ WF_vars(LineReads)
FairSpec == Spec /\ Fairness

-------------------------------------------------------------------------------
(* Properties                                                              *)

TypeOK ==
  /\ text \in [1 .. Length -> Byte] /\ sent \in 0 .. Length /\ up \in BOOLEAN
  /\ device \in {"tty", "other"} /\ open \in BOOLEAN
  /\ tty \subseteq Flags /\ oldtio \subseteq Flags
  /\ taken \in 0 .. sent /\ held \in 0 .. taken /\ handed \in 0 .. taken
  /\ call \in [op : {"none", "read", "line"}, lo : 0 .. taken, room : Nat]
  /\ call.op # "none" => held = 0 /\ call.room > 0
  /\ last \in [op : {"none", "read", "line"}, how : {"none", "returned", "threw"},
               from : 0 .. taken, lo : 0 .. taken, hi : 0 .. taken]
  /\ fails \in 0 .. MaxFails

\* On a device that took the settings of the constructor m_readBuffer stays
\* empty, so that readLine never comes to the branch that leaves a newline in
\* it and gives that newline again to every later call (bfserial.cpp:150-161).
CanonicalKeepsNothing == open /\ "ICANON" \in tty => held = 0

\* No byte is given twice and none out of order, whatever calls, failures and
\* chunks come between; only a newline that readLine left behind in
\* m_readBuffer comes again (bfserial.cpp:157-158).
InOrderOnce ==
  [][last' # last /\ last'.how = "returned" =>
       \/ last'.lo >= handed \/ last'.lo = last'.hi
       \/ last'.lo = handed - 1 /\ Ch(handed) = NL]_vars

\* A call of read that returns has given all it took, from the first byte due
\* to the last byte taken or erased: m_readBuffer and the descriptor join
\* without a gap (bfserial.cpp:118-144).
ReadLosesNothing ==
  [][last' # last /\ last'.op = "read" /\ last'.how = "returned" =>
       last'.lo = last'.from /\ last'.hi = Due']_vars

\* On a canonical device a line that fits one chunk, or what earlier calls
\* left of it, is returned whole and without its line end, unless there is
\* nothing of it but its line end (bfserial.cpp:170-195).  A line with an EOT
\* in it comes in two reads (bfserial.cpp:87), and line 185 replaces what the
\* first of them gave: nothing is said of it.
ShortLinesWhole ==
  [][last' # last /\ last'.op = "line" /\ last'.how = "returned" /\ "ICANON" \in tty =>
       \A p \in 1 .. Length :
         /\ FirstNewline(p, last'.from, sent) /\ p <= last'.from + Chunk /\ up
         /\ \A q \in last'.from + 1 .. p : ~Eof(q)
         =>
           /\ last'.lo = last'.from
           /\ \A q \in last'.lo + 1 .. p : q > last'.hi => LineEnd(q)
           /\ last'.hi > last'.lo => ~LineEnd(last'.hi)]_vars

\* On a canonical device a program that goes on reading lines comes past every
\* newline that has arrived, whatever throws or reads nothing on the way, as
\* long as the port and the peer are there.
LinesAreRead ==
  \A p \in 1 .. Length :
    (open /\ "ICANON" \in tty /\ p <= sent /\ text[p] = NL) ~> (taken >= p \/ ~open \/ ~up)
===============================================================================
