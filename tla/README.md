# libbf in TLA+

A verification project for [libbf](https://github.com/bitforgebr/libbf), a C++11
utility library: buffers, a string that shares its memory, sockets and serial lines,
number conversions, logging, and a small text user interface over ncurses.  The
modules here model its stateful parts, TLC checks them on small instances, and TLAPS
proves for every value of the constants what TLC checks of them, except for
liveness.  Line numbers are those of the files under `src/`.

## The system

libbf is a library: nothing in it starts a thread, and its components meet in the
program that uses them.  What interacts inside the library is small and is listed
here with the state each part keeps.

| Component | State | Operations | What is hard |
|---|---|---|---|
| `CircularBuffer<T>` (`bf/buffers.h:22`) | storage, read and write position, two counters | push, pop, discard, peek | counters run ahead of positions inside a call; wrap, full, empty |
| `BasicNCString<T>` (`bf/ncstring.h:27`) | shared block, pointer, length, capacity of each string | assign, copy, move, substr, append, chop, clear, `operator[]` | threads that share a block; writing in place when the owner is alone; capacity that outlives its block |
| `MemoryPool`, `MemoryPage` (`bf/buffers.h:183`) | stack of free pages | getPage, returnPage | a page knows its pool by a plain pointer; the limit of the cache |
| `SimpleBuffer<T>` (`bf/buffers.h:270`) | pages, write position, sizes | append, peek, moves, destruction | chunks at page boundaries; order of destruction |
| `NCMenu`, `NCForm`, `NCWidget` (`bf/ncurses`) | focused item, focus, redraw request, fields; beside them the form library's own state | keyEvent, redraw, initialize | two positions kept apart; callbacks that run in the middle of a key event |
| `NCApplication`, `NCWindow`, `NCStatusBar` (`bf/ncurses`) | stack of windows, terminated flag | exec, addWindow, removeWindow, terminate, setFocus | callbacks that change the stack the loop is working on |
| `BFIO`, `BFSimpleFd` (`bf/io/bfio.*`) | a descriptor | read, write, canRead, canWrite | who closes which descriptor |
| `BFSerial` (`bf/io/bfserial.*`) | the rest of a read, the terminal's old settings | read, readLine, opening, closing | a terminal delivers its bytes in any pieces; two ways of reading share one rest |
| `BFSocket` (`bf/io/net/bfsocket.*`) | a descriptor and its options | constructors, accept, read, write, splice | constructors that throw half-way; a number that has become somebody else's |
| `ServiceAddress` (`bf/io/net/bfsocket.*`) | the parts of a url | construction | which `:` and `/` end what; missing parts; a port cut to 16 bits |
| process helpers (`bf/bf.cpp`, `bf/service.h`) | pipes | runAttachedProcess, runAsAService, getNumCores, getSystemPageSize | which process keeps which end; fork and exec that fail |
| `fletcher32` (`bf/bf.cpp`) | two sums | one function | sums that wrap around |
| number conversions (`bf/inthex.h`) | a buffer | to text and back | digits written towards the front of a buffer; the most negative number |
| text keys (`bf/bf.h`) | none | strKey, striKey, `"..."_key` | sums of signed characters that wrap around |
| small helpers (`bf/bf.h`), `Log` (`bf/log.*`), `lock` (`bf/threads.h`) | none to speak of | pure functions, output, a guarded call | - |

Calls between them: `SimpleBuffer` holds a `MemoryPool` through a `shared_ptr` and
its pages return to the pool by a plain pointer; `MemoryPool` asks
`getSystemPageSize` for its default page size; windows hold widgets and widgets
their window; the application holds windows; items and buttons hold callbacks that
call back into the application; `BFSerial` reads through `BFSimpleFd`; sockets,
serial ports and started processes meet in the kernel's table of descriptors, each
trusting the numbers it keeps.

## Modules

| Module | Models | Implements |
|---|---|---|
| `BoundedQueue` | what a circular buffer promises | |
| `CircularBuffer` | `CircularBuffer<T>` | `BoundedQueue` |
| `CircularBufferProofs` | theorems of `CircularBuffer` | |
| `StringValues` | what strings promise: independent values | |
| `NCString` | `BasicNCString`, `BasicMemoryObject` | `StringValues` |
| `NCStringProofs` | theorems of `NCString` | |
| `AppendLog` | what growing buffers promise: logs | |
| `SimpleBuffer` | `MemoryPool`, `MemoryPage`, `SimpleBuffer<T>` | `AppendLog` |
| `SimpleBufferProofs` | theorems of `SimpleBuffer` | |
| `NCWidgets` | a menu and a form as functions of state and key | |
| `NCApplication` | the event loop, windows and callbacks; EXTENDS `NCWidgets` | |
| `NCApplicationProofs` | theorems of `NCWidgets` and `NCApplication` | |
| `SerialLine` | `BFSerial` over a terminal or a fifo | |
| `SerialLineProofs` | theorems of `SerialLine` | |
| `FdTable` | the table of descriptors (external) | |
| `Sockets` | who owns a descriptor: `BFSocket`, `BFSimpleFd`; EXTENDS `FdTable` | |
| `AttachedProcess` | `runAttachedProcess`, `ProcStreams`, `runAsAService`; EXTENDS `FdTable` | |
| `ProgramIO` | a program that uses both; composes `Sockets` and `AttachedProcess` | |
| `ProgramIOProofs` | theorems of these four | |
| `Fletcher32`, `Fletcher32Proofs` | the two loops of `fletcher32`; their theorems | |
| `IntHex` | `uinttostr`, `inttostr`, `inttohex`, `hextoint` | |
| `ServiceAddress` | the parser of urls | |
| `TextKeys` | `strKey`, `striKey`, `"..."_key` | |
| `Helpers` | composes the four: a thread that makes one call after the other | |
| `HelpersProofs` | theorems of the three above and of the composition; EXTENDS `Fletcher32Proofs` | |
| `MC...` | constants, sets and symmetry for TLC | |

Definitions commented *Fault* are variants with a bug somebody could write (a
dropped clamp, a missing reset, a swapped order).  No specification uses them;
putting one in the place of the definition after it makes a property fail, which
shows that the property looks at that line of the code.  `PROJECT.json` pairs them
with the properties.

### CircularBuffer

A call is modelled as the code runs it: an entering step clamps the size and moves
both counters (`push` 90-98, `pop` 113-121, `discard` 136-144, `peek` 163-169), then
each turn of `while (remain)` is a step of its own (`doWrite`, `doReadPop`,
`SkipDiscard`, `doReadPeek`), then `Return`.  Positions are offsets into the
storage; `Advance` is the move with the wrap of lines 61-64.  An early return for
size 0 is a call whose loop has nothing to do.  The object has no lock and is used
by one thread, so the steps of two calls do not mix; the steps are there to see the
middle of a call.  Elements are of one byte (`sizeof(T) = 1`), as `memcpy` at 60 and
71 takes element counts for byte counts.

- `Accounting`: counters, positions and the running call tell the same story.
- `UnreadIsKept` (action property): no step changes a cell that is stored and
  unread.
- `ImplementsQueue`: every call's answer and effect are those of a bounded FIFO
  queue, a call taking effect as it returns.
- `EveryCallReturns`: weak fairness on the steps of a running call, i.e. a thread
  that has entered a call goes on running it; nothing is assumed of callers.

Run `ring`: size 3 and requests of 0 to 4, so every operation meets an empty, a
partly filled and a full ring, at every offset, with and without a wrap and a clamp;
two element values tell the elements of any two neighbouring requests apart.

### NCString

Every string (`Handle`) belongs to a thread; what threads share are blocks.  A step
ends where an operation has read or written what another string can reach: at the
`use_count()` test (`AppendTest`, `ChopTest`), at the allocation that drops a
reference (`AppendAlloc`, `ChopAlloc`), at the write in place (`Extend`, `Cut`) and
at the copy out of the old block (`CopyOut`, which both slow paths end with).
Assignment from characters fills a block that nobody else has, so it is one step.
An operation that names two strings needs both idle: the strings have no lock of
their own, and the claim is about what they share behind the scenes.  `oldRef` is
the counted local reference of the slow paths, `oldBegin` the pointer beside it.  A
block is freed, and its cells forgotten, in the step that drops its last reference.

Three constants say what the callers do.  `Reuse`: copies and moves are assigned to
strings that have been used, not only to new ones.  `WriteShared`: `operator[]` is
used to write to a string that has copies.  `WriteEnd`: it is used to write at or
behind the end of a text, where it hands out the terminator itself (167-168,
`CellAt`).  The strings stay values without the first two, and each of those alone
breaks that (see Findings).  A character written over the terminator changes no value
of the strings, as every operation goes by `m_length`, but `c_str()` then has no end:
`Terminated` is about callers that do not.  `SetChar` writes characters of `Char`; a
terminator written into a text through `operator[]` is left out, and so is a write to
a string without a block, where the reference is to no cell.

- `InPlaceIsSafe`: at a write in place the string is still alone and the block is
  large enough for the text and its terminator.
- `OldBlockIsKept`: what a slow path copies from is alive and whole.
- `Terminated`: `c_str()` of an idle string ends where its text ends (run with
  `WriteEnd = FALSE`).
- `ImplementsValues`: under every interleaving the strings are independent values,
  each changed by its own operations only.

Runs `strings` (three strings, four blocks, one character, symmetry in strings and
blocks) and `string_texts` (two strings, two characters, texts of two, and
`WriteEnd = TRUE`: writes over the terminator change no value).  Of the texts of two
different characters only one is a literal, so that an append in the wrong order is not
an assignment of another.  Three strings are one more than is needed for two to share a
block while one of them is in the middle of an append; four blocks are one for each
string and one for a string that moves to a new block.  `MaxLen` bounds the lengths in
the guards of `AppendBranch`; no literal is longer.  Deadlock is not checked: when every block is
in use an allocation waits, where `new` would throw.

### SimpleBuffer

`MemoryPool`, the pages and the buffers over them.  `append` runs in steps
(`AppendCall`, `getNewPage`, `AppendChunk`), and so does the destruction of a buffer:
`Destroy` ends the object, `ReturnPage` destroys the pages of its `m_data` one after
the other, each of which calls `returnPage` through its plain pointer, and
`ReleasePool` lets go of `m_pool`, which is declared first (321) and destroyed last.
`old` and `oldPool` are what is still to go.  The implicit move assignment goes the
other way: it replaces `m_pool`, and with it lets go of the old pool, before the pages
of the old `m_data` are destroyed.  `MoveAssign` does both in this order.  A pool that
has lost its last reference goes, with no destructor to delete the pages on its stack;
those are recorded as `lost`.  A page whose pool is gone returns to freed memory: it is
lost, or deleted all the same.

The constant `DropsLast` says whether callers move a buffer into one that holds the
last pointer to its pool.  The runs have FALSE: seeing to it that somebody else keeps
that pool is the caller's duty, as nothing in the code does it.  With TRUE TLC finds
`ParentsAlive` violated by such an assignment in a few steps, and the other
properties of the run still hold.  Moved-from buffers are only destroyed or replaced.

- `PagesOwnedOnce`: every page is in one buffer, in what is left of one, on one stack,
  lost or deleted.
- `ParentsAlive`: the pool a page will return to is alive and made it, between any two
  steps of a destruction or an assignment too.  With the members destroyed in the other
  order (`DestroyPoolFirst`) it is false.
- `BookkeepingAgrees`: `m_size`, `m_writePos`, `m_availWrite` and the counts beside
  the pages agree between any two chunks.
- `ImplementsLog`: `peek` returns what was appended, in order.
- `AppendReturns`: under weak fairness on the steps of a running append, append
  ends.  `getSystemPageSize` is the page size of a pool whose maker names none;
  `Answer` is the number of characters `getconf` prints, `ItemSize` the 128 that
  `fread` is asked for.

Run `pages`: two buffers over two pools with pages of one and of two bytes, caches of
one page, four pages of memory and buffers of at most three bytes, so that appends end
before, at and after a page boundary, caches fill up, and pages change hands.  `AppendReturns` is
not a property of this run, whose pools name a page size; run `default_pool` is
about a pool that does not (see Findings).

### NCWidgets and NCApplication

`NCWidgets` gives the outcome of a key for a menu and a form: the widget after it
and the callback it runs.  The form library is external: it has a current field,
moves around the fields in a circle, and refuses to leave a field the user has made
invalid (`CanLeave`).  `NCApplication` is `exec`: the first pass, then `select`
(`KeyEvent`, `Timeout` or `Leave`) and `Redraw` in turn.  A key goes to the top
window's focused widget and the callback runs before `keyEvent` returns; it may
open, close or replace windows, move the focus, and terminate.  `drawn` holds the
windows drawn since the screen was last cleared.  A program may hold on to a window it
has closed and add it again, as it is: `kept` is the window closed last, and `again`
marks one that is back on the stack and has not been drawn since.  (One window is
remembered at a time, and the same window twice on the stack is left out.)  Text,
colours and coordinates are left out.

- `FormInSync`: `m_focusedItem` and the library's current field agree.
- `ButtonsOnlyWhenValid`: a button is reached only over valid fields.
- `KeysNeedInitialize`: no key reaches a form before its fields exist.
- `TopIsOnScreen`: `exec` has a top window, and it is on the screen, or it is one
  that was closed and added again: `addWindow` (54-57) asks for no redraw, and a window
  that was drawn before it was closed asks for none itself, so `exec` then waits in front
  of a window that `removeWindow` has wiped until something else has it drawn.  No doc
  says that a window may be added again, so this is an exception and not a finding.
- `OneFocus`: one widget of a window receives keys.
- `LastWindowEndsExec`: closing the last window ends the loop.  Weak fairness on
  `Leave \/ Timeout \/ Redraw`: `select` waits one second at most (104) and the loop
  has no other wait.  Nothing is assumed of the user.

Run `windows`: up to three windows, with a menu and a form, a single widget, or a
status bar.  Deadlock is not checked: `exec` returns.

### SerialLine

The peer's text is fixed in `Init` (every text of a few bytes) and a byte is its
position in it, so that a byte that is lost, repeated or out of order shows.
`m_readBuffer` always ends at the last byte taken from the descriptor; its length
`held` is all there is to know.  A call is two steps or more: what it does with
`m_readBuffer` (`CallRead` 118-131, `CallReadLine` 146-165), then, if that was not
enough, each read of the descriptor (`ReadReturns` 131-143, `LineReads` 167-199),
which the peer's bytes, a hang-up or a failure (`ReadFails`: EINTR or EIO, an
exception from `BFSimpleFd::read`) may come before.  `FdRead` is `read(2)`: on a
canonical device one line at most, on another whatever there is.  Of the special
characters the constructor leaves one, `c_cc[VEOF] = 4` (87): a byte 4 (`EOT`) ends a
canonical read without a newline and is given to nobody; right at the start of a read
it makes that read empty.  `Open` and `Close`
are the constructor (30-106; nothing asks whether the device took them, and `open`
takes any path) and the destructor.

The walk back over the line ends (180-181) has no lower bound.  When a chunk holds
nothing before its newline it leaves the array, and what it finds there is not
known: `EndOfLine` then either returns what was collected, or throws, as the length
of the result is then a number below zero.

- `CanonicalKeepsNothing`: on a device that took the settings `m_readBuffer` is
  empty, so that `readLine` never takes the branch (157-158) that leaves the newline
  in it.
- `InOrderOnce`: no byte is given twice or out of order, but for that newline.
- `ReadLosesNothing`: `read` joins the buffer and the descriptor without a gap.
- `ShortLinesWhole`: a line that fits one chunk and has no byte 4 in it is returned
  whole.  A longer one is not, and neither is one that a byte 4 has cut in two reads:
  the last read replaces what was collected (185), which is a hazard, not a property.
- `LinesAreRead`: a program that goes on reading lines comes past every newline that
  has arrived.

Fairness of `FairSpec`: the peer sends its text (`Arrive`), the program calls
`readLine` again and again (`CallReadLine`), and a read for which there is input
returns (`ReadReturns`, `LineReads`), as the kernel sees to.  Nobody has to open,
close, hang up or call `read`.

Run `serial`: texts of four bytes over a letter, CR, NL and EOT; chunks of three, so that
a line may be longer than a chunk; buffers of one and two bytes, shorter and longer
than what is left over; one failure.  A program that waits for a silent peer stops:
deadlock is not checked.

### FdTable, Sockets, AttachedProcess and ProgramIO

`FdTable` is the kernel's table as far as the library uses it: the lowest closed
descriptor is given, `dup2` and `close` change one entry, `fork` copies the table.
It is external; `Sockets` and `AttachedProcess` act on it, `ProgramIO` is a program
that uses both, started with its standard descriptors or, after `runAsAService`
(`service.h` 41-43), without them.

`Sockets`: a constructor or `acceptClient` owns the descriptor it gets
(`Construct`); one that throws after `socket()` leaks it (`ConstructThrows`), as no
destructor runs; the destructors close, but take 0 for no descriptor (`Destroy`).

`AttachedProcess`: a call of `runAttachedProcess` is one step of the caller, which
is one thread.  A child is a process with a table of its own: forked, it connects
its streams and calls `execvpe` (`Exec`, one step: nobody else sees or changes its
table), after which it is the program (`running`) or, if that failed, a second copy
of the caller (`twin`, line 92).  `ProcStreams` closes its three ends (`Release`);
after a failed `fork` the pipes leak and the streams are as constructed.

- `OwnDescriptors`: every owner's number leads to the file it opened, and nothing
  leaks but what the constructors and forks that failed left.
- `ChildIsConnected`: a started program reads and writes the caller's pipes.
- `EndOfOutput`: the caller reads the end of a program's output when that program
  has ended, neither before nor never.
- `AllEnd`: once a caller has let go of all its streams, the filters it started end,
  although each was forked with copies of what the caller had open for the others.

These are stated for a program that has its standard descriptors; without them the
second fails (see Findings).  Fairness: a child gets to `execvpe`, and a filter that
reads the end of its input ends.  Programs that do neither are allowed and, as no
fairness is assumed of `ChildExit`, need not end.  While a twin is there nothing is
promised.

Run `descriptors`: one socket, two calls, fourteen descriptors.  Two calls are
needed for a child to inherit another's pipes, and a socket, made before, between or
after them, to move the numbers the pipes get; the three standard descriptors, the
three ends kept of the first call, six in the second call, a socket and a leaked one
are open at once at most.  Deadlock is not checked: a program that has made its
calls stops.

### Fletcher32, IntHex, ServiceAddress, TextKeys and Helpers

`Fletcher32` takes the two loops (`bf.cpp` 112-140) word by word; words arrive as
they are read, so the data is any sequence.  `check1` and `check2` carry Fletcher's
sums beside the code's, which wrap around at `Base * Base`.  `WidthAssumption` says
what a block must satisfy; the code's 360 with words of 16 bits does, and 361 would
not (theorem `BlockOf360`).

- `SumsAreFletchers`: no carry is ever lost.
- `HashFits`: two reductions leave halves of 16 bits, and neither is 0.

`IntHex` writes the digits of a number from the end of a buffer (`inthex.h`) towards
its start.  The overloads that return a string bring a buffer with as many bytes as
the number has bits.  Those of `inttostr` (60-64), `inttohex` (110-114) and `int64tostr`
(148-152) for unsigned numbers hand the number on as a signed one (`AsInt`), so one of
the upper half is written as another number: 3000000000 as -1294967296, 0xFFFFFFFF as
the hexadecimal 1.

- `TextIsTheNumber`: the text reads as the number, the most negative one included, and
  as the number less 2 to the width in exactly the case above; `hextoint` reads back
  what is written in base 16.
- `InsideBuffer`: nothing is written outside the buffer, although nothing looks at its
  start, but for one byte in front of it: in base 2 a number with its highest bit set
  has a digit for every byte of the buffer, and the terminator takes one of them.  The
  repository's tests of base 2 (`tests/int_hex_tests.cpp:46-49`) bring a larger buffer.

`ServiceAddress` takes a url apart by `find`, in the code's order (`bfsocket.cpp`
118-214); a url is any short sequence of `:`, `/`, names and numbers.  Where the code
cuts the text of a port short (159), `Starts` gives the values the first digits of a
number may have.

- `ParsesUrl`: a url with a host, with or without a port and a query, gives the parts it
  was written from.  A `:` in the query of a url without a port ends the host (132): then
  the host goes on into the query, and the port is the number behind that `:`, its first
  digits, or 0.  There is no object exactly when `://` is missing, when nothing or a `:`
  follows it, or when there is no `:` behind it and the host is empty or the protocol is
  no service.  An empty protocol gives an object, and so does an empty host with a `:`
  somewhere behind it (`http:///name:80`).

`TextKeys` has the sums of shifted signed characters.

- `KeysTellTexts`: two texts have one key exactly when they start with the same four
  characters, so a `switch` over keys never takes a wrong case.

Run `helpers`: words of three bits with blocks of two (the largest `WidthAssumption`
allows) and data of up to five words, so that three blocks are folded; numbers of
seven bits, signed and unsigned, in a buffer of seven bytes and the bases 2, 3, 10 and
16: the base with the most digits, the one after it, and the two the functions name;
urls of six protocols, two hosts, a port and one above 65535, with five pieces after the
protocol, or none; texts of up to five characters, one of them negative.

## What TLC finds

Passing runs: `ring`, `strings`, `string_texts`, `windows`, `pages`, `serial`,
`descriptors`, `helpers`.  Four runs end in a violation, by what the code does:

1. `string_shared_writes` - `ncstring.h:23-24` calls the class a "No-copy string"
   that is "Thread-safe" and "breaks std::string COW's problems".  The non-const
   `operator[]` (163) returns a reference into the block without the test that
   `append` and `chop` make: `b = a; a[0] = 'x'` changes `b`.
2. `string_reuse` - the assignment operators (57, 73) leave `m_maxSize` of the old
   block.  A string that held a longer text and is then assigned a shorter one
   passes `append`'s test `newLen < m_maxSize` (184) and writes behind its block.  A
   counter-example of four steps: assign, substr of a short string moved onto it,
   append, write.
3. `streams` - `bf.h:378-379` says the process' standard streams are connected to
   pipes.  The child closes the caller's ends (`bf.cpp:84-86`) after `dup2`, by
   their numbers.  Under `runAsAService` the first `pipe()` returns 0 and 1, and the
   child closes the standard input it has just connected.
4. `default_pool` - `bf.h:386-388` says `getSystemPageSize` is the memory page size.
   `fread` (`bf.cpp:149`) is asked for one item of 128 bytes, gets a few characters,
   which are no item, and the result is 0.  `append` to a pool with such pages takes
   page after page and never returns.  With an answer of 128 characters or more the
   property holds.

## What is proved

All proofs are checked by TLAPS, for every value of the constants that satisfies the
assumptions named here.  Every invariant, action property and refinement of a passing
run is a theorem; the list is in `PROJECT.json`.  They follow from an inductive
invariant, `IInv` where a module needs only one.

**CircularBufferProofs** (`SizeAssumption`, `InputAssumption`).  `Accounting` is
inductive together with `TypeOK`: its part `Granted` says what the running call was
granted on entry, which is what the loop steps need to stay inside the ring, and
`Wrap` relates the positions.  `TypeCorrect` and `AccountingCorrect` follow, and
`UnreadIsNeverOverwritten` proves the action property: the offsets `doWrite` writes
lie between the write position and the read position, so none of them is live.
`RingIsAQueue` is the refinement.  It needs one more invariant, `Progress`, which says
what a loop has done so far: a pop or a peek has copied the first of the contents, a
push has written the first of its elements behind them.  At `Return` nothing remains,
and the step is that of the queue; every other step leaves the queue alone.

**NCStringProofs.**  None of the four invariants is inductive alone.  `IInv` is
`TypeOK` and one invariant per string, `HandleInv`: its block exists and holds its
text and a terminator, or what the running operation will still write; while it
writes in place it is `Sole`; the old block of a slow path is counted, alive and
holds the text; `m_maxSize` is at most the length of the block.  Only `Sole` looks
at other strings.  Steps of one string disturb another only through a block both
refer to, and lemma `FrameOthers` says when they do not: the blocks of the others
keep their cells and nobody takes a reference to a block that is being written in
place.  `SetChar` on a shared block, which does change them, has a proof of its own.
`Inductive` is `Spec => []IInv` for `Reuse = FALSE` (with `Reuse` it is false, as
run `string_reuse` shows) and for either value of `WriteShared` and `WriteEnd`: writing
a character of a shared text leaves texts texts, and a terminator is part of `IInv` only
where nobody writes over it.  `TypeCorrect`, `InPlaceWritesAreSafe` and
`OldBlocksAreKept` follow, and `TextsAreTerminated` for `WriteEnd = FALSE`.
`StringsAreValues` is the refinement, for `Reuse = FALSE` and `WriteShared = FALSE` and
either value of `WriteEnd`; with `WriteShared` it is false, as run
`string_shared_writes` shows.  Its extra invariant is `RunInv`, that a
running append has a literal left to add and room for it; `FrameOthers` again says
that no other string changes its value.

**SimpleBufferProofs** (`PoolAssumption`, `InputAssumption`).  `IInv` is `TypeOK`,
`BookkeepingAgrees` and:

- `InOrder`: a page that is allocated and not lost is in a buffer, in what is left of
  one that is being destroyed, or on a stack, and never in two of these; stacks stay
  within the cache size, and hold pages of their pool's size;
- `BuffersApart`, `OldApart`: a page is in one buffer or on its way out of one, once;
- `PagesFit`, `OldFit`: the pages of a buffer were made by its pool and have its size,
  and those being destroyed have the size of the pool they point to;
- `CallRuns`: a running append has a buffer and something left to copy, and nothing is
  being destroyed meanwhile.

Each step of a destruction is a step of the model, so `ReturnPageOK` (one page returned
or deleted) and `ExpireOK` (a pool that goes) are all that memory needs.  `TypeCorrect`,
`CountsAgree` and `OnePlaceForAPage` hold for either value of `DropsLast`.
`PagesOutlivedByPools` is for `DropsLast = FALSE`, with `PoolsThere` beside `IInv`: the
pages on their way out point to a living pool, in a destructor because `oldPool` is
still to be let go of, and after an assignment because the caller kept the old pool.
`BuffersAreLogs` is the refinement.  Its invariant `LogInv` says of every buffer
that some text lies in its pages (`Laid`): a step function assigns each byte of the
text its page and its place, as `peek` goes through them (`PeekGives`).  While an
append runs, the last bytes of that text are what it has copied (`EndsIn`) and the log
is the text before them.  Each step then extends one log, hands one over, drops one, or
leaves all of them as they are.

**NCApplicationProofs** (`ItemAssumption`, `LayoutAssumption`: menus, button rows and
forms have something in them).  `IInv` says what every key leaves true of a widget
(`WidgetOK`), of a window and of the stack: the focused item exists; a form's current
field is the focused item, or the first field when the focus is on a button; only the
field the form stands on can be invalid, because the library let go of every other;
exactly one widget has the focus; a window with a widget that is not initialized asks
to be drawn.  The same is said of the window that was closed last and may come back,
which is what `Again` needs; the top window is on the screen, asks to be drawn, or is
one that came back.  `select` is reached only with every window initialized and the top one on
the screen.  The library's refusal to leave an invalid field and the code's own test
before the buttons are what keeps `WidgetOK`, key by key.  A callback changes windows
in the middle of a key event, so the lemmas are about the stack as a value, one for
each effect a callback has, and the steps of `exec` compose them.  `FormsStayInSync`,
`ButtonsAreValidated`, `KeysReachReadyForms`, `TopStaysOnScreen` and `FocusIsUnique`
follow.

**ProgramIOProofs** (`FdAssumption`, `LeakAssumption`).  `IInv` is the types and, for
a program with its standard descriptors, who owns what (`Owners`) and what the table of
each child looks like (`ChildOK`): before `execvpe` the six numbers it was forked with
lead to the six ends of its pipes (`Before`), after it the standard descriptors are its
pipes (`After`), and a started program has no other program's output pipe open for
writing, which would keep the caller from its end of file (`NoOthers`).  "The lowest closed
descriptor" is a matter of counting: a set of `n` numbers has one with `n - 1` below it
(`BelowCounts`, `NthExists`), so that what `pipe` and `socket` give is closed before,
above 2, and no two are the same (`NthFreeOK`).  All of this is about programs whose
standard descriptors are open: `~ProcStreams` of a call whose `fork` failed closes 0 and
1, and 3, which may be another's, and from then on `DescriptorsAreOwned` says nothing.  `DescriptorsAreOwned`,
`ProgramsAreConnected` and `OutputEndsWithTheProgram` are the invariants of the run.

**SerialLineProofs** (`ByteAssumption`, `BoundAssumption`).  `IInv` is `TypeOK`,
`CanonicalKeepsNothing`, `Running` (a call runs on an open port, with an empty
`m_readBuffer` and with room) and `HandedInv`: no caller has got a byte after `Start`,
where the running or the next call begins, but for one newline left behind.  It needs
the two others: that the newline comes again only from a buffer that holds it, and that
a waiting call has emptied the buffer.  `TypeCorrect` and `CanonicalCorrect` follow;
`OrderCorrect` and `ReadCorrect` are action properties, one lemma per returning action,
for every text, chunk and buffer size and either device.  `LinesCorrect` needs
`LineInv` as well: a `readLine` that waits for the device has seen no newline since it
began, and a canonical device whose peer is there has given it nothing or at least a
chunk, unless there was a byte 4 in it (`NoEof`).  A line that fits a chunk therefore comes from one read, whose end is the first
newline, and there is only one first newline (`FirstNewlineUnique`).

**Fletcher32Proofs** (`WidthAssumption`).  `HashIsFletchers` needs bounds on the sums
that grow with the words read since the last reduction: `Bounds` is linear in them for
the first sum and quadratic (`Most2`) for the second, and `WidthAssumption` says that
at the end of a block `Most2` is still below the width.  Below it `Wrap` changes
nothing, and a reduction keeps the remainder modulo `Base - 1`
(`FoldKeepsRemainder`).  `Inductive` is for data of any length; `BlockOf360` says that
the code's block satisfies the assumption and one word more would not.

**HelpersProofs.**  `HelpersApart`: a step of the composition is a step of one helper
and a stutter of the others, so `HelpersSpec` implies the specification of each, and
what is proved of one helper alone holds beside the others (`HashesAndKeys`).

- Keys (`KeyAssumption`).  A key is a number to the base `Radix` with signed digits.
  Two digits never differ by `Radix`, so the last digits of equal keys agree and can be
  taken off, four times (`LastDigit`, `KeyIsInjective`).  `KeysCorrect` is for texts of
  any length; `SignedCharsAreDigits` says that eight-bit signed characters in either
  case satisfy the assumption.
- Conversions (`ConversionAssumption`).  `TextIsRight`: at every turn the digits written
  so far complete what is left to the number that was given (`Completes`), and the
  readers, which are recursive functions, read a completed text as that number
  (`ReadsAs`).  `BufferIsEnough`: every digit takes away a factor of three at least, one
  of base 10 a factor of ten, and one of base 2 a factor of two.  So what is left of a
  number below `2 ^ BufferSize` stays below a power of two that falls with the digits
  written (`Room`), and the text leaves a byte for the terminator in every base but 2,
  and in base 2 for the numbers of the lower half.  Its hypotheses say that `Limit` is
  that power (`IsTwoTo`; a power of two is stated as a chain of doublings) and that a
  number has three bits.  `ThirtyTwoBits` says that the code's 32 bytes for 32 bits
  satisfy them.
- Urls (`AddressAssumption`).  `UrlsAreParsed`: the results of the `find` calls are
  computed for the url of any parts (`Find...`), piece by piece in the code's order:
  with a port, without one, with a `:` in the query (`ColonInQuery`), and, for the urls
  that give no object, for any text at all (`ObjectOrNot`).

Recursive functions and the numbers they count are reasoned about by the least
counter-example: `LeastNumber`, from the library's theorem that `<` on the naturals is
well-founded, gives the first index at which a claim fails, and the step before it
shows that it does not.

Only model-checked: `EveryCallReturns`, `LastWindowEndsExec`, `LinesAreRead` and
`AllEnd`.  They are liveness, which needs fairness and with it `ENABLED`, out of this
prover's reach.  The properties of the four runs that end in a violation are false as
they stand and have no theorem; what the two of `NCString` say is proved under the
constants that exclude their counter-examples (`StringsAreValues`, and
`InPlaceWritesAreSafe` for writes behind a block), and what `streams` refutes is proved
for a program that has its standard descriptors (`ProgramsAreConnected`).

## What is not modelled

- `NCString`: strings that are passed a pointer into themselves, terminators written
  into a text through `operator[]`, comparisons, memory order (the interleavings are
  those of whole steps), failing allocations.
- Buffers: elements wider than a byte; `SimpleBuffer` objects in use after a move.
- `NCWidgets` and `NCApplication`: drawing, colours, the text a checkbox shows, menus
  and forms without items, a window that is on the stack twice.
- `BFSocket`: reading, writing, splicing and options, each one system call whose
  result is passed on, and with them `canRead` and `canWrite`;
  `NetworkInterfaceInfo`, which lists what the system reports.  Copies of a
  `BFSocket`, which the compiler still provides and which are left to the callers to avoid.
- `getNumCores`: a caller of `runAttachedProcess` that waits half a millisecond.
- `bf.h`: strong typedefs, dates, `stringStrip` and `ProcTimer` are pure and short.
  `ProcTimer`'s borrow (`bf.h:224-228`) has the wrong sign: differences with a
  borrow are two seconds too long.
- `Log`: formatting and output.  The buffer that `useSysLog` puts behind `std::clog`
  reports every line at `ReportingLevel` (`log.cpp:43`) and not at the line's own
  level, and threads share it without a lock.
- `lock` (`bf/threads.h`) and `IntrusiveListItem` (`bfio.h`), which nothing in the
  repository calls; `bf-backup` and the build files.

The hazards in `PROJECT.json` name the line of each, and the property that covers it
or the reason why none does.

## Plan

Next, in this order:

1. `SimpleBuffer` with moved-from buffers in use.
2. Checkbox texts and empty menus in `NCWidgets`; aliasing arguments in `NCString`.
3. `BFSocket` as a stream: short writes, `canRead` and `canWrite` with their
   timeouts, and the options `accept` leaves unset.
