# A TLA+ verification of trans2quik_wrapper

`trans2quik_wrapper` lets a Linux program use `trans2quik.dll`, the transaction
API of the QUIK terminal. A Windows program run under Wine (`TRANS2QUIK_SERVER`)
loads the DLL and listens on a TCP port; a Linux class (`TRANS2QUIK_CLIENT`, a
`QTcpSocket`) offers the DLL's functions and carries each call over the socket.
This directory holds TLA+ modules that model the two ends, TLC runs that check
them on small instances, and TLAPS proofs for every instance.

## 1. The system

| Part | State | Operations | Modelled in |
| --- | --- | --- | --- |
| Client engine, `T2Q_Client.cpp` 3-158 | `_wait_func_call_result`, four handler pointers, `_wait_loop`, the socket's buffer, and the C++ stack | `WaitReadMessage`, `WaitRead`, `CallbackIfNeeded` | `T2QClient` |
| Client API, `T2Q_Client.cpp` 160-768 | `_buf` | about 80 functions: write a request, wait, read the result | `T2QFormats`, `T2QWire`; control flow in `T2QClient` |
| Server dispatcher, `T2Q_Server.cpp` 34-716 | `_in`, `_wait_loop`, the C++ stack | `processMessages`, one case per code | waits and loop in `T2QServer`; fields and codes in `T2QFormats`, `T2QWire` |
| Send buffer, `T2Q_Server.cpp` 14-19, `io_utils.h` | `_buf` and the position of `_out` | `data`, `PrepareMessage` | `T2QSendBuffer` |
| DLL callbacks, `T2Q_Server.cpp` 718-784 | `_buf`, `curConnection` | four static functions the DLL calls | connection status in `T2QServer`, `T2QWire` |
| Server connections, `T2Q_Server.cpp` 7-31 | `curConnection`, a `QPointer` | `clientConnected`, disconnection, deletion | `T2QServer` |
| Wire format, `io_utils.h` | none | `PrepareMessage` and the readers | `T2QFormats` |
| Function codes, `func_codes.h` | none | none | `FuncCodes` |

A message is a size (a `quint32`, the bytes that follow it), a code and a
payload. The application calls an API function; it writes a request and enters
`WaitReadMessage`, which sleeps in `_wait_loop.exec()` and reads messages until
one bears its code. `readyRead` is connected first to `_wait_loop.quit()` and
then to `WaitRead`, which returns at once when `_wait_func_call_result` is up
and otherwise reads one message the server pushed. Both readers hand pushed
messages to `CallbackIfNeeded`, which calls the application's handler; the
handler may call the API again, on top of everything that is on the stack. The
event loop a reader sleeps in may run any other event of the application, which
may call the API as well.

At the server `readyRead` of every connection it ever accepted is connected
first to `processMessages` and then to `_wait_loop.quit()`. The slot reads from
`curConnection`, whichever socket emitted: it takes a size, waits in the nested
loop for the rest, calls the DLL, prepares the reply in `_buf`, writes it, and
goes on while bytes are left. A new client replaces `curConnection`; a
disconnected socket is deleted later, and `curConnection`, a `QPointer`, becomes
null with it. The DLL reports through static functions that use the same `_buf`
and the same `curConnection`.

**What is hard.** Two readers of one stream that may both be on the stack; nested
event loops, of which only the outermost really sleeps; a signal that is not
emitted again inside its own slot; replies that are matched by their order and
code only; callbacks pushed between a request and its reply, or behind a reply;
handlers set and reset while messages are on their way; two tables of message
fields, written apart, that must agree. At the server: a slot that waits in a
nested loop and goes on with another connection than it began with; a pointer
that becomes null in between; a slot left waiting by a client that has gone,
under the slots that serve the next; a send buffer shared with the thread the
DLL calls back on.

**What makes each part correct.**
* Client engine: no assertion of a reader fails; no reader starts inside another's
  message; the flag is up exactly while a call waits; every reply has its
  caller; a call returns.
* Client API and dispatcher: the DLL is called with the arguments given; the call
  returns what the DLL returned; both ends stay at message boundaries; requests
  are answered in order, at most once, and as long as the connection lasts.
* Send buffer: what is written is one message, whole.
* DLL callbacks: a report reaches the handler unaltered and in order.
* Server connections: no use of a connection that has gone; nothing of one client
  is taken for another's; a client that has gone does not stop the next one.

`PROJECT.json` lists the hazards line by line, with the properties that cover
each.

## 2. Modules

| Module | What it is |
| --- | --- |
| `FuncCodes` | the codes; which code a setter sends, a reply bears, and the server ignores |
| `T2QService` | abstract: what a client may expect of the server |
| `T2QClient` | the client engine, as a state machine, beside any server that `T2QService` allows |
| `T2QServer` | connections, `processMessages` and the DLL's callback, as a state machine, with the clients as the server sees them |
| `T2QSendBuffer` | the server's `_buf` and `_out`, access by access; part of `T2QServer` |
| `T2QFormats` | the stream reader and writer, and the two tables of fields |
| `T2QRpc` | abstract: a remote call |
| `T2QWire` | calls, replies and reports carried word by word; implements `T2QRpc` |
| `MCWire` | values of the constants of `T2QWire`, and that they meet what the theorems ask of them |
| `T2QClient_proofs` | types and bookkeeping for all constants; safety of a main-loop application |
| `T2QClientCalls_proofs` | flag and replies, for calls from anywhere |
| `T2QClientService_proofs` | `T2QClient` composed with `T2QService`: what the client keeps beside any such server |
| `T2QServer_proofs` | types for all constants; whole messages with one thread |
| `T2QServerService_proofs` | `T2QServer` implements `T2QService` |
| `T2QServerSessions_proofs` | safety of the server for clients that come one after the other |
| `T2QFormats_proofs` | what the readers take of what a writer wrote, for lists of any length |
| `T2QWire_proofs` | types; the server in step; `T2QWire` implements `T2QRpc` where both ends agree |

`T2QClient` and `T2QServer` model the two ends apart, each with the other end
reduced to what can be seen of it. `T2QService` joins them. `T2QServer`
implements it (`server_sessions`, and for all constants `PromiseOfServer`). On
the client's side `T2QClientService_proofs` puts the steps of `T2QService` itself
in the place of the server: every behaviour of the client beside a server that
keeps `T2QService` is a behaviour of `T2QClient`, so what is proved of the client
holds beside `T2QServer` as well. The theorem is about a client that is the only
one of its server; with several, the server's callback may also be registered or
dropped by another client's request. `T2QService` is a safety specification: it
does not say that requests are answered, which `T2QServer` shows not to be the
case for every client.

Operators marked "Defect" are variants of the operator that follows them: each
is a plausible bug, used to confirm that a property can tell it from the code.
They take no part in the specifications.

### `T2QClient`

`stack` is the C++ stack, a sequence of frames of the two readers. A frame is at
`size` or `body` (testing whether the bytes it needs are there), at `execSize` or
`execBody` (blocked in `_wait_loop.exec()` until it can retest), or at `callback`
(the application's handler runs). Everything below the last frame is suspended,
so a step is always of the last one.

`pipe` holds the codes of the messages the server has written and the client has
not read to the end. A message is two units, its size and its body; `avail` units
have reached the socket's buffer and `rest` says what is left of the first
message. `requests` are those the server has not handled. `connected` turns
`FALSE` when the connection is lost.

| Action | Code |
| --- | --- |
| `CallFunction`, `SetHandler`, `ResetHandler` | an API function up to the first `exec()` of `WaitReadMessage` |
| `Receive` | the event loop fills the buffer and emits `readyRead`: `quit()`, then `WaitRead` up to its first test |
| `ExecReturns`, `WaitForBytes`, `ReadSize` | the waiting loops and `_in >> dummy` |
| `RunCallback`, `CallbackReturns`, `SkipCallback` | `CallbackIfNeeded` with the handler set, its return, and with the handler null |
| `Return` | `WaitReadMessage` finds its code, lowers the flag and returns, and the function reads its result (`TakeReply`) |
| `WrongReply` | the `Q_ASSERT` of either reader |
| `Register`, `Answer`, `Drop`, `Push` | `processMessages` and the DLL's callback, as far as `T2QService` lets a client see them; a setter is executed some time before it is answered |
| `Lose` | the connection goes, with any messages still on their way |

Payloads are abstract here but for the two places where they change what is read
next. In `SkipCallback` the unread payload of a status message starts with a
connection event (8 to 11) that is taken for a size and an error code that is
taken for a function code; the code is none, and both readers assert. In `Return`
a function that waits in `Int_in_R_out` takes eight bytes where the server has
written four (`Wide`): the functions of a long and of a quantity, `START_ORDERS`
and `START_TRADES`. If a message has arrived behind the reply, its size goes with
it and the next reader finds its code where it looks for a size (`ReadSize`,
`starved`); if none has, the read falls short. Assertions are enabled; in a build
without them the readers would go on out of step.

`Segmentation` bounds what one `readyRead` carries: a whole message, whole
messages, or any number of units.

### `T2QServer` and `T2QSendBuffer`

`stack` holds the frames of `processMessages`. A frame remembers the connection
whose signal called it (`conn`) and the request it serves, and is at `size`,
`execSize`, `body` or `execBody` as in the client, at `dll` (inside the DLL's
function), at `reply` (preparing it), at `stray` (at words no case read) or at
`next` (the test of the outer loop). `pending`, `avail` and `rest` are per
connection: what its client has sent and the server not read, how much of it is
in the socket's buffer, and whether a size has been read without its body.
`down` is what was written to a client, one entry per `write`.

| Action | Code |
| --- | --- |
| `ClientConnected` | `clientConnected` |
| `Disconnected`, `Deleted` | `disconnected` and the `deleteLater` it is connected to |
| `Receive` | the event loop fills a buffer and emits `readyRead`: `processMessages` up to its first test |
| `WaitForBytes`, `ExecReturns`, `ReadSize` | the waits of `processMessages` and its first read |
| `ReadRequest` | the code, and what its case reads and has the DLL do; `SetCallback` for the connection status setter |
| `DllReturns`, `WriteReply` | the DLL's function returns, the reply is prepared and written |
| `ReadStray` | the loop goes on with the payload of a setter that no case reads |
| `NextMessage`, `Return` | the condition of the outer loop, and the return to the emission, which then calls `quit()` |
| `Report`, `TestConnection`, `WriteReport` | `_TRANS2QUIK_CONNECTION_STATUS_CALLBACK` |
| `Clear` ... `PutSize` of `T2QSendBuffer` | `data()` and `PrepareMessage`, one access to `_buf` or to the position of `_out` at a time |
| `Ask`, `Read` | the clients |

`T2QSendBuffer` keeps `_buf` as words and the position of `_out` as a number, as
`QBuffer` does: writing over what is at the position, or behind the end. A
payload is one word. With one thread these steps run to the end before anything
else happens; with `DllThread` two threads take them in any order.

What `curConnection->` does when the pointer is null is a fault of its own
(`null`), as is the return of a slot into the emission of a deleted socket
(`freed`); after a fault the run stops. A size taken for a code, or a code for a
size, is the fault `misread`; payload of a setter without a case, taken for a
message, is not the end of the run, and the variable `misread` records the
connection it was read from (`ReadStray`).

Constants. `Rogues` are connections whose requests may arrive in pieces and which
call setters the server does not know; the others send whole requests the
server answers. `Overlapping` lets a client connect while another is connected.
`DllThread` lets the DLL call back on a thread of its own; without it, it calls
back inside one of its functions or out of the event loop. `MaxAsked` and
`MaxSent` bound what is under way.

### `T2QFormats`, `T2QWire` and `T2QRpc`

A stream is a sequence of words below `Base`, which stands for 2^32. A
`Descriptor` takes two words, a string a length and whole words of content. The
model keeps the width with which each end writes and reads each field: what is
read too far takes the words of the next message if they have arrived, what is
read past the end yields zero, what is read too short stays.
`CallFormat` is the client's table and `ServeFormat` the server's; they are
written from `T2Q_Client.cpp` and `T2Q_Server.cpp` separately. `CallCode` is the
code a function sends and waits for: its own, but for three setters
(`StraySetters`), two of which send a code without a case and one,
`START_TRADES`, that of `UNSUBSCRIBE_TRADES`. At the server `Serve` is a turn of
the loop whose code has a case, and `ServeNothing` one whose code has none.

`T2QRpc` says what a remote call is: the DLL executes the application's own call
once, with its own arguments; the call returns what that execution gave; a
report of the DLL is shown unaltered and in order. In `T2QWire`, `executed`,
`returned`, `events` and `shown` record these things and take no part in the
guards that stand for code; `heads` records which words of `down` were written
as sizes. The refinement maps each variable of `T2QRpc` to the one of the same
name.

`T2QWire` takes a whole message in one step and lets an application call only
from its main loop: the waiting, and calls from callbacks, are the subject of
`T2QClient`. Boundaries of the model: strings are whole words; a string length
that is read from other data is odd or too long in the runs; the byte order and
the encoding of text are left out; `Bits` stands for IEEE 754 by keeping only
that zero's bits are zero and others are not those of an integer of that value.
No message is longer than its size word counts (`SizesAssumption`).

`AgreedFunctions` are those whose two tables agree, and `AgreedValues` the values
their fields can carry: a `long` and a 64-bit number within their width, no empty
text, results that are not negative, no cleared flag (a reset). `CodesApart` is a
weaker condition for all functions: no word the server sends, other than the
second of a message, is the code of a function.

### `T2QService`

Per connection: the requests sent and not answered, the codes of the messages
sent and not read, and whether the connection is lost; besides, whether the DLL
has the callback. A request is answered in its turn, at most once, under the code
`ReplyCode` gives it; one whose code has no case is dropped; reports come only
while the callback is registered, and a setter takes effect while it is first in
its client's queue. Several connections may have requests open: the server
promises nothing about their order among each other, and a callback registered
for one client remains registered for the next.

In `T2QServer` the queue is the request being executed, if it is that of the
current connection, followed by `pending`; a message is known by the code in its
second word. In `T2QClient` it is `requests` and `pipe`.

### Facts of Qt

The models rely on these, which are external to the repository: `readyRead` of a
socket is not emitted again while a slot it called is running, and that of
another socket is; `exec()` on a `QEventLoop` that is already running returns at
once; entering `exec()` forgets an earlier `quit()`; slots run in the order they
were connected; a short read of a `QDataStream` takes what there is and yields
zero; `deleteLater` takes effect in the event loop, but not in a loop nested
inside the one it was posted from; a `QPointer` is null once its object is
deleted; a socket that is not connected refuses what is written to it.

## 3. Runs

Passing runs:

| Run | Question | Answer |
| --- | --- | --- |
| `client_sequential` | What is safe in an application that calls from its main loop, sets any of its four callbacks and may lose its connection, under any segmentation, beside a server that need not answer? | `FlagMeansWaiting`, `ReplyHasCaller`, `HandlerInstalled`; no assertion fails but that of a function answered under another's code (`OnlyMisanswered`: `TRADE_KIND` is among the functions); a reader starves only behind a reply read too far, never inside a message another reader is at (`ReadersApart`). A call returns if more traffic keeps coming once its reply is on its way (`TrafficFreesCalls`) |
| `client_reentrant` | What survives calls from callbacks and other events, resets, and callbacks left from an earlier session? | `FlagHasCaller` and `ReplyHasCaller` |
| `wire_faithful` | Do the functions whose tables agree (`AgreedFunctions`, `AgreedValues`) implement `T2QRpc`? | Yes, with reports between replies; proved for any such values |
| `wire_all` | Can any function of the API, or anything the client misreads, make the server execute something else than was called? | No (`ServerInStep`): a request is executed under the code it was sent with or never. Never is what happens to the setters whose code has no case, and to any request behind the flag `START_TRADES` leaves; nothing else is left of a call that has returned. Proved for any values with `CodesApart` |
| `server_sessions` | Two clients one after the other, the first in pieces and with unknown setters: is the server safe, and is the second one served? | Yes: `ConnectionsAlive`, `MessagesInStep` (payload is taken for a message on the connection of the client with the unknown setters only), `NeverSpins`, `WholeMessages`, `Implements`, `WholeRequestsServed` |

Runs that find a disagreement between the code and what is said of it (the
`findings` of `PROJECT.json` quote the lines):

| Run | What happens |
| --- | --- |
| `missed_wakeup` | the reply is in the buffer when `exec()` is entered, and the call sleeps on |
| `nested_call` | a call in a callback under another call meets the other's reply |
| `split_report` | a pushed message in two pieces is never shown: `WaitRead` waits in the slot that blocks the signal that would wake it |
| `start_trades` | the reply of `START_TRADES` is read too far, into the size of a report behind it; the next reader takes the report's code for a size |
| `order_quantity` | the descriptor is sent in 4 bytes and read in 8; the DLL is asked for 0 |
| `split_request` | a request in two pieces is never executed: the slot that waits for the second blocks the signal that would wake it |
| `two_threads` | a report prepared on the DLL's thread mixes with a reply in `_buf` |

More disagreements were met that have no run of their own.

* A callback message that is under way when its handler is reset leaves its
  payload unread (`T2Q_Client.cpp` 8), and the reader meets it as a message. With
  `Unsets` set in `ClientSequential.cfg`, `HandlerInstalled` is violated, and
  `OnlyMisanswered` by the same behaviour continued. A callback that is still
  registered from an earlier session (`PriorRegistrations`) fails alike.
* A call made from an event that a waiting reader's loop handles may start on the
  body of the message that reader has begun (`T2Q_Client.cpp` 110, 137): with
  `"event"` among the `CallSites` of `ClientSequential.cfg`, `ReadersApart` is
  violated. A nested call that returns lowers the flag under the call that waits
  below it (`FlagMeansWaiting`).
* `START_ORDERS` and `SET_TRANSACTIONS_REPLY_CALLBACK` send the codes of the
  callbacks (`T2Q_Client.cpp` 260, 346), which no case has: nothing is registered
  and the calls never return. The server's cases are for other codes,
  `T2Q_Server.cpp` 230 "case E_TRANS2QUIK_START_ORDERS".
* `START_TRADES` sends the code of `UNSUBSCRIBE_TRADES`, so the DLL is made to
  unsubscribe. The flag it sends is read by no case: a 1 that is left makes the
  server wait inside the next request and drop it with all that is behind
  (`ServerInStep` allows this and names the flag).
* A call that is open when the connection is lost never returns: no wait has a
  timeout, and nothing of the client is connected to `disconnected()`.
* `TRANS2QUIK_TRADE_KIND` is answered under the code of `TRADE_ACCRUED_INT2`, whose
  DLL function its case calls (`T2Q_Server.cpp` 558-562), and
  `TRANS2QUIK_TRADE_SETTLE_CURRENCY` likewise under another code; the client asserts.
* `Int_in_Double_out` reads an integer where the server writes a `double`.
* `OrderNum` of `SEND_SYNC_TRANSACTION` is written in 4 bytes and read in 8
  (`T2Q_Server.cpp` 188), and the fields behind it shift.
* `ReadAndCreate_LPSTR_from_QString` makes an empty string a null pointer, and
  `ReadQString2LPSTR` copies without the terminating zero (`io_utils.h` 46-60).
* With `Overlapping`, the requests of the earlier client are never served once a
  second one is connected, since `processMessages` reads from `curConnection`
  alone, and `curConnection` may be null when a frame of the first goes on
  (`ConnectionsAlive`). If both clients send in pieces, a frame of one takes a size
  of the other for the rest of its message (`MessagesInStep`).
* Two rogues, even one after the other, can make the server go round in an `exec()`
  that returns at once (`NeverSpins`), without ever handling an event: the bytes
  it waits for then cannot arrive. The server seems meant for one client that
  sends small requests, so these two are described rather than listed as
  findings; `SessionsSafe` states the limits.

**Bounds.** `MaxPipe` = 3 lets a report stand before, behind, and between two
other messages; no defect of the readers needs more, since they look at one
message at a time. `MaxDepth` = 3 gives a call in a callback in a call and a call
in an event in a call; 2 is enough for main-loop calls, where a stack of one call
or one `WaitRead` is all there is. `Functions` of `client_sequential` has one
function whose two ends agree, one whose reply is read too far and one that is
answered under another's code. `wire_all` has every function of the API, with one
report under way; `MaxEvents` = 2 puts one report behind another. `Base` =
256 leaves room for all function codes, and the descriptors include one beyond a
word and a negative one. At the server two connections let a frame of the first
wait below those of the second, on a socket that is disconnected or deleted;
`MaxAsked` = 2 lets a request stand behind the one being served, and
`MaxSent` = 1 lets a report come on either side of a reply. The same safety
properties were tried with three connections, and are proved for any number. The
liveness runs have no state constraint; the bounds are guards of the environment
only.

**Deadlock** is not checked in the `T2QClient` runs, because the system may
stop there: after an assertion, when the connection is lost, or when a setter's
call hangs; in the `T2QServer` runs, where all clients may
have gone; and in `wire_all`, which includes functions that assert. It is checked
in `wire_faithful`, where a deadlock would be a call that is never answered.

**Fairness.** `FairSpec` of `T2QClient` assumes weak fairness of `Receive` (TCP
delivers and the event loop runs) and of `Step` (the client's thread runs), each
of a single thread that is never disabled by another once enabled. The
application need not call, the DLL need not report and the server need not
answer: none is assumed fair, and the liveness properties start from a reply that
is on its way. `TrafficFreesCalls` states its assumption in itself: that
`Receive` happens again and again.

`FairSpec` of `T2QServer` assumes strong fairness of `Receive(c)` and of `Step`,
and weak fairness of `Send(t)`. The DLL calls back on the main thread whenever the
event loop runs or one of its functions does, and while the callback prepares its
message neither the loop nor the frame goes on: however often that happens, the
event loop comes to every socket that has bytes (it polls them all in a turn),
and a function of the DLL returns, which weak fairness does not give. A thread
that prepares a message is not interrupted. Clients need not call, read or stay.

## 4. Proofs

For all values of the constants that meet `ClientAssumption`:

* `ReaderInvariant`, `TypeCorrect`. `TypeOK` is not inductive: a reader takes
  `Tail(pipe)`, so `pipe` must not be empty when it does and `avail` must stay
  within it. `ReaderInv` adds that the buffer holds no more than the stream has
  left (`StreamInv`), and that while no fault has occurred at most one reader is
  half way through a message, which is the first (`HalfReadInv`).
* `FlagNeverStale`, `RepliesOwed`, wherever the application calls from: the flag is
  up only while a call waits, and requests and replies under way never
  outnumber the calls that wait. The first needs that the flag is lowered only by
  the return of a call, the second counts the replies in `pipe` step by step.
* `MainLoopSafe`, for an application that calls from its main loop, sets any of the
  four callbacks and resets none, on a server that has none registered
  (`MainLoopCalls`), whatever functions it calls and whatever the server does or
  leaves undone: `OnlyMisanswered`, `ReadersApart`, `FlagMeansWaiting` and
  `HandlerInstalled`, the connection lost at any time or not. The inductive
  invariant `MainLoopInv` says that the stack has at most one frame, that a failed
  assertion is that of a function answered under another's code and that a reader
  starves only at the size of a message (`StackInv`), that the request or reply
  under way is that of the call on the stack (`RequestInv`, `ReplyInv`), and that
  what is registered at the server, or will be by a request under way, has its
  handler set at the client (`HandlerInv`). The setters the server does not know
  are among the requests (`Sendable`): their call stays on the stack and goes on
  reading reports.
* `CallsOwnReplies`, `MainLoopSafeBesideAny`: the same of a client composed with
  `T2QService` (`ComposedSpec`). Each step that `T2QService` allows a server
  (`ServerStep`) is `Register`, `Answer`, `Drop` or `Push` (`ServerMoves`), so
  nothing of what `T2QClient` says of a server goes beyond `T2QService`.

The assumptions of `MainLoopCalls` are needed: `nested_call` calls from a callback,
and a reset, or a callback left from an earlier session, leaves a payload unread;
each fails an assertion. What the theorem leaves open is not safe either:
`start_trades` shows that a reader may starve.

For all values of the constants that meet `ServerAssumption`, and so for any
number of clients:

* `ServerBookkeeping`, `TypeCorrect`, whether the DLL has a thread or not. `TypeOK`
  is strengthened to `ServerInv`: a socket holds no more than was sent, and a size
  read without its body belongs to a request that is still there (`SocketState`);
  every frame but the last is in `exec()`, and one past the reading of a request
  has it (`StackInv`); a thread that prepares a message has one (`SendInv`).
* `MessagesWhole`, when the DLL calls back on the main thread: whatever clients do,
  every `write` hands the socket one message. `BufferInv` gives the content of
  `_buf` and the position of `_out` at each step of `PrepareMessage`, and `HandInv`
  says that what is in hand is the reply of the running frame or a report of a
  callback that is still registered. `two_threads` shows that the assumption is
  needed.
* `PromiseOfServer`, under the same assumption: `T2QServer` implements `T2QService`,
  for clients that overlap, send in pieces or leave. The invariant is that of
  `MessagesWhole` with the fact that `curConnection` has been connected.
* `SessionsSafe`: `ConnectionsAlive`, `MessagesInStep` and `NeverSpins`, when the
  DLL calls back on the main thread, clients come one after the other, and at most
  one of them, any, is a rogue (`Sessions`). In `SessionInv` a frame is in turn
  while it reads the requests of the client that is connected. Only the rogue can
  leave a frame that waits, and it is at the bottom; it is woken only by the return
  of a frame above it, and finds nothing, because that frame has read all there
  was. The behaviours with `Overlapping` or with two rogues show why the
  assumptions are there.

For all values of the constants that meet `FormatsAssumption`, `WireAssumption` and
`SizesAssumption`, so for strings of any length and any set of functions:

* `RoundTrip`: what a list of fields is written as is read as the same values, with
  the reader behind them, whatever words follow, if every value is one that the
  writer's type and the reader's tell from all others (`AllKept`: the pairs of types
  that occur, each with the range of values it keeps). The lemmas before it say
  what each reader takes of each writer's words.
* `TypeCorrect`, for all functions: whatever is misread, the two streams stay words
  and the call, its arguments and results stay of the types the API declares.
* `InStep`, for every function of the API, the three setters that send a stray
  payload included, under `CodesApart`: `processMessages` executes a request under
  the code it was sent with or never, and nothing is left of a call that has
  returned but the flag of `START_TRADES`. The invariant says what `up` is
  (`Standing`): the request of the call that is not executed yet; or nothing; or
  the flag; or words of which the server will never execute anything (`Astray`),
  because their size never arrives, or no case has their code and the same holds
  of what is behind it. The other half is that at most one word of `down` is a code
  that is waited for, and none unless an executed call waits (`OneReply`). It
  needs the condition: a client out of step may meet any word as a code, and must
  not return from a call with words that are no reply and make the next.
* `FramesStay`, `Refines`, `ArgsArrive`, for functions among `AgreedFunctions` and
  values that meet `AgreedValues`: the client is always at a message boundary;
  `T2QWire` implements `T2QRpc`; the server stays in step without `CodesApart`, and
  the DLL is called with the arguments of the call. The inductive invariant
  `WireInv` says what `down` is, to the word: the messages of the reports not yet
  shown, in order, with the reply of an executed call put somewhere among them,
  and `heads` the marks of their sizes (`InOrder`); that the handler is set while
  the server has a callback, a report is under way or a setter waits; and that no
  assertion has failed. From it, `NothingElse`: `SkipEvent` and `ReadOther`, the
  steps of a client that meets something unexpected, are never taken.

`RunsAssumption` of `MCWire` has TLC evaluate that the values of the runs meet
`CodesApart`, and `AgreedValues` where the functions are the agreed ones, so the
theorems' hypotheses hold of what the runs check. `order_quantity`, the reset
callbacks and the calls with an empty string show why `AgreedValues` and
`AgreedFunctions` leave out what they leave out.

The readers, the writers and the sets of tuples are recursive functions over lists
of any length. The provers cannot apply an induction principle to a predicate;
they can cite a fact about sets. `Least` takes the least element of a set of
numbers from the well-foundedness of `Nat`, and `UpTo` concludes that a set that
holds zero and each successor holds every number up to a bound; the set is that
of the lengths for which the claim is true.

Each invariant was checked by TLC on small instances before it was proved.

Only model-checked: liveness (`CallsReturn`, `TrafficFreesCalls`,
`WholeRequestsServed`), which is out of the prover's reach with `ENABLED`; and the
behaviours of the runs that find a disagreement. Of the functions outside
`AgreedFunctions` only `TypeCorrect` and `InStep` are proved, since the rest does
not hold of all of them.

## 5. Plan

Done: `FuncCodes`, `T2QService`, `T2QClient` and its proofs, `T2QFormats`, `T2QRpc`,
`T2QWire`, `T2QSendBuffer`, `T2QServer`, and the proofs of each that section 4 lists.

Next:

1. What the server still keeps of its safety with overlapping clients.
2. What is true of the functions outside `AgreedFunctions` one by one: which of
   them still reach the DLL with their own arguments.

The direct composition of `T2QClient` with `T2QServer` is not planned: the server
implements `T2QService` and the client is proved safe beside `T2QService`, both
for all constants.

## 6. Not modelled

* The payload of the transaction reply, order and trade callbacks. The two ends
  disagree about them (the server writes `double` and 64-bit fields where the
  client reads `quint32`), but no client function makes the server register them.
* A client object that connects again after it has lost its connection: what is left
  in its buffer and a call that still waits would meet the new session. The
  callbacks a server keeps from an earlier session are in `client_reentrant`.
* Several connections waiting to be accepted in one `newConnection`, of which
  `clientConnected` takes one.
* A server whose DLL callback runs on a second thread is modelled at the words of
  `_buf`; the reference counts inside `QByteArray`, and `curConnection` deleted
  between the callback's test and its `write`, at no finer grain than these steps.
* The 32-bit branches: they name members that do not exist and do not compile.
* `write` and `flush` failing, memory, the length of the caller's buffers, text
  encodings.
* `trans2quik.dll` and QUIK: external; any result of the declared type and any
  report at any time, except that the runs of `T2QWire` return no negative
  numbers as results.
* Of the sample programs only the event loop they enter; the build files.
