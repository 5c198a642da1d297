# netFwk in TLA+

netFwk is a small C++ framework for TCP servers and clients. A program derives
a *terminal* (its server) and a *protocol* (its parser); the framework accepts
connections, gives each a session and a thread, expires the silent ones and
deletes the dead ones. Almost none of its state is protected by a lock: what
makes it right, or wrong, is the order in which four kinds of threads get to
it. That is what these modules model.

Paths below are relative to the repository's root, `src/`.

## 1. Inventory

| component | state | operations | called by |
|---|---|---|---|
| session: `CSession` (`src/server/Session.cpp`), `IProtocol` (`src/protocol/Protocol.cpp`) | `m_state`, `m_sockfd`, `m_lastTime`, `m_timer`, `m_timeout`; `m_thread`, `m_session` | `set`, `login`, `logout`, `keepAlive`, `close`, `recv`, `send`, `timerProc`, `~CSession`; `start`, `sessionTask`, `isInvalid`, `~IProtocol` | acceptor, session thread, timer thread, whoever deletes |
| terminal: `ITerminal` (`src/terminal/terminal.cpp`) | `m_port`, `m_timeout`, `m_maxSession`, `m_listProtocol` under `m_mutex`, `m_thread`, `m_pServer` | `init`, `stop`, `~ITerminal`, `serverTask`, `managerTask` | program, acceptor, manager |
| TCP server: `CTcpServer` (`src/server/TcpServer.cpp`) | `m_sockfd`, `m_proc`, `m_pThread`; a static map port -> server under `sm_mutex` | `create`, `attach`, `start`, `stop`, `isRun`, `server_task` | terminal |
| clients: `CNetClient`, `CTcpClient`, `CUdpClient` (`src/client`) | `m_sockfd`, `m_isConnect`, `m_proc`, `m_pThread`, `m_buffer` | `init`, `attach`, `connect`, `send`, `recv`, `close`, `recv_task` | program, receiving thread |
| request client: `IProtoClient`, `CResClient` (`src/client`) | `m_client`, `m_timeout`, `m_mapRequest` under `m_rwlock`; id and buffer of each request | `init`, `send`, `close`, `recv_proc`, `dispense`, `appendResopne`, `deleteResopne` | program threads, receiving thread |
| example program (`main.cpp`) | none of its own | a protocol that sends back what it is given, a terminal, a client | |
| packet capture, legacy (`temp/app_capture.c`) | `isExit`, `isRun`, the raw socket | init, uninit, start, stop, the capture task, packet printers | program |
| raw interfaces and TCP packets, legacy (`temp/*.cpp`) | not built | `checkSum`, `tcpCheckSum`, interface ioctls | |
| interface list (`src/raw/NetIF.cpp`) | not built, does not compile | ioctl calls | |

How they interact. `ITerminal::init` creates (or finds) the server of the port,
attaches `serverTask` to it and starts it. The server's thread loops over
`accept`, with a receive timeout of three seconds, and calls `serverTask`,
which makes a session (its timer starts here), a protocol (its thread starts
here) and appends it to the list. The protocol's thread loops over
`sessionTask`: receive, `parse()` of the subclass, which may call `login`,
`logout`, `keepAlive` and `send`. The manager's thread loops over
`managerTask`: every second it deletes the protocols that say `isInvalid()`.
Deleting one closes the session, waits for its thread and frees both.

What is hard here: every member of `CSession` is written by three threads
without a lock; `close()` can run in two of them at once; the number of a
closed descriptor is given to somebody else; an object is destroyed, derived
class first, while its thread runs; some `stop()`s wait and some do not; waits
are chained (stop, acceptor, mutex, manager, session thread, `recv`). The list
of these hazards, each with its line and the properties that cover it, is in
`PROJECT.json`.

What makes each component right:

* session: its resources are given back, the memory last, and the number of its
  socket is not given back again once it is dropped; a closed session holds no
  socket; one that is in the list can still end; `delete` returns if the socket has
  its timeouts; expired sessions are found.
* terminal: after `stop()` nothing lives; nobody meets a deleted protocol in
  the list; the number of connections is bounded; `stop()` returns if each
  `delete` does.
* TCP server: one live server per port, stopped only by who started it.
* clients: `close()` ends the receiving thread, and the callback is not called again;
  `recv()` and that thread do not take each other's packets.
* request client: a `send` that is over leaves no pointer to its request behind;
  every `send` returns, by its time or by `close()`.
* a connection as a whole: the bytes of one end reach the other once and in their
  order, in pieces of any size, whoever times out or stops in between; two ends
  that both send do not wait for each other for ever, if one has a timeout.
* capture: stop followed by start leaves exactly one task.
* checksum: the one's complement sum of the words, for every length.

## 2. Modules

| module | what it is |
|---|---|
| `Session` | one connection from `accept()` to `delete`: `CSession`, `IProtocol`, the four threads |
| `Lifetime` | abstract: each resource taken and ended at most once, memory last; a descriptor's number closed again only before it is dropped |
| `SessionProof` | theorems about `Session` |
| `Terminal` | `ITerminal` and the `CTcpServer` it uses: program, acceptor, manager, the list, the mutex |
| `Pool` | abstract: a client is served at most once, at most `Limit` at a time, none when shut |
| `TerminalProof` | theorems about `Terminal` |
| `Client` | one `INetClient`: the program's calls in any order, the receiving thread, its callbacks |
| `ClientProof` | theorems about `Client` |
| `TcpServer` | the `CTcpServer`s of several terminals, their registry, and the descriptors they share |
| `PortService` | abstract: a port serves one terminal at a time, each is called for its own clients, none when it rests |
| `TcpServerProof` | theorems about `TcpServer` |
| `Stream` | the bytes of one connection: `CNetClient::send` and `recv`, the network, `sessionTask`, `CSession::send` |
| `Echo` | abstract: what comes back is what was sent, in order and, without a timeout, without a gap |
| `StreamProof` | theorems about `Stream` |
| `ProtoClient` | `IProtoClient`: threads that send requests, one that calls `init` and `close`, the map |
| `ProtoClientProof` | theorems about `ProtoClient` |
| `Checksum` | `checkSum` and `tcpCheckSum` of `temp/tcp.cpp`, against sums said without a loop |
| `ChecksumProof` | theorems about `Checksum` |
| `Capture` | the packet capture: a program calling init, uninit, start, stop, and the capture tasks |
| `CaptureDiagram` | abstract: the state diagram that the code draws above `app_capture_init`, and two states it does not draw |
| `CaptureProof` | theorems about `Capture` |
| `MCSession`, `MCStream`, `MCProtoClient`, `MCChecksum` | constants for TLC |

The modules fit together where one's assumption is another's result. `Terminal` uses a
session as `Session` shows it: valid or invalid, changing until it is deleted, and
`delete` takes time, or never returns. `Stream` composes a client and a session by their
bytes, and takes from `Session` only that a session is open until some thread closes it.
`ProtoClient` takes from `Client` that `attach()` is refused when there is a socket.

### Session

Variables have the names of the members: `state`, `sockfd`, `timerOn`. `desc`
is what the descriptor's number denotes in the process: this connection, nothing,
or something another thread opened later. `recvTimeo` and `sendTimeo` say that the
`setsockopt` of the one and the other was not refused. Time is `quiet`, the seconds since
`m_lastTime`, and `timerLeft`, the seconds until the timer expires; `quiet`
stops counting at `Timeout`, because `timerProc` compares and nothing else reads
it: this is what makes the model finite with no bound on behaviour. `object` is
the protocol object: `whole`, `base` (the derived destructor has run) or `gone`.

`pc[t]` says where thread `t` is. Each access to a shared member is a step of its
own, so a test and the assignment that follows it can be separated by any other
thread. `close()` is one operator, `Close(t)`, with a step per member, which
the session, timer and reaper threads execute; `ret[t]` is where it returns to.
`Set`, `SetStamp`, `Construct`, `PushBack` are the acceptor's part;
`SessionTask`, `RecvCall`, `Recv...`, `Dispatch`, `Parse` the session thread's;
`Expire`, `TimerCheck`, `TimerState` the timer's; `Reap` or `StopDelete`, `Detach`,
`Join`, `Free` are `delete p`. The subclass's `parse()` is any sequence of
calls of `login`, `logout`, `keepAlive` and `send`.

A `recv` or `send` that has begun waits on what the number denoted then: the
connection's socket (`recvOwn`, `sendOwn`) or somebody else's (`recvOther`, `sendOther`).
The first ends by this socket's timeout, where it has one that is not 0
(`RecvTimeout`, `SendTimeout`); the other may wait for ever. The loop of `send` reads
`m_sockfd` anew for each part (`SendMore`).

As a `Lifetime`, `life` tells the descriptor from its number: the descriptor is ended
by the first `::close`, the number is dropped by `m_sockfd = -1`, and `closing` are the
threads between the two. A `::close` that finds the descriptor ended, the fault that
`session_foreign_close` shows, is a step of `Lifetime` only while some thread is
there; and with `m_sockfd` at -1 it ends nothing.

### Terminal

`sock` is `m_sockfd` and what it denotes; `list` is `m_listProtocol`, `todo` the
part `managerTask` has not visited; `conn[c]` is the life of connection `c`.
`delete p` is two steps, out of the list and gone; it may go to `hang` in between and
never return, as it does when the session thread is in a `recv` or `send` that does
not end (`Session`), and then it keeps `m_mutex`. `Full` reads the list without
the mutex, as the code does. The program may call `init` and `stop` as often and
in any order it likes; the destructor is a `stop` begun with the derived class
destroyed. `init` is given a timeout other than -1, so that `timed` can tell the
sessions that were made before it was stored (`TimedSincePort`).

### Client

A step is again one access to a member. `main` calls the interface in any order it
likes; a call that has no effect, because a test of the code or the system refuses it,
is no step. The callback is the program's code on the receiving thread: it may send and
close, so that two threads can be in `close()`. `Denoted` is what a system call given
`m_sockfd` finds: the client's socket, nothing, or a descriptor that somebody else has
opened under the number since. `inbox`, `linked` and `timed` are the socket: something
arrived, there is a peer, and the directions it has a timeout for. A call on somebody
else's descriptor (`astray`, `sendOther`) is ended by none of them. `recv_task` finds
`m_proc` (`Dispatch`) before it enters it (`Enter`), and `close()` may unbind it and
return in between. `closed` remembers a result of `close()` and is read by properties
only. After `delete` the thread, if it runs, is `wild`: the code does not stop it.

### TcpServer

`Terminal` has one server and hides the others; this module hides the list and has all
servers of a process. A terminal is a thread that calls `init` and `stop` as it likes,
on any port; the `init()` that has run the thread returns later (`Started`). `port`,
`proc` and `sockfd` are a server's members; `file[f]` is what descriptor `f` denotes, so
that a number closed by one server is the next one another server is given, as
`socket()` does. `at[s]` is where `server_task` is: it reads `m_sockfd` (`Task`), and
enters `accept()` later (`Enter`), with a number that may denote something else by then.
`up` remembers whose server `init()` has set to work (`Run`) and `stop()` has not been
called for since, `down` for whom `stop()` has returned, and only properties read them.

As a `PortService`, a terminal is served (`Serves`) on its server's port from the moment the
server's thread runs, which is before `init()` stores `m_timeout` and `m_port` and returns,
to the call of `stop()`, called (`Calls`) for the port of the client that its
server's `server_task` has accepted, and at rest (`Quiet`) before it has a server and
after `stop()`. How a server comes by its client, through a number read before
`accept()`, is what the abstract module does not have.

`Sharing` says whether a terminal may use a port while another's server is registered
for it. Then both have one server, the second one's `init()` fails, and either's
`stop()` stops the other; worse, a failed `start()` of the one can run the thread the
other is waiting for. Nothing in the repository says that this should work. The
run has `Sharing = FALSE`: a program that gives a port to one terminal at a time.

### Stream

A byte is its number in the client's stream: `handed` numbers have been given to
`send()`, `unsent` are those its loop still holds, `up` and `down` what the two
directions hold, at most `Window` and `BackWindow` of them, `got` what `recv()` has
returned. On the server's side `recvLen` and `piece` are `sessionTask`'s, `unechoed`
is what the loop of `CSession::send` still holds, `open` that no thread has closed
the session, `sndTimeo` that its socket has a timeout for `send`: one that is not 0 and
was not refused. A step is one system call, which moves any number of bytes that
there are and is room for. `parse()` is the one of `main.cpp`: it sends back what it
is given, and returns any member of `Result`, which is cast to a `size_t` of
`SizeMax` values. `Shut` is the timer, the manager or `stop()`, at any moment;
`Reset` is what the network does to an end whose peer has gone. `heard`, `asked` and
`forgot` remember what `parse()` was given and has asked for, and only properties
read them.

### ProtoClient

`m_client` is what the pointer points to: nothing, an object without a socket,
with one, one that can send, one that believes it can though closed, a deleted
one. `pc` again separates every two accesses that no lock keeps together; a
critical section of `m_rwlock` that touches the map once is one step, `close()`'s,
which visits every request, several (`writer`). `left` is the time a waiting
`send()` has. `alive` becomes false when a null or deleted client is used, and
then nothing happens any more. The properties read `quick`: the requests that
`send()` left registered although it did not wait, which the code does on its
only way to the map (section 4).

### Checksum

A behaviour is one call, a step one turn of a loop. `ByteAt`, `Word`, `SumOfWords` (a
recursive function of the number of words) and `OnesSum` say the sum without the two
kinds of word the code has, and without a carry. `total` is the sum before folding.
`sent` is what the packet's receiver sums: for a segment, with the length that
the segment has.

### Capture

`isRun` and `isExit` are the two words program and task share; `caller` is where the
program is in a call, `task[t]` where each task is. Each access to a word is a
step. `hasty` records that a `stop` has been called while a task had not yet
begun to capture: the properties that say what the comments promise hold until
then, and liveness holds always. `Task` bounds the tasks alive at once: when all
are used, creating another fails.

`State` and `InCall` map this to `CaptureDiagram`: the state is read off the table, the
two words and the tasks, and is `astray` once hasty; a call is the caller's place. The
words have the diagram's values but for `isExit` in the capturing state: the diagram
writes 1, which the code has until the task is ready and 0 from then on. A fourth state,
`taskless`, is left by a `start` that could not create its task (`isRun` is 1 and
nothing runs); the diagram does not draw it, and only `stop` leaves it. Each step of
each call, and of each task, is an arrow of the diagram, a refusal or nothing.

### Slips

Before the actions the modules have a section of definitions named
`Action_Mistake`: the same action with one plausible mistake. No action uses
them; put in the action's place, each makes some property fail, which shows
that the property depends on the code.

## 3. What is checked

| run | instance | shows |
|---|---|---|
| `session_no_timeout` | `Timeout = -1` | no zombies (`NoZombie`); of the sessions whose socket has its timeouts, closed ones are reaped (`ClosedIsReaped`), and `delete` returns (`DeleteReturns`) unless the session thread went astray to another's socket |
| `session_timeout` | `Timeout = 2`, `Period = 3` | a deleted session is quiet (`FreedIsQuiet`), closed means released (`ClosedReleased`), silent sessions are reaped (`IdleIsReaped`), `Session` implements `Lifetime` |
| `session_zombie` | `Timeout = 2` | **violation** of `NoZombie` |
| `session_foreign_close` | `Timeout = -1` | **violation** of `ClosesOwn` |
| `terminal` | 3 clients, `Max = 1` | nothing survives `stop()` (`StopLeavesNothing`), no dangling pointers (`NoDangling`), the list is bounded (`ListBound`), the pure `createProtocol()` is called under an unstopped terminal's destructor only (`PureOnlyUnstopped`), sessions made after `init()` have their timeout (`TimedSincePort`), `Terminal` implements `Pool`; unless a `delete` hangs, `stop()` returns (`StopReturns`) and invalid protocols are deleted (`InvalidIsDeleted`) |
| `client` | TCP and UDP | `recv()` and the thread never read the socket at once (`OneReader`), after `close()` the thread finds no callback again, so that at most the call it was about to make begins (`LastCall`), packets reach the callback (`Delivered`), the thread of a closed TCP client with timeouts stops unless somebody else's descriptor keeps it (`CloseEndsReceiver`) |
| `tcp_server` | 2 terminals, 2 ports, 3 servers, 2 descriptors | a terminal that is up stays served (`Serving`), whatever the other one starts, fails to start and stops; after `stop()` nobody calls it (`Stopped`); every descriptor is known to its server (`NoLeak`, which a server that its terminal has forgotten satisfies); the servers implement `PortService`; `stop()` returns |
| `stream` | see below | no byte is lost, repeated or out of place between two ends that are up (`NoGap`); `m_pBuffer` is not overrun (`InBuffer`); `parse()` is given what it asked for (`Framed`); `Stream` implements `Echo`; no deadlock of two senders when the session's socket has a timeout for `send` (`SendReturns`); echoes come back (`EchoArrives`); a client that is gone is noticed (`GoneIsNoticed`) |
| `proto_client` | 2 senders, 2 requests, 1 id | a `send()` that waited leaves nothing in the map (`LeavesNothing`); it returns, by its timeout (`SendReturns`) or by `close()` (`CloseReleases`) |
| `checksum` | 10,987 states | every word is summed once (`SumsWords`), folded to the one's complement (`OnesComplement`); a receiver accepts the packet, but for segments with a payload (`Accepted`) |
| `capture` | 3 tasks | `stop()` returns; while no `stop()` is hasty it implements `CaptureDiagram` (the drawn diagram with the code's `isExit`, and `taskless`), and one task captures (`OneTask`) |
| `capture_stop` | 2 tasks | **violation** of `StopWaitsForTask` |

`TypeOK` of every module is proved (section 5), so no run repeats it.

Bounds. `Session` has none beyond the constants. `Timeout = 2` with `Period = 3`,
the code's period, has expiry before, at and after the timer's call; a larger
timeout adds states of the same kinds. `Terminal` has none but the set of
clients: `Max = 1` needs three to fill the list beyond `Max`; that `Pool`'s `Max + 2`
places suffice for any number of clients is proved (section 5). `Capture` has none
but the set of tasks: two show a late task beside a new one, three leave one more
to be refused. `TcpServer` makes three servers, of which none is ever deleted: enough for
one terminal to fail, stop and begin again beside another one; two
descriptors, so that one server's number becomes the other's and `socket()` can
fail. `Client` has no constants and finitely many states: its run is
exhaustive.
`Stream` has six bytes, messages of up to three, windows of three and one and a
receive buffer of two: a message is longer than what a session receives at once and
than what the way back holds, so that every call is split, either window fills up,
and the two ends can each wait to send. `Result` is an error, `OK` and one byte more;
`SizeMax = 256` only has to be larger than the buffer, so that the cast of -1 is far
beyond it. `NoGap`, `InBuffer`, `Framed` and `ImplementsEcho` are proved for all of
these constants.
`ProtoClient`'s two requests share one id, so that they compete for the same place of
the map, and are sent by two threads beside the owner; its timeouts are none and
one turn. `Checksum` is run over every buffer of up to six bytes out of 0, 1 and 255,
and over segments of 20, 33 and 52 bytes: even and odd ones, with no
carry, one and several, and headers with and without a payload.
Deadlock is not checked in `Terminal`, `Client`, `Stream`, `ProtoClient` and
`Checksum`: after the destructor, with no client left, with the connection gone or
the process dead, or with the call over, nothing happens.

### Fairness

`Session`: the acceptor, the session thread, the timer thread and the deleting thread
are scheduled (weak fairness of their steps); `recv` and `send` on the connection's own
socket end by `SO_RCVTIMEO` and `SO_SNDTIMEO`, if these are set and not 0, and on
somebody else's by nothing; `parse()` returns, which is strong fairness because the
calls it makes enable and disable its return; time passes; the manager looks every
second, so a session that stays invalid is reaped. The peer need not send or close
anything, and nobody need call `ITerminal::stop`. `Terminal`: a `stop()` that has begun
goes on, `accept` ends after three seconds, `server_task` returns, the manager loops; a
`delete` that hangs need not return. The three seconds are a `setsockopt` whose result
is not tested (`TcpServer.cpp:129`); it is assumed to succeed, here and in `TcpServer`.
The program need not call anything, no client need come, and no session need become
invalid. `TcpServer`: a `stop()` that has begun goes on and `server_task` is scheduled,
`accept()` ending as above. Nobody need call `init` or `stop`, and `init` need not
succeed. `Client`: a call that has begun goes on, but a `send` or `recv` ends by itself
only on the client's own socket and by a timeout that this has; the thread runs while it
is told to, a callback returns (strong fairness, as for `parse()`). `Stream`: a system
call of the client that can go on does, except that its timeouts need not exist; the
session's thread is scheduled, its `send` ending by `SO_SNDTIMEO` where there is one
(`sndTimeo`) and its `recv` by no timeout; strong fairness of `TaskEnd`: a thread that
calls `recv` again and again sees the end of the stream; the network tells an end that
the other one has gone. The program need not call anything. `ProtoClient`: a `send()` or
`close()` that has begun goes on, but the `m_client->send()` it calls need not return;
`m_rwlock` is fair, so a sender that wants it is let in some day although `close()`
comes again and again (strong fairness of `Remove`). Nobody need begin a call.
`Capture`: a `stop` that has begun looks once a second; every task is scheduled,
`recvfrom` having a timeout of three seconds.

A session whose `setsockopt` for a timeout was refused waits in `recv` or `send` for
ever, and so does one with a timeout of 0. `ClosedIsReaped` and `DeleteReturns` are stated
of the others (`Timed`), `Stream`'s `SendReturns` of those that have the timeout for
`send` (`sndTimeo`). A session thread that has entered a call with the number of a closed
descriptor may wait on another's socket, whose timeouts are not this session's:
`DeleteReturns` excepts it (`Astray`), `CloseEndsReceiver` the same of a client (`Kept`).
`StopReturns` and `InvalidIsDeleted` except a `delete` that one of these keeps
(`Hanging`): nothing else can hold up `stop()` or the sweep for ever.

### Assumptions about code that is not here

The library Infra (threads, timers, mutexes) is a git submodule that the repository's
tree does not contain. From its use: a `CThread` calls its procedure over and over while
it runs; `stop(true)` returns when no call is in progress, `stop()` at once;
`detachProc` prevents further calls only; a `CTimer` makes one callback at a time,
`stop()` does not wait for it, the destructor does; a `CFunc` that is unbound calls
nothing. Of the system: a descriptor number that is free can be given to any `accept` or
`socket`; `close` on a socket another thread is receiving from does not wake it. A
subclass uses the functions of `IProtocol` only, not the protected `m_session`. An
unlocked read (`size()`, an enum, an int) yields the current value. A pure virtual call
ends the process: properties that follow say so (`Aborted`).

## 4. What the code does wrong

Three disagreements with the documentation are runs that must fail.

1. **Zombie sessions** (`session_zombie`). `login()` tests the state and assigns it
   later. If `timerProc` closes a session that is still in state Created in
   between, `login()` overwrites `emStateClose`: a listed session, logged in, with
   no socket and no timer, which nothing ends. With `Timeout <= 0` this cannot
   happen, and that is proved.
2. **Closing somebody else's descriptor** (`session_foreign_close`). Two threads in
   `close()` both pass the test of `m_sockfd`.
3. **A stop that does not wait** (`capture_stop`). `app_capture_stop()` polls `isExit`
   to wait for its task, but `isExit` is 1 until the task has its socket. After a
   stop right behind a start the late task is still there: another start makes
   two, and an uninit is undone when the task sets `isExit` in the cleared manager.

The models contain, as steps and not as runs of their own, what else came up.
Some of it contradicts a text, some only a reader's expectation.

* Session. `delete p` destroys the subclass before the session thread is stopped: a
  message dispatched in between calls the pure virtual `parse()` and ends the
  process (`Aborted`). `delete p` waits for ever when `recv` or `send` does: with a timeout
  of 0, after a `setsockopt` that was refused (`Session.cpp:74, 81`), or when the session
  thread has passed the number of the closed socket to `::recv` (`Session.cpp:227`) and it
  denotes somebody else's by then.
* Terminal. A `delete p` that waits for ever does so under `m_mutex`
  (`terminal.cpp:57, 106`): the sweep, the acceptor and `stop()` wait with it.
  `init()` starts accepting before it stores `m_timeout`, let alone returns: a client that
  comes in between has a session without a timeout. `TimedSincePort` says that this
  is over when `m_port` is set. The documented maximum of connections
  (`terminal.h:19`) is exceeded by one, since `serverTask` refuses with `>`;
  `ListBound` states, and `Bounded` proves, the bound the code keeps.
* Client. The documented order is init, attach, connect; `attach()` refuses a client
  that has been initialised (`NetClient.cpp:140`), so one has to attach first.
  A client that is closed and used again (`send()`, a second `close()`) uses a
  descriptor that may be somebody else's, since `close()` forgets neither `m_sockfd`
  nor `m_isConnect`. `delete` does not stop the receiving thread. A callback may begin
  after `close()` has returned: `recv_task` tests `m_proc` and calls it without a lock
  (`NetClient.cpp:213`).
* TCP server. One that is being stopped can accept a client of another server that was
  given its descriptor's number (theorem `ClientsAreOwn`: one that is not being stopped
  cannot); an `init()` that is tried again on another port forgets the first server
  and its socket.
* Stream. `::send` is called without `MSG_NOSIGNAL`: a client that resets its connection
  at the wrong moment ends the server (`EchoKilled`). Where the session's socket has no
  timeout for `send`, a client that sends without receiving and the session can wait
  for each other for ever. `send` is documented to return
  the length that was not sent (`Protocol.h:43-49`, `client.h`), but returns 0 or -1
  only, so that neither side can go on after a part. A client stops being usable after
  one `send` that timed out; a session with a timeout stays open, and what its client
  receives has holes (`lossy`). A `recv` that times out makes `sessionTask` forget how
  many bytes `parse()` had asked for (`Framed`'s exception). The example's `parse()`
  prints the buffer as a string (`main.cpp:44`), which nothing terminates when it is
  full.
* Request client. `IProtoClient::init` calls `attach()` in the documented order, which is
  refused: `recv_proc` is never called and no answer arrives. `send()` returns
  false at its first test when there is a client (`ProtoClient.cpp:67`) and uses the
  pointer when there is none; only an `init()` of another thread in between lets it
  go on. Then it takes `appendResopne`'s true for a failure (`ProtoClient.cpp:82`) and
  returns false with the request still registered. The only ones that wait are
  those whose id was taken; they are not in the map, so `close()` does not end
  them, and when their time is over `deleteResopne` erases the entry of the other
  request. `LeavesNothing` and `CloseReleases` say what remains true of it.
* Capture. The diagram gives `isExit = 1` to the capturing state (`app_capture.c:87`); a
  task that captures has set it to 0 (`app_capture.c:321`). `Capturing` has what the code
  does, so that `ImplementsDiagram` is about the states and arrows of the diagram and not
  about this value. A `start` whose task is not created leaves `isRun` at 1: the next
  `start` and `uninit` are refused although nothing captures, until a `stop` (`taskless`).
* Checksum. `tcpCheckSum` puts the constant 0x0014 into the pseudo header, also for the
  segment with a message (`tcp.cpp:182`): the receiver rejects that one. `Accepted` says
  that it accepts all others.

## 5. What is proved

`SessionProof`, for every `Timeout \in Nat \cup {-1}` and every positive `Period`:

| theorem | says |
|---|---|
| `Typing` | `Spec => []TypeOK` |
| `Quiet` | `Spec => []FreedIsQuiet` |
| `Released` | `Spec => []ClosedReleased` |
| `NoZombieWithoutTimer` | if `Timeout <= 0`, `Spec => []NoZombie` |
| `ClosedStaysClosed` | if `Timeout <= 0`, a closed session of the list stays closed until it is deleted |
| `StaleOnlyInWindow` | `m_sockfd` has the number of a closed descriptor only while a thread is between `::close` and `m_sockfd = -1` |
| `MissesOnlyInRace` | `::close` is called with a number that is not the connection's only while another thread is in that window |
| `PureOnlyInDelete` | the pure `parse()` is called only from the end of the derived destructor to the end of the session thread |
| `Refinement` | `Spec => ImplementsLifetime`: with what `::close` is handed, and when it is handed it again |

The argument. None of the invariants is inductive. `FreedIsQuiet` speaks of the
end only; one has to say what is already true at each point of the destructors.
`IInv` is the conjunction of `TypeOK` and

* `Places`: which labels each thread can be at, and that `ret` fits them;
* `Birth`: what exists at each point of the acceptor's part;
* `Death`: how `object`, `listed`, the reaper's and the session thread's places
  go together (after `Join` the session thread is off, and stays off);
* `Descriptor`: once `m_sockfd` is cleared, or some thread is past `::close`, the
  descriptor is not this connection's any more; state Close implies it;
* `Teardown`: what the second `close()`, in `~CSession`, finds and leaves.

`Descriptor` is the heart: any thread may be anywhere in `close()` when another assigns
`emStateClose`, so the invariant ties the released descriptor to every label behind
`fdClose` of every thread. `NoZombieWithoutTimer` adds `Alone`: without a timer
`login()` has no rival before the session leaves the list. `ClosedStaysClosed`, the
safety half of `ClosedIsReaped`, has the same reason. The next three theorems confine
two faults of section 4, the foreign `close` and the pure call, to the windows they
name. `Refinement` shows for each action which resource of `Lifetime` moves, with the
guards from `IInv`; for `::close`, `StaleOnlyInWindow` says when the number can still be
kept, and that it is dropped when the memory goes. One lemma per group of actions; the
last step of each theorem is `PTL`.

`TerminalProof`, for every finite set of connections (none of them named `NoConn`)
and every `Max \in Nat`:

| theorem | says |
|---|---|
| `Typing` | `Spec => []TypeOK` |
| `NothingLeft` | `Spec => []StopLeavesNothing` |
| `Living` | `Spec => []NoDangling` |
| `Bounded` | `Spec => []ListBound` |
| `PureOnlyInDestructor` | `Spec => []PureOnlyUnstopped` |
| `SessionsAreTimed` | `Spec => TimedSincePort` |
| `NobodyIsLockedOut` | program, acceptor and manager never wait for each other in a circle, nor in a chain of three waits |
| `Refinement` | `Spec => ImplementsPool` |

The argument. `IInv` adds to `TypeOK` and `Places`

* `Locking`: which labels hold `m_mutex`, and that only the manager's sweep has a
  `todo`;
* `Owned`: a living connection is in the list, in the acceptor's hands or in the
  manager's, never in two of them, and what stage it has in each; a deleted one is
  in the list only while main holds the mutex;
* `Stopping`: how far the acceptor can still be at each step of `stop()`. It needs
  that `init()` refuses a terminal with a port, so that `start()` never meets a
  socket that already listens;
* `Room`: the list has at most `Max + 1` members, and at most `Max` from the test of
  its length to the append. Nobody but the acceptor appends, which is why a test
  made without the lock stays true.

`NothingLeft`, `Living` and `Bounded` follow from `Owned`, `Stopping` and `Room`.
`NobodyIsLockedOut` follows from `Locking`: whoever holds `m_mutex` is past every wait, so
that a chain ends there; `stop()` waiting for the acceptor, that for the manager, is the
longest. It is the part of `StopReturns` that is a safety property. For
`Refinement`, at the moment a client is admitted all served ones are in the list
or are the one the manager deletes (`ServedAreFew`), so there are at most `Max + 1`;
and `stopped` implies that the acceptor is idle, so nobody is admitted then. The
facts about cardinalities are those of `FiniteSetTheorems`.

`CaptureProof`, for every set of tasks:

| theorem | says |
|---|---|
| `Typing` | `Spec => []TypeOK` |
| `BetweenCalls` | between calls the manager is in one of the three documented states, with both words as they are then |
| `Alone` | `Spec => []OneTask` |
| `Refinement` | `Spec => ImplementsDiagram` |

The argument. `IInv` gives the state of the manager at every label of the caller; that a
task leaves its loop only while `stop()` waits makes it inductive. With it every step has
its state before and after, from which `CallArrow` reads the arrow that a step of
the caller is, and `TaskArrow` the one that a step of a task is.

`ClientProof`, of a module without constants, says why TLC's exhaustive run comes out
as it does:

| theorem | says |
|---|---|
| `Typing` | `Spec => []TypeOK` |
| `Attached` | `Spec => []RunsAttached`: the thread is told to run only when it has a callback |
| `OneReaderAtATime` | `Spec => []OneReader` |
| `CloseIsLastCall` | `Spec => LastCall`: one call at most begins after `close()`, the one `recv_task` had found the callback for |
| `ClosedStaysStopped` | after `close()` there is no callback, and a TCP client's thread is never told to run again |

The argument. `IInv` adds to `TypeOK`

* `Places`: where each thread can be;
* `ConnectsOnce`: until a TCP client has connected no callback exists that could close
  it while `connect()` is between its test of `isAttach()` and `run`;
* `HaltsFirst`: `close()` stops the thread before it unbinds the callback, in
  whichever of the two threads it runs.

The other three need a second invariant, `CInv`, which follows the socket: what
`m_sockfd` denotes before and after `close()` (`Known`), that only a client with a socket
sends or closes (`UsesFd`), that the callback goes before the socket and for good
(`Unbound`: `attach()` refuses a client that has been initialised, closed or not), and
that a client without a callback has no thread (`NoThread`), so that a `recv()` which
passed its test of the callback reads alone (`ReadsAlone`). `ClosedStaysStopped` is the
safety half of `CloseEndsReceiver`.

`TcpServerProof`, for every set of terminals, ports, servers and descriptors, and,
but for the first theorem, of terminals that have ports of their own (`~Sharing`):

| theorem | says |
|---|---|
| `Typing` | `Spec => []TypeOK`, also of terminals that share a port |
| `Served` | `~Sharing /\ Spec => []Serving` |
| `StoppedIsQuiet` | `~Sharing /\ Spec => []Stopped` |
| `NoneLeaks` | `~Sharing /\ Spec => []NoLeak` |
| `ClientsAreOwn` | `~Sharing /\ Spec => []OwnClients`: one that is served is called for its own port's clients only |
| `Refinement` | `~Sharing /\ Spec => ImplementsService` |

The argument. `Owned`: a server belongs to the terminal of its port, which alone starts
and stops it. `Registered` and `Held`: a server with a socket is the one registered for
its port, and its descriptor is its own, but for the time in which `stop()` has taken
one away and not yet the next; these two are what the number of a closed descriptor
could break. `Progress` and `Working` say how far `start()`, `stop()` and the thread can
be together, `Current` that `server_task` calls `accept()` with the socket it has read
as long as that is served, `Locals` what each thread carries. For the refinement one
more invariant, `OnPort`, says that what `accept()` returns has come to a port.
`StartServes` takes the steps of `init()`, of which the one that runs the thread serves
a port that no other terminal is served on, by `Owned`, so that a call before `init()`
has returned is a call of a terminal that is served; `StopRests` those of `stop()`, of
which the last has `Stopped` behind it; `TaskCalls` those of `server_task`, where
`Current` gives the port of the call. Without `~Sharing` `Serving` is false, as section
2 says.

`ProtoClientProof`, for every set of senders, requests, ids and timeouts: `Typing`,
`NothingLeft` (`Spec => []LeavesNothing`) and `RegisteredOnce` (no request is in the map
twice). `IInv` adds `OneEach` (no request is in two `send()`s), `IdIsKey` (the id that
`appendResopne` and `deleteResopne` read before they have the lock is the one the
request is registered under, while it has one), `Forgotten` (a request whose id
`close()` has taken is out of the map before the lock is free), `Locked`, and
`OnlyQuick` (whatever is in the map was put there by a `send()` that did not wait), from
which `LeavesNothing` follows. `RegisteredOnce` needs `IdIsKey` for a request that still
has its id when it is put in the map, and `Forgotten` for one that has lost it.

`StreamProof`, for every number of bytes, length of messages, windows, buffer length, set
of results and width of `size_t`:

| theorem | says |
|---|---|
| `Typing` | `Spec => []TypeOK` |
| `Gapless` | `Spec => []NoGap` |
| `Buffered` | `Spec => []InBuffer` |
| `Asked` | `Spec => []Framed` |
| `Refinement` | `Spec => ImplementsEcho` |

The argument. For the first four, `Emptied` (what is between two calls holds nothing) and
`Asking` (what `recvLen` is while `parse()` has a question open) make the rest inductive;
each step moves a prefix from one sequence to the end of the next, so their
concatenation is the same (`Regroup`). For the refinement, all bytes
under way form one `Line`, from what the client has received back to what it has
still to send: a step moves the borders in it, appends new numbers (`GoodNext`), or loses
one of its parts, and a line in order with a part cut out is in order (`Cut`,
`CutLine`). `EInv` is `Echoing` (`CSession::send` holds bytes only while it is called),
`Ordered` (the line is in order) and `Whole` (without a timeout nothing is missing from
its older part, and while the connection is up nothing from all of it).

`ChecksumProof`, for buffers, segments and addresses of every length and content:

| theorem | says |
|---|---|
| `TypeCorrect` | `Spec => []TypeOK` |
| `SumsEveryWord` | `Spec => []SumsWords` |
| `FoldingIsOnesComplement` | `Spec => []OnesComplement` |
| `AcceptedIffWhole` | `Spec => []Accepted` |

The argument. `SumOfFirst` is a function defined by recursion over the natural numbers. The
library's induction theorem takes an operator, which no prover here can instantiate;
`Induction` says the same of a set of numbers, and is proved from the least number
that would not be in it (`LeastNumber`, from the library's theorem that `<` on `Nat` is
well-founded). With it `SumOfFirst` exists, is a natural number, and satisfies its
equation, so that a turn of the first loop is one word of it. A turn of the folding
loop keeps the sum modulo 65535 and does not make it zero, and there is one number below
65536 left for each. For `AcceptedIffWhole` (`Headers`, `SumsDiffer`) what the receiver sums
differs from what the sender summed in one word, the length in the pseudo header, which is
the constant 20 of the one and the true length of the other: a difference too small to
be a multiple of 65535, so that it is always seen.

The proofs assume of the constants what the modules' `ASSUME`s say, and no more.

Only model-checked: every liveness property, since fairness and ENABLED are out of the
prover's reach (`ClosedIsReaped`, `DeleteReturns`, `IdleIsReaped`, `InvalidIsDeleted`,
`Delivered`, `CloseEndsReceiver`, `EchoArrives`, `GoneIsNoticed`, `SendReturns`,
`CloseReleases`, `StopReturns`), and the three violations of section 4. Every invariant,
action property and refinement that a passing run checks is proved.

## 6. Not modelled

* Addresses, names of interfaces and `errno`: so not `send()`'s loop on an `EINTR` that an
  earlier call has left (`Session.cpp:200`), nor the UDP client's `connect()`
  racing `send()`. A `send` that a signal interrupts is made again: `SendMore` where the
  number may have changed meaning, no step in `Stream`.
* What a subclass does in `parse()` beyond calling the session; in `Stream`, beyond the
  one of `main.cpp`. The other functions of `main.cpp` make calls in a row that the
  modules allow in any order.
* Failure of `new`, of `createProtocol` (a null protocol crashes the acceptor,
  `terminal.cpp:84`) and of the thread library.
* The destructors that nothing in the repository reaches in a running state: a `CTcpServer`
  is never deleted; `~ITerminal` is a `stop` in `Terminal`, though it does not wait for
  the manager (`terminal.cpp:50`); `~IProtoClient` uses no lock and clears no map.
  `IProtoClient::dispense` and `recv_proc` are never called (section 4).
* Two terminals on one port: `TcpServer` has them when `Sharing` is true, but nothing says
  what they should do.
* The packets of `temp/tcp.cpp` beyond their checksums: constant fields, and a raw socket that is
  sent to without looking at the result. `temp/NetIf.cpp` and `temp/RawSocket.cpp` are
  not built; `src/raw/NetIF.cpp` is not in the Makefile's directories and does not
  compile. They wrap ioctl and socket calls and keep no state between two of them. The
  packet printers of the capture keep none either.
* `temp/include-temp`, the system's header files, is more than half of the repository's
  lines and has nothing that runs.

## 7. What could follow

Every part that is built and keeps state has its module, and every safety property that
holds is proved. Left are: `Terminal` with real
sessions in place of their stages (the product is beyond TLC at a useful size; by
`Refinement` of `Session` and `Terminal` an argument on paper suffices), `TcpServer` with
`Sharing`, if a text ever says what it should do, and the request client's answers, once
its callback can be attached.
