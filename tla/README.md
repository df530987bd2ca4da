# A TLA+ model of ServerSimple

ServerSimple is a push notification server in C++ derived from the connection
handling of MySQL.  A client connects over TCP, exchanges keys, sends a push
token, and starts or stops an *alarm*: a thread that waits for the alarm's
time, then pushes messages at an interval.  This directory holds TLA+ modules
of the program's own logic, TLC configurations that check them on small
instances, and TLAPS proofs of the results that do not depend on the size of
an instance.

## 1. Inventory

| Component | Source | State | Operations | Hard behaviour |
|---|---|---|---|---|
| Alarm service | `server.cc` (StartNotification, StopNotification), `NotifyMessage.cc` | map of alarms, `LOCK_SetupNoti`, NotifyMessage objects, one detached thread per alarm | start, stop, alarm thread's loop | raw pointers shared with detached threads, a mutex with an early return, semaphore against flag, a thread stopping by user id |
| Connection server | `server.cc` (accept loop, create_new_thread, thread start and end, close_connection), `net_connect.cc` (handle_one_connection) | `connection_count`, `thread_count`, `thread_running`, two mutexes, THD objects, descriptors | accept, admit, create thread, serve, close, end | counters under two different mutexes, hand-over of THD to the new thread, failure paths that free by hand |
| Command session | `net_connect.cc` (do_command, dispatch_command, net_end_statement) | `server_status`, `user_id`, `command`, `net->error` of a THD | read a command, dispatch it, reply | replies on error paths, stale status, a handshake that answers twice |
| Packet layer | `net_serv.cc` | buffer, `read_pos`, `write_pos`, `pkt_nr`, `error` of a stNET | netInit, myNetRead, my_real_read, netRealloc, myNetWrite, net_write_buff, netFlush | partial reads, retries, packet numbers, buffer bound, length header of the client's test program |
| Socket layer | `vio.cc`, `viosocket.c` | `sd`, type, fcntl mode, read buffer of a Vio | vioNew, vioRead, vioWrite, vioClose, vioDelete, timeouts | close and reuse of descriptors, short reads and writes |
| Database sessions | `NotifyMessage.cc` (MysqlDealTask), `net_connect.cc` (SaveToken) | MYSQL handles | connect, query, close | handles not closed on error paths |
| Alarm parameters | `NotifyMessage.cc` (MysqlDealTask 509-536, WaitTime) | `tHour`, `tMin`, the deadline | store the alarm's time, arm the timer | a static struct tm shared with every thread that logs; int and unsigned mixed |
| JSON messages | `net_connect.cc`, `json/reader.h`, `json/document.h`, `json/writer.h` | a parser's stack, a document, a writer's levels | parse a request, look members up, write an answer | text from strangers, limits of int, counts of nested values |
| Payload encryption | `net_connect.cc` (DecryptData, sendKeytoClient), `aes.c` (padding) | session key | decrypt, unpad, send key | padding lengths that come from the peer |
| Logging | `log.c` | log files, a growing buffer | log_init, log | a static struct, `va_list` used twice |
| Test client | `ClientTest/clientTest.cc` | socket | one handshake, one request | length header |
| Vendored code | the rest of `json/` (rapidjson), `aes.c` (cipher), `curve25519-donna*.c`, `my_*.h`, `m_string.h`, `my_getsystime.c` | | | not this program's logic |

How they interact: the accept loop creates a THD and a connection thread for
each client; a connection thread loops over do_command; dispatch_command calls
StartNotification and StopNotification; StartNotification creates an alarm
thread, which runs on its own and calls StopNotification when it is done.  All
of it is one process; no alarm survives a restart, although its row does.
Threads meet in four places: the map of alarms under `LOCK_SetupNoti`, the
NotifyMessage objects, which no mutex guards, the counters under
`LOCK_connection_count` and `LOCK_thread_count`, and the THD that the main
thread hands to a connection thread.

What makes each component correct:

| Component | Correct when |
|---|---|
| Alarm service | a start or stop takes effect once and atomically; every alarm in the map has a live object and a thread that will end it; a thread uses and ends its own alarm only; the map respects its limit; alarms end; no request waits for ever |
| Connection server | the counters equal what they count on every path; the limit holds; a THD, a socket or a buffer is used only while it is owned, and is given back whatever fails; the main thread always gets back to accept; connection threads end |
| Command session | each request is answered exactly once, with its own command and status |
| Packet layer | whatever the fragmentation, a packet is delivered whole or reported as an error; no access outside the buffer; packet numbers of both sides agree |
| Socket layer | a descriptor is closed once, and by its owner |
| Database sessions | every handle is closed once, by the call that opened it |
| Alarm parameters | the time asked for is the start time plus the delay, as a time of day |
| JSON messages | a text is accepted exactly if it is JSON, but for numbers no double holds, the document is what the text means, and what one side writes the other reads |
| Payload encryption | unpadding undoes padding, and a wrong padding is told from a right one |

The hazards behind these, each at its line, are in `PROJECT.json`.

## 2. Plan

| Step | Module | Models | Composes, implements | Proofs |
|---|---|---|---|---|
| 1 | `AlarmRegistry` | the registry the connections see | abstract specification | |
| 2 | `NotifyService` | alarm service | implements `AlarmRegistry` | `NotifyServiceProofs` |
| 3 | `ConnServer` | connection server | | `ConnServerProofs` |
| 4 | `NetRead` | reader of the packet layer, against any peer | | `NetReadProofs` |
| 5 | `PacketQueue` | packets whole, in order and once | abstract specification | |
| 6 | `NetChannel` | writer and network | extends `NetRead`, implements `PacketQueue` | `NetChannelProofs` |
| 7 | `CommandService` | one answer per request | abstract specification | |
| 8 | `CommandSession` | command loop and database handles | implements `CommandService` | `CommandSessionProofs` |
| 9 | `AlarmClock` | times of alarms | | `AlarmClockProofs` |
| 10 | `Payload` | padding | | `TextProofs` |
| 11 | `JsonText`, `JsonReader`, `JsonWriter`, `JsonExchange` | requests and answers as texts | `JsonText` is the reference for the other three | `TextProofs` (writer), `JsonReaderProofs` |

All of these are written.  What is worth adding: an abstract `ConnPool` (a set
of served connections with a limit) that `ConnServer` implements, and a composition
of `ConnServer` with `NotifyService`, in which the mutex of section 5 that stays
locked takes all connections with it.

There are twelve runs, seven that pass and five that end with a counterexample, and
all of them can be repeated after every change.

## 3. The modules

### AlarmRegistry

The promise: a set `reg` of users with a running alarm, and for each connection
one request at a time.  A request takes effect in one step (`Started`,
`AlreadyStarted`, `NoResources`, `Refused`, `Stopped`) and is collected later
(`Collect`); an alarm may leave the registry at any moment (`Expire`).

### NotifyService

| State | Code |
|---|---|
| `lock` | the owner of `LOCK_SetupNoti` |
| `handle` | `mapNotifyMessageHandle`: `None` without an entry, `Null` for an entry with a null pointer |
| `obj` | the heap of NotifyMessage objects: parameters, `mThreadExit`, `mFirstStarted`, the semaphore's value, and, for the properties only, the thread the constructor created |
| `pc`, `id`, `this`, `loc` | where each thread is, and its locals |
| `ret` | the status a connection is to answer |

`Conns` are the connection threads as callers of StartNotification and
StopNotification, `Alarms` the detached threads that run `thread_start`.  One
action is the code between two points at which another thread can see a change:

- `Request`: a start or stop command reaches dispatch_command.
- `StartLock`, `StartMaxUser`, `StartAlready`, `StartAbsent`, `Construct`,
  `ConstructFails`, `Register`: StartNotification in order.  `Construct` creates
  the object and its thread in one step, so the thread may run, look at its
  object and even ask for the mutex before the object is in the map.  `operator[]`
  may have made the entry before the constructor runs (`StartAbsent` leaves both
  orders open, as C++ before 17 does); `ConstructFails` erases it, and `NullInv`
  says that no other start or stop ever sees it.  `Entries` is what size() counts,
  `Registered` the users that have an alarm.
- `StopLock`, `StopAbsent`, `StopPresent`, `CleanUp`, `Post`, `Delete`:
  StopNotification.  It is the same code for a connection and for an ending
  alarm thread.  `Unlock` ends both functions; an alarm thread exits with it.
- `Boot` to `PushMessage`: thread_start.  A task of the database returns what
  the code lets it return in that state, which is why its result depends on
  `mThreadExit`.

The heap is explicit because alarm threads hold a raw pointer that StopNotification
may free.  A freed address holds `None`; a read through it yields any value of
the field's type, a write through it is lost, and a later alarm may be allocated
at the same address, in which case the stale thread reads the new object.  That
is a subset of what undefined behaviour allows (a real write may damage the
allocator); what the properties claim about stale threads is claimed for this
subset.

Left out: the SQL and JSON texts, the push service, the time values (a timeout
may happen at any moment), and the stop record that CleanUp writes to the
database.

### ConnServer

| State | Code |
|---|---|
| `lock` | the owner of `LOCK_thread_count` |
| `connection_count`, `thread_count`, `thread_running` | the globals of the same names |
| `conn[t]` | the THD at address `t`: whether it, its Vio and its packet buffer are allocated; the Vio's state and `sd`; `killed`, `net->error`, and what dispatch_command returned |
| `sock[fd]` | whether a descriptor is open and whom it was accepted for |
| `newSock`, `cur` | `new_sock` and `thd` of the main thread |
| `pc` | where each thread is |

The main thread's actions follow `handle_connections_sockets` and
`create_new_thread` (`Accept`, `AcceptedFails`, `AllocateThd`, `SetUp`,
`SetUpFails`, `Admit`, `AdmitFails`, `Refuse`, `Release`, `Register`, `Create`,
`Created`, `CreateFails`, `Undo`, `Drop`); a connection thread's follow
`handle_one_connection` and what it calls (`ReadCommand`, `ReadFails`,
`StopServing`, `Begin`, `Execute`, `Finish`, `Close`, `CleanUp`, `Lower`,
`Unlink`, `Exit`).  `Lock(p, from, to)` is a wait for `LOCK_thread_count`: some
of its critical sections begin in one function and end in another.

Choices of the abstraction:

- A connection thread is named by the address of its THD.  After `free(thd)` it
  only unlocks and ends (`exit`), still holding the mutex, so no second thread
  of that name can be created meanwhile.
- `LOCK_connection_count` guards one statement at a time and is part of that
  statement's action.
- Addresses and descriptors are used again.  With all addresses in use the
  main thread waits for one, and with all descriptors in use accept does not
  return; `Thds` and `Fds` are the bound of the instance, not of the code.
- Memory that a THD pointed to when it was freed is remembered until its address
  is used again; `NoMemoryLeak` needs only the first moment.
- `Execute` is a whole command: it may wait for `LOCK_SetupNoti`, which
  `NotifyService` models, and always ends here.
- `thread_id` and `max_used_connections`, which only logging reads, are left
  out.  So is the value 3 of `net->error`, which nothing sets, and
  `abort_loop`, for the signal handler that would set it is compiled out.

### NetRead, NetChannel and PacketQueue

| State | Code |
|---|---|
| `wire` | bytes between the sockets |
| `buff`, `alloc` | `net->buff` up to the read position, and the bytes it points to |
| `max_packet`, `max_packet_size`, `where_b`, `pkt_nr` | the fields of stNET |
| `remain` | the local of my_real_read |
| `state` | where do_command and myNetRead are, or the error they close with |
| `got` | packets that reach dispatch_command |
| `rest`, `head`, `nr`, `pieces`, `wbuf`, `out`, `writer` | the writer: what is left of the packet, `head_len`, its `pkt_nr`, calls of net_write_buff still to come, its buffer, what netRealWrite has still to send |

The reader takes any number of the bytes asked for at a time (`Read(n)`), so
headers and bodies are cut anywhere.  `BeginBody`, `TooLarge` and `NoMemory` are
netRealloc's three ends, `NextFrame` and `EmptyFrame` the packets of several
frames.  `ReaderSpec` puts it against a peer that sends any bytes; `NetChannel`
against a client that writes with netWriteCommand, with myNetWrite, or as
ClientTest does (`StartAlarm`; `Stray` is what it sends beyond the length it announces: 0 when
it is built with encryption, 1 as it is shipped), over a buffer of the writer's own and a network
that takes any number of bytes at a time or fails.  A byte has `Base` values;
frames are at most `Base^3 - 1` bytes long, and packet numbers wrap around at
`Base`.  `PacketQueue` is the promise.

In the shipped program `max_packet` equals `max_packet_size`, so the buffer never
grows; `MaxSizes` also has limits at which it does.  netRealloc rounds up to whole
blocks, so `max_packet` may exceed `max_packet_size` by less than a block.
The server itself writes with netRealWrite alone; the writing functions of
`net_serv.cc` are the client's side of the same library.

### CommandSession and CommandService

| State | Code |
|---|---|
| `th[s]` | of the THD: `command`, `server_status`, `user_id`, `net->error`; of the thread: where it is, what do_command returns, whether the read failed |
| `taken`, `replies` | the requests a client sent, and the answers written to it, with the request they follow |
| `handles`, `task` | open MYSQL handles, and calls of MysqlDealTask in the alarm threads |
| `users` | the rows of table Users |
| `lock` | `LOCK_SetupNoti`: free, held, or kept by a start that returned |

`Receive` and `ReadFails` are do_command, `Dispatch` to `Store` dispatch_command
and SaveToken, `NoAnswer`, `Answer` and `AnswerFails` net_end_statement with the
loop in handle_one_connection.  A request is its command, how much of the JSON
it needs it carries, and whether it decrypts; that is what the branches
depend on.  A start is one step that needs the mutex, and keeps it when the map is full
(`StartMaxUser`); a stop holds it from `StopOpens` to `StopCloses`, while CleanUp
uses the database in the session's thread.  What they do to the alarms, and the
turns of the alarm threads, are `NotifyService`'s.  `TaskOpens`, `TaskCloses` and
`TaskAbandons` are MysqlDealTask's opening, and its returns with and without
mysql_close, in an alarm's thread.  `Builds` says whether the server is compiled with
encryption (`net_connect.cc:43` ships without).  The proofs take both builds.  The run
`session` takes the one with encryption and sends it requests that decrypt as well as
ones that do not: in this module the shipped build does with a request what the other
does with the same request sealed, so its behaviours are among those of the run.

`CommandService` is the promise: a request is answered at most once and before
the next is taken, with a status and user index of its own; a session whose
read failed may repeat its last answer.

### AlarmClock

`date` is the one `struct tm` of the C library.  localtime fills it in two steps
under a lock of the library (`Convert`, `Converted`), tm_hour before tm_min, and
whoever called it reads the two fields later without that lock (`ReadHour`,
`ReadMinute`).  An alarm's thread (`MysqlDealTask`) then stores hour and minute
(`StoreTime`) and arms its timer (`SetTimer`, `Ring`: WaitTime).  Every other
thread of the process does the same in log(), through log.c's own localtime_r
(`Loggers`).  The order of localtime's two writes is glibc's; the opposite order
would change nothing that the properties say, which speak of a thread that
nobody disturbed or of any mixture.  `Signed` and `Delay` keep the width of int
and unsigned int.

### Payload, JsonText, JsonReader, JsonWriter, JsonExchange

`Payload` has the padding of `aes.c` as functions on sequences of bytes, and
what DecryptData returns.  AES and the key exchange are bijections and left out.

`JsonText` is not a model of code: it builds, length by length, the set of all
JSON texts of an alphabet with the value each stands for, and the beginnings of these
texts; a text that the reader refuses before its end must be none of the beginnings,
one that it refuses at its NUL none of the texts.  `JsonReader` is
Document::Parse as a state machine over the bytes:

| State | Code |
|---|---|
| `bytes`, `pos` | the StringStream; an unknown text is chosen byte by byte as the reader looks at it (`Grow`) |
| `at`, `calls` | where the recursive descent is, with the counts of the open ParseObject and ParseArray |
| `lex` | the locals of ParseNumber and ParseString |
| `stack` | the document's stack of values |
| `code` | parseResult_ |

`Event` and `Closes` are the handler's calls: `EndObject(n)` takes `n` pairs from
the stack.  `JsonWriter` is rapidjson's Writer with net_end_statement's calls of
it.  `JsonExchange` puts them together: any text in a clear request, any blocks
in an encrypted one (the NUL that ends the packet comes after the padding), and
any answer, which a client reads and sends a number from.

Abstractions: numbers have base `BASE` and ints the width `Width`; a literal is one
byte; fractions, exponents and `\u` escapes are not in the alphabet (they need
bytes that it lacks); a double is exact up to `MaxDouble` and overflows beyond, its
rounding is left out; every number that is no int is one value, since IsInt is all
the server asks.  The names of members in `JsonDefine.h` are all the placeholder
"test" in this repository; the model takes them as different (`ExchangeAssumption`), so what
is said of answers is said of names that differ.  The client side is
assumed to read and write as the server does, and to count the NUL as part of
its text, as ClientTest does.

## 4. The runs

MC modules add symmetry sets and values for constants that a `.cfg` cannot
express.  The permuted sets occur in no property asymmetrically, and no run with
liveness uses symmetry.

| Run | Instance | Properties | Shows |
|---|---|---|---|
| `notify_full` | 3 users, 2 connections, 2 alarm threads, 2 addresses; 0 or 1 repeats, limit 1 | `TypeOK`, `LockInv`, `RegistryInv`, `CapacityBound`, `WakeMeansStop`, `ServedAlarm`, `ImplementsRegistry` | map (null entries included), heap, mutex and threads stay consistent for all orders of starts and stops, although alarm threads may run on freed memory; racing starts never put more than limit + 1 users in the map; the service implements `AlarmRegistry`, refusals included |
| `notify_live` | 1 user, 2 connections, 2 alarms, 1 address; 2 repeats and 1 message; fairness | `AlarmsEnd`, `RequestAnswered` | alarms end and requests are answered, stale threads included |
| `conn_full` | 3 THDs, 2 descriptors, limit 0, every failure, fairness | `TypeOK`, `LockInv`, `CountersInv`, `ConnectionBound`, `NoUseAfterFree`, `OwnSocket`, `NoDescriptorLeak`, `ThreadFreesAll`, `AcceptorReturns`, `ConnectionsEnd` | counters, limit, hand-over and ownership on all failure paths; the main thread gets back to accept, connection threads end |
| `net` | bytes are bits; 2 packets of 7 lengths from 0 to 15 (frames hold 7); writer's buffer 5; limits 5, 12, 20; all three ways to write, ClientTest's with encryption; fairness | `BufferBound`, `MemoryBound`, `InOrder`, `RefusesOnlyLarge`, `ImplementsQueue`, `Delivered` | packets arrive whole, in order and once, whatever the cuts; only packets beyond the limit are refused |
| `session` | 2 sessions with 2 and 1 requests, one database task, 2 handles, every command and every way it can be wrong; fairness | `OwnUser`, `ImplementsService`, `Served` | each request gets one answer of its own, and a user index reaches the client that stored it; every request is answered or ends its session, over the turns with the mutex, but for a start or stop after a start that was refused for want of room |
| `clock` | 1 alarm, 1 logging thread, minutes of 2 seconds, hours of 2 minutes, days of 3 hours, ints of 5 bits, 12 settings with numbers out of range | `ReadsOwnTime`, `StoredTime`, `TimeOfDay`, `RingsAsStored` | the time stored is the time at which the alarm rings, for whoever reads his own time undisturbed and for settings that `Fits`: whose sums do not wrap around |
| `request` | base 2, ints of 2 bits, blocks of 3; all texts of up to 6 bytes, all of up to 8 of the bytes that objects are made of or of these and a blank, all packets of up to 2 blocks over 6 bytes, all answers | `ReadsMeaning`, `RefusesNoJson`, `SealTold`, `AnswerKept` | the server accepts JSON and nothing else, all of it but numbers above `MaxDouble` (15 here), and reads what it means; padding is told from text; answers and user indices survive the way to the client and back |

The types of the packet channel (`WTypeOK`) are no run's property: `TypeCorrect` of
`NetChannelProofs` proves them for every value of the constants.

Why the bounds are enough.

- Two users, connections and threads are the least with which a start can race a
  start, a stop and an ending alarm of the same and of another user, and with
  which an address goes from one alarm to another's.  `notify_full` has a third user,
  whose entry, with a null pointer already, would take the map beyond limit + 1.  Two repeats (`notify_live`) are the
  least with which a wait is a later one and the messages are used up.
- With three THDs, two descriptors and a limit of zero one client is served, one
  is refused or fails, and the main thread accepts a third on a descriptor used
  before.
- `net`: 0, 1, 3, 6, 7, 8 and 15 bytes are the empty packet, those below, at and
  above the size of a frame, and one of three frames; 5, 12 and 20 are a buffer
  that does not grow, grows once, and grows more than once.  The second packet
  shows what the first leaves behind.
- `session`: a second request of one session is the least after which something
  stale can be answered; a second session is needed for another's user index.
  Two handles run out with a save and a task.  The second session's
  stop waits while the first holds the mutex, or has left it locked.
- `clock`: 12 seconds are a whole day, so every alarm can pass midnight.
- `request`: nested objects and arrays, arrays of two elements, objects with a
  member, with blanks in every place and with a comma where the next member is
  missing, escapes in strings, and numbers on both sides of both limits of int all
  occur among the texts; objects of two and three members occur in the answers.  A
  packet of two blocks is the least whose first block is all text.

The safety results marked in section 6 are moreover proved for all sizes.

`CHECK_DEADLOCK FALSE` is given where the system may stop: in the `notify_` runs
whose limit can be exceeded, where the refused start leaves the mutex locked; in
`net`, `session`, `clock` and `request`, whose clients may have sent everything they
had to send.  `conn_full` and `notify_live` check for deadlock.

Faulty variants.  Each module has a section of operators such as
`CleanUpPostsFirst` or `EndsInLast` that no specification uses.  Putting one in
the place of the definition it imitates makes the property it is meant for fail;
`PROJECT.json` pairs them.  They show that a property depends on the line of code
that the variant drops or swaps.

## 5. Disagreements between the code and its comments

Each of these runs checks one property and ends with a counterexample.

| Run | Property | What happens |
|---|---|---|
| `notify_lock_kept` | `RequestAnswered` | StartNotification returns `CLIENT_REQUEST_RET_MAX_USER` (`server.cc:741`) without unlocking `LOCK_SetupNoti`; the next start, stop or ending alarm waits for ever |
| `notify_past_end` | `PushInRange` | PushMessage lets `index == mMessages.size()` through (`NotifyMessage.cc:285`) and reads one past the end when an alarm repeats more often than it has messages; the further ones were to come from a public table (644), but that task does nothing |
| `notify_wrong_alarm` | `EndsByOwner` | a start, stop, start of one user: the first alarm's thread stops by user id (`NotifyMessage.cc:667`) and so ends the second alarm |
| `conn_refused` | `NoMemoryLeak` | a refused connection's THD is freed by `free(thd)` (`server.cc:508`; the same at 564-565) although its Vio and buffer are freed nowhere; the comment at `server.cc:698` expects a destructor that THD does not have |
| `session_stale` | `ErrorSet` | after a failed read do_command answers (`net_connect.cc:228`) with the status of the command before, which may be success; the comment above says the error must be set |

Defects the models show that have no run of their own:

- StopNotification deletes the object (`server.cc:719`) right after it woke the thread
  that is about to read it, although CleanUp's comment has the problem of
  synchronisation solved there (`NotifyMessage.cc:203`): `NoUseAfterFree` of
  `NotifyService` fails in every instance with a stop among its requests.
- A connection whose packet buffer cannot be allocated (`server.cc:445`) is freed without
  its Vio, which is in `net.vio` by then: with `Failures = {"buffer"}` `NoMemoryLeak`
  fails without a refused client.
- Built without encryption, as shipped, ClientTest announces one byte less than it sends
  (`clientTest.cc:209`, 217): the NUL becomes the first byte of the next header, and the
  next packet, its quit (353-362), does not arrive.  With `Stray = 1` `Delivered` fails; what
  is said of ClientTest's framing is said of the build with encryption.
- SaveToken never closes its MYSQL handle (`net_connect.cc:602`), and three returns of
  MysqlDealTask leave theirs open (`NotifyMessage.cc:529`, 547, 556); once the database
  accepts no more, every save is answered with an error.  `QueryFails`, `Store` and
  `TaskAbandons` lose the handle as the code does, so that every open handle is in use
  holds only until the first of them.
- log.c's own localtime_r is localtime and a copy of its static struct (`log.c:161-169`),
  which an alarm's thread reads too; the comment at 173 wants log() thread-safe.  A time
  may be stored or printed that nobody asked for.  `ReadsOwnTime`, `StoredTime` and
  `RingsAsStored` speak of threads that nobody disturbed; only `TimeOfDay` covers the others.
- An alarm due in the first hour after midnight may be stored as hour 24
  (`TimeOfDay` says exactly when).
- An hour or minute that is negative, or so large that a sum wraps around, is stored as
  one time and rings at another: the deadline is computed in unsigned arithmetic
  (`NotifyMessage.cc:226`), the stored time in int (513).  `StoredTime` and
  `RingsAsStored` leave these out by `Fits`.
- A request under encryption whose text does not end with a NUL is parsed
  together with its padding, and so refused, unless the padding is blanks
  (9, 10 or 13 bytes); a padded empty text ends the session.

Comments that are merely wrong: `net_connect.cc:238-245` says myNetRead returns zero
for a malformed header, but it returns packet_error.

## 6. The proofs

Checked by TLAPS with its SMT, Zenon and LS4 backends, for every value of the
constants that satisfies the assumptions named in the modules.  In short: the
names of threads, addresses and `None` are distinct, the sets of users, THD
addresses, sessions and tasks are finite, limits and sizes are natural numbers
(positive where the code divides or allocates by them), and the optional parts
(`Requests`, `Failures`, `Builds`) are subsets of the kinds there are.

| Module | Theorems |
|---|---|
| `NotifyServiceProofs` | `Inductive`, `TypeCorrect`, `MutualExclusion`, `RegistryCorrect`, `CapacityRespected`, `WakeIsStop`, `AlarmsServed`, `StartOnlyMemorySafe`, `StartOnlyEndsByOwner`, `OwnPushInRange`, `Refinement` |
| `ConnServerProofs` | `Inductive`, `TypeCorrect`, `MutualExclusion`, `CountersCorrect`, `LimitRespected`, `HandOverSafe`, `SocketOwned`, `DescriptorsKept`, `ThreadsFreeAll` |
| `NetReadProofs` | `ReaderInductive`, `ReaderBufferSafe`, `ReaderMemoryBounded`, against any peer |
| `NetChannelProofs` | `Inductive`, `TypeCorrect`, `BufferSafe`, `MemoryBounded`, `StreamInductive`, `InOrderCorrect`, `RefusesOnlyLargeCorrect`, `ImplementsQueueCorrect` |
| `CommandSessionProofs` | `Inductive`, `TypeCorrect`, `OwnUserCorrect`, `Refinement` |
| `AlarmClockProofs` | `Inductive`, `TypeCorrect`, `ReadsOwnTimeCorrect`, `StoredTimeCorrect`, `TimeOfDayCorrect`, `RingsAsStoredCorrect` |
| `TextProofs` | `PaddingUndone`, `RefusesUnpadded`; lemmas on what the writer makes of ints, strings and objects, and on the grammar |
| `JsonReaderProofs` | `IndexKept`, `DigitLimit`, `ReaderInductive`, `DocumentCorrect`, `StaysInTextCorrect`, `NumberCorrect`, `SealedOnlyCorrect`, `AnswerCorrect`, `MeaningCorrect` |

**NotifyServiceProofs.**  The properties alone are not inductive: that `Register`
keeps the map consistent depends on what the same thread saw in `lookup`
(`LookupInv`: the user is still absent, and the map still has room), which in
turn depends on the mutex (`LockInv`); and that a live object has a thread depends
on where that thread is, also before the object is in the map (`ThreadInv`).
`WorkInv` says that threads have the operands they use.  There is one lemma per
conjunct with one step per action; `Kept` abbreviates that no object is created or
deleted and only fields change.  The `StartOnly` theorems, which no run repeats, assume that no client
sends a stop and use a second invariant `OwnInv`: each alarm thread has a live
object of its own.  `TurnInv` is the invariant of the alarm's loop: between two looks
at the counter a thread has turns left, and the number of messages it took at the
start is still that of its object.  Hence `OwnPushInRange`, for alarms that do not repeat
more often than they have messages and threads whose object is their own; without
the first condition it is false (`notify_past_end`).  `RegistryInv` is two invariants,
one of the objects the map holds (`MapHeapInv`) and one of its null entries (`NullInv`),
which only a start within its critical section may see.  In the refinement a start takes effect at `Register`,
`StartAlready`, `StartMaxUser` or `ConstructFails`, a stop at `Delete` or
`StopAbsent`, and an alarm thread's `Delete` is an `Expire`.

**ConnServerProofs.**  `IInv` adds to the checked properties what the main thread
holds at each point (`MainInv`), that a Vio is open exactly from `SetUp` to the
end of close_connection and that it and its descriptor belong to each other
(`SocketInv`), that cleanup has freed what it should (`FreedInv`), and that the
counter itself respects the limit (`LimitInv`).  The core is the hand-over: while
pthread_create has not returned, the new thread cannot reach `exit`, because it
needs `LOCK_thread_count`, which the main thread holds; so `cur` is allocated
whenever the main thread uses it.  `CountersInv` is proved by following three sets,
`Connections`, `Threads` and `Running`: each action adds or removes the one thread
that its counter counts.

**NetReadProofs, NetChannelProofs.**  `FrameInv` says how much of a header or body
the buffer holds and lacks, and that the body was admitted by the size the buffer
has then; it is what makes the bound on stores survive the reallocation.  The peer
sends any bytes, so nothing is assumed of the lengths in headers.  In the channel
the network's step is a peer's step, so the bounds carry over; `WriteInv` keeps
the writer within its own buffer.

What arrives is a matter of every byte under way.  `at` lists where each packet
begins in the bytes of the connection (`LayoutOf`), and `StreamAt(at)` says that the
bytes on the wire, in netRealWrite, in the client's buffer and in the pieces still to
be buffered are, in this order, those of the frames of the packets sent from the
reader's place on (`CodedBy`), and that they end where the client is (`WriterAt`).
`ReaderAt` says what the reader has made of the bytes before: the packet up to
`where_b` and part of a header, part of a body, or a packet.  `SInv` also keeps what was
dispatched (`GotInv`) and what was refused (`LargeInv`), and it drops the stream
once the reader has closed.  One lemma per action preserves it.  The arithmetic is
in the lemmas on frames: a packet number and a place determine a frame
(`FramesApart`), a header reads as the length it was written from (`HeaderRead`, with
bytes of any size), a stretch of a frame is found where the layout puts it.  Then
`InOrder` and `RefusesOnlyLarge` are conjuncts, and in the refinement `Begin` and
`StartAlarm` are a `Send`, `Deliver` a `Deliver`, a failed read, an allocation that
fails and a large packet a `Break`, and all else leaves the queue alone.  These four
theorems assume `Framed`: ClientTest's StartAlarm is not among the writers or sends no
byte it has not announced; otherwise they are false (section 5).

**CommandSessionProofs.**  A user index is right when it is answered because it
belongs to the last request (`Own`), or because it repeats the last answer
(`Repeats`); which of the two holds depends on where the thread is (`AtRead`,
`AtWork`, `AtExecute`, `AtReply`), down to net_end_statement after a failed read.
Rows are never of requests not yet taken (`RowsInv`), so a later request never
owns an earlier row.  The refinement maps `dispatch` to `reply` to a request that
waits, `Receive` to `Take`, SaveToken's insertion to `Store`, and net_end_statement
to `Answer`, `End` or, after a failed read, the repetition.

**AlarmClockProofs.**  `Filling`: at most one thread is within localtime and the hour
it wrote is its own.  `Looking`: what an undisturbed thread has yet to read in the
struct, and what it has read of it, are the fields of its own time.  `Computed`:
what is stored comes from what was read, torn or not.  `StoredTime` and `TimeOfDay`
then are arithmetic, for any lengths of minute, hour and day.  `RingInv` orders the
moments of one alarm (asked for, armed, rung); with `StoredTime` it gives
`RingsAsStored`, by uniqueness of quotient and rest (`Division`, `SameRest`).

**TextProofs** proves facts about operators.  Unpadding undoes padding, and the
length that DecryptData returns tells exactly the packets that a text was padded
into; the product of two variables (blocks of a packet) is the only difficulty, and
one lemma on multiples, `Multiple`, carries it.  The other half is what the writer
makes of its values: an int is its digits, highest first, each a prefix of the
number (`NumeralOf`, `IntLexeme`), a string is its characters with an escape where one
is needed (`StringLexeme`), and an object of one member or more is a text whose
lexemes stand where their places say (`WriteOne`, `EndWritten`, `ObjectText`).  The
digits come from a recursive function and the strings from a fold.  The library's
induction theorems cannot be instantiated, so `Induction` proves induction for a set
of naturals from `FS_CountingElements` and its neighbours: below its least missing
member a set has as many members as it would need.  With it a function that satisfies
the recursive equation is built (`NumeralsExist`, `PiecesExist`, `RowsExist`), so the one
that the definition chooses satisfies it, and then its values follow.  The last part
unfolds the reference grammar the same way (`GrammarRow`): for each way a text is put
together from others there is a lemma that its value is in the table (`MoreNumerals`,
`StringValue1`, `ArrayValue`, `ObjectValue`, `MoreSpace`, `MoreElements`,
`MoreMembers`).

**JsonReaderProofs.**  Two facts about operators (a digit is refused exactly if
the number would pass the limit; an index written as an int and read back as
unsigned is the same), and invariants of `JsonExchange`'s specification
beyond what the texts of a run can show: they hold for texts of any length and
any nesting, whoever wrote them.
- `DocumentSound`: EndObject and EndArray pop the values that were counted for their
  object or array, which lies directly below them; one root is left in the end; the
  members of an object are names and values in turn.  The code states this by an
  assertion (document.h:2265) and otherwise by pointer arithmetic on a stack that
  reader and document share only through the counts.  The inductive invariant is
  `PlaceInv`, what the place in the text says of the innermost activation, and
  `StackInv`: the stack of values is the sequence of the open objects and arrays,
  each followed by what it has counted so far and by a name whose value is still
  being read (`Layout`, with a witness `base`, the place of each on the stack).
  `ArrayInside`, `CallBegins`, `CallEnds`, `ValueCounted` and `NameRead` say how an
  event moves from one layout to the next; the layout of a closing object yields the
  outer one because only the innermost activation changes.
- `StaysInText`: the reader looks at no length, and never passes the NUL that ends the
  text (`TextInv`; that no digit is the NUL is an assumption).
- `NumberFits`: an unsigned never wraps while digits are taken, and the value is the
  int that was written, at the smallest int as well (`NumberInv`); past 32 bits the
  digits are those of a double, of which nothing is claimed but that it is a number.  That one digit is
  an int, `2 * BASE <= Width`, is an assumption; with 10 and 2^32 it is true.
- `AnswerKept`: the client reads the status, file and user index that the server
  wrote, and the index it sends back names the same user.  `Follows` is the inductive
  invariant (`AnswerInv`): the text is that of an object (`Whole`), and whatever byte
  the reader is at, it has on the stack what the members up to there mean, has copied
  the characters of a string up to there, or has the value of the digits up to there.
  One lemma for each place the reader can be at (`KeyStep`, `ColonStep`, `ValueStep`,
  `StringStep`, `EscapeStep`, `SignStep`, `DigitsStep`, `NextStep`) says that its next
  step keeps this.  The padding after the NUL is never looked at.  It needs that the
  three names differ, that names and contents are strings of the alphabet, that a
  digit is no other mark, and that one digit is an int; all are assumptions the
  code's constants satisfy.
- `ReadsMeaning`: whatever bytes come, if the reader accepts them they are a JSON text,
  and the document is the value that the grammar gives it.  The invariant, `MeaningInv`,
  has the text `t` read so far, and says what it is made of (`Placed`): a beginning, whose
  open objects and arrays each have a place in the text and on the stack (`Chain`), what
  the innermost has read since, a list of elements or members with its separator
  (`ValueBefore`, `KeyBefore`), and the part of the lexeme that is being read.  The counts
  of the activations are the lengths of these lists, so an event that pops as many values
  as were counted puts a text into the table and its value on the stack (`CloseRead`).
  For each kind of byte one lemma about constants says how `Placed` goes on
  (`QuoteRead`, `EscapeRead`, `DigitMore`, `CommaRead`, `CloseRead` and others), and one
  about the state that the action does this (`ScanReads`, `NextDigitReads` and
  others).  It rests on `ReaderInductive` and on `NumberInv`, from which the edges of
  int come.
- `SealedOnly`, the first half of `SealTold`: of the packets of an encrypted build
  exactly those are parsed that a text was padded into, by `RefusesUnpadded` for a
  packet of any length.  That the client's own packet is a sequence of bytes
  (`PacketBytes`) comes from `AnswerInv`.

### Only model-checked

- All liveness properties (`AlarmsEnd`, `RequestAnswered`, `AcceptorReturns`,
  `ConnectionsEnd`, `Delivered`, `Served`): proofs about fairness and ENABLED are
  beyond the prover.
- `RefusesNoJson`, that a refused text is none of the grammar's, and the second half of
  `SealTold`, what is read in a padded packet.  The first needs that a text has only one
  reading: an induction over everything the grammar builds, of which the lemmas above are
  only one direction.  The second compares with the table of another alphabet.  What is
  proved of these: the packets that are parsed (`SealedOnly`), and the reader on what
  the writer wrote (`AnswerKept`).
- The five counterexamples.

## 7. Fairness

Weak fairness for every thread: the operating system runs a thread that can run,
and waits end (`sem_timedwait` has a deadline, reads have `NET_READ_TIME_OUT`,
database calls return).

- Alarm service and connection server: nothing is assumed of the clients.
  `Request` and `Accept` are not fair, and a served connection may go to
  `ReadFails`, when its client is silent, as well as to `ReadCommand`.  A mutex has
  no queue, and a thread may lose the race for it again and again while others
  keep using it; so the liveness properties speak of the time after the others
  have become quiet (`<>[]Quiet(...) => ...`), which weak fairness is enough for.
- `NetChannel`: the reader goes on while it has bytes, a client that has begun to
  write goes on, and the network takes what is written.  A client need not begin
  a packet, and failures need not happen; `Delivered` is about the behaviours in
  which they do not.
- `CommandSession`: a connection's thread goes on once it has a request.  Weak fairness
  is enough for the turns with `LOCK_SetupNoti` because sessions send finitely many
  requests (`MaxRequests`), so nobody can take the mutex again and again.  A request
  waits for ever only behind a start that has kept the mutex (`Blocked`), which
  `Served` names as the one exception.  Nothing is assumed of the client, who may
  stay silent, or of alarms.

## 8. Not modelled

- Start-up (`log_init`, `init_signals`, `network_init`): runs once before any
  thread exists, and a failure ends the process.  No alarm is
  restored: the program does not read the rows of its alarms when it starts again,
  so there is no recovery to model.
- Shutdown: the signal thread is compiled out (`#if 0`), so the accept loop never
  ends.
- The formatting of log lines, SQL texts, and the push request: data.
- The AES rounds and the curve arithmetic: third-party, bijections and pure data.
- The handshake's key counts as no answer in `CommandSession`: sendKeytoClient writes
  it and net_end_statement then writes one more answer.  In the encrypted build
  ClientTest reads the key and takes that answer for the one to its next request.
- netClear, netWriteCommand, myNetWrite and vioReadBuff are not called by the
  server.  The two writers are modelled as the client's side; the statistics,
  compression and vioReadBuff are left out.
- Vendored code that the server does not call: rapidjson's schemas, pointers,
  iterative parser, encodings, doubles, regular expressions and pretty printer,
  and MySQL's portability headers.  They are more than half of the lines of this
  repository, which is why the share of lines that `PROJECT.json` maps stays
  small although every part of the program's own logic has a module.
